---------------------------- MODULE ChapterShelf ----------------------------
(***************************************************************************)
(* What the server promises about one chapter's copy, with no worker, no   *)
(* directory and no crash: a chapter nobody asked for is out, an asked-for *)
(* chapter is wanted until it is kept or refused, a kept chapter leaves    *)
(* the shelf only by being taken off it or with its publication, and a     *)
(* deleted chapter stays deleted.                                          *)
(*                                                                         *)
(* The states are those of yomu_domain::DownloadState (pending and         *)
(* downloading are one state here, failed and unavailable another).        *)
(***************************************************************************)

CONSTANT Units

VARIABLE shelf

Places == {"unlisted", "out", "wanted", "kept", "refused", "gone"}

TypeOK == shelf \in [Units -> Places]

Init == shelf \in [Units -> {"unlisted", "out"}]

(* The chapters of S, all of them in one of the places `from`, move to `to`. *)
Move(S, from, to) ==
    /\ S # {}
    /\ \A u \in S : shelf[u] \in from
    /\ shelf' = [u \in Units |-> IF u \in S THEN to ELSE shelf[u]]

Next ==
    \E S \in SUBSET Units :
        \/ Move(S, {"unlisted"}, "out")            \* the source lists them
        \/ Move(S, {"out", "refused"}, "wanted")   \* somebody asks for them
        \/ Move(S, {"wanted", "refused"}, "out")   \* dismissed
        \/ Move(S, {"wanted"}, "kept")             \* fetched
        \/ Move(S, {"wanted"}, "refused")          \* failed, or not offered
        \/ Move(S, {"kept"}, "out")                \* the server copy is removed
        \/ Move(S, Places, "gone")                 \* the publication is deleted

Spec == Init /\ [][Next]_shelf
=============================================================================
