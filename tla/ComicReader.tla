---------------------------- MODULE ComicReader ----------------------------
(***************************************************************************)
(* The comic reader of one publication: the paged track with its animated  *)
(* turns, the continuous strip that pulls neighbouring chapters in and     *)
(* drops distant ones, switching between the two, and what is reported as  *)
(* read. Geometry (where a scroll ends, how far a drag goes) is arbitrary. *)
(***************************************************************************)
EXTENDS Integers, Sequences, SequencesExt

CONSTANTS
    LastChapter,    \* chapters are 1 .. LastChapter in reading order
    PagesIn,        \* pages of each
    StripReach,     \* chapters kept on either side of the one being read
    MaxToggles      \* bound: strips one reader builds

ASSUME ReaderAssumption ==
    /\ LastChapter \in Nat /\ StripReach \in Nat /\ MaxToggles \in Nat
    /\ PagesIn \in [1 .. LastChapter -> Nat \ {0}]

Listing == 1 .. LastChapter
Still == 2      \* no turn is being animated

VARIABLES
    reader,     \* the mounted reader: its chapter, and what has been loaded
    mode,       \* "paged" or "vertical", kept for the publication
    page,       \* the page shown and reported
    pos,        \* paged: position on the track, -1 and count are transitions
    snap,       \* paged: the turn being animated
    timer,      \* the fallback that lands it is still to fire
    current,    \* vertical: the chapter under the reader
    segments,   \* vertical: the chapters in the strip
    counts,     \* chapters whose number of pages the reader knows
    loads,      \* requests for it, each from one strip
    reported,   \* history: the last position reported by this reader
    strayed,    \* history: since the track last landed the strip moved on, or
                \* a turn of it landed late, with the strip in another chapter
    overtaken   \* history: a load met an eviction or a switch of modes

track == <<pos, snap, timer>>
strip == <<current, segments, counts, loads>>
readerVars == <<reader, mode, page, track, strip, reported, strayed, overtaken>>

Load == [side : {"prev", "next"}, chapter : Listing, strip : 1 .. MaxToggles]

ReaderTypeOK ==
    /\ reader \in [chapter : Listing, end : BOOLEAN, listed : BOOLEAN, strip : 0 .. MaxToggles,
                   pages : {"loading", "known", "failed"}]
    /\ mode \in {"paged", "vertical"}
    /\ page \in Nat /\ pos \in Int /\ snap \in {-1, 0, 1, Still} /\ timer \in BOOLEAN
    /\ current \in Listing /\ segments \in Seq(Listing) /\ counts \subseteq Listing
    /\ loads \subseteq Load
    /\ reported \in {<<>>} \cup (Listing \X Nat)
    /\ strayed \in {"no", "strip", "late"} /\ overtaken \in BOOLEAN

(* The reader as it is created for a route: ?page=n or ?page=end. *)
Mounted(c, end) ==
    [chapter |-> c, end |-> end, listed |-> FALSE, pages |-> "loading", strip |-> 0]

ReaderInit ==
    /\ \E c \in Listing, n \in 0 .. 1 : reader = Mounted(c, FALSE) /\ page = n
    /\ mode \in {"paged", "vertical"}
    /\ pos = page /\ snap = Still /\ timer = FALSE
    /\ current = reader.chapter /\ segments = <<>> /\ counts = {} /\ loads = {}
    /\ reported = <<>> /\ strayed = "no" /\ overtaken = FALSE

(* A route to the chapter the router is at changes no parameter. *)
Reroute(c, n, end) ==
    IF c = reader.chapter THEN UNCHANGED <<reader, page, track, strip, reported, strayed, overtaken>>
    ELSE /\ reader' = Mounted(c, end)
         /\ page' = n /\ pos' = n /\ snap' = Still /\ timer' = FALSE
         /\ current' = c /\ segments' = <<>> /\ counts' = {} /\ loads' = {}
         /\ reported' = <<>> /\ strayed' = "no" /\ overtaken' = FALSE
-----------------------------------------------------------------------------
Count == IF reader.pages = "known" THEN PagesIn[reader.chapter] ELSE 0
OnPage(n) == n \in 0 .. Count - 1

(* A strip is made when vertical mode shows pages; it keeps what an earlier *)
(* one had put together.                                                    *)
NewStrip ==
    /\ reader' = [reader EXCEPT !.strip = @ + 1, !.pages = "known"]
    /\ segments' = IF segments = <<>> THEN <<reader.chapter>> ELSE segments
    /\ counts' = counts \cup {reader.chapter}

(* Mutant of Opening: whatever the address says. *)
OpeningAnywhere(last) == page

(* The page opened, once the chapter is known to exist. *)
Opening(last) == IF reader.end \/ page > last THEN last ELSE page

PagesArrive ==
    LET n == Opening(PagesIn[reader.chapter] - 1)
    IN  /\ reader.pages = "loading"
        /\ IF mode = "vertical" THEN reader.strip < MaxToggles /\ NewStrip
           ELSE /\ reader' = [reader EXCEPT !.pages = "known"]
                /\ UNCHANGED <<segments, counts>>
        /\ page' = n
        /\ pos' = IF n = page THEN pos ELSE n
        /\ reported' = <<reader.chapter, n>>
        /\ UNCHANGED <<mode, snap, timer, current, loads, strayed, overtaken>>

PagesFail ==
    /\ reader.pages = "loading"
    /\ reader' = [reader EXCEPT !.pages = "failed"]
    /\ UNCHANGED <<mode, page, track, strip, reported, strayed, overtaken>>

(* The publication's chapters, and with them the neighbours. *)
DetailArrives ==
    /\ ~reader.listed
    /\ reader' = [reader EXCEPT !.listed = TRUE]
    /\ UNCHANGED <<mode, page, track, strip, reported, strayed, overtaken>>

HasPrev(c) == reader.listed /\ c > 1
HasNext(c) == reader.listed /\ c < LastChapter
-----------------------------------------------------------------------------
(* Mutant of Arm: the fallback is for real turns only. *)
ArmTurn(delta) == snap' = delta /\ timer' = (timer \/ delta # 0)

(* A turn is animated; a fallback will land it if the animation does not.   *)
Arm(delta) == snap' = delta /\ timer' = TRUE

(* request_turn: keys, taps and buttons; one more turn on a transition      *)
(* panel goes to the neighbouring chapter.                                  *)
RequestTurn(delta) ==
    LET c == reader.chapter
        lowest == IF HasPrev(c) THEN -1 ELSE 0
        highest == IF HasNext(c) THEN Count ELSE Count - 1
        target == pos + delta
    IN  /\ mode = "paged" /\ snap = Still /\ Count > 0
        /\ \/ /\ target > highest /\ pos = Count /\ HasNext(c)
              /\ Reroute(c + 1, 0, FALSE)
           \/ /\ target < lowest /\ pos = -1 /\ HasPrev(c)
              /\ Reroute(c - 1, 0, TRUE)
           \/ /\ target \in lowest .. highest
              /\ Arm(delta)
              /\ UNCHANGED <<reader, page, pos, strip, reported, strayed, overtaken>>
        /\ UNCHANGED mode

(* A drag that is not far enough, or to a dead end, springs back. *)
SpringBack ==
    /\ mode = "paged" /\ snap = Still /\ Count > 0
    /\ Arm(0)
    /\ UNCHANGED <<reader, mode, page, pos, strip, reported, strayed, overtaken>>

(* finish_snap and commit_pos; a transition panel leaves the page alone. *)
Land ==
    LET target == pos + snap
    IN  /\ snap' = Still
        /\ pos' = target
        /\ IF OnPage(target)
           THEN /\ page' = target
                /\ reported' = IF target = page THEN reported ELSE <<reader.chapter, target>>
                /\ strayed' = IF current = reader.chapter THEN "no" ELSE "late"
           ELSE UNCHANGED <<page, reported, strayed>>
        /\ UNCHANGED <<reader, mode, strip, overtaken>>

TransitionEnd == mode = "paged" /\ snap # Still /\ Land /\ UNCHANGED timer

(* The fallback: 400 ms later, in whatever mode. *)
TimerFires ==
    /\ timer
    /\ timer' = FALSE
    /\ IF snap # Still THEN Land
       ELSE UNCHANGED <<reader, mode, page, pos, snap, strip, reported, strayed, overtaken>>
-----------------------------------------------------------------------------
(* Where a chapter of the strip is, and the chapters too far from it.       *)
At(c) == Min({i \in 1 .. Len(segments) : segments[i] = c})

Distant(c) ==
    {segments[i] : i \in {j \in 1 .. Len(segments) : j < At(c) - StripReach \/ j > At(c) + StripReach}}

(* retain: the others, in their order. *)
Retained(drop) ==
    LET kept == {i \in 1 .. Len(segments) : segments[i] \notin drop}
        Nth(n) == CHOOSE i \in kept : Cardinality({j \in kept : j <= i}) = n
    IN  [n \in 1 .. Cardinality(kept) |-> segments[Nth(n)]]

End(side) == IF side = "next" THEN Last(segments) ELSE Head(segments)

(* The scroll handler, when another page comes under the midline: it is     *)
(* reported, and a change of chapters drops the distant ones.               *)
Scroll(c, n) ==
    /\ mode = "vertical" /\ Count > 0
    /\ c \in Range(segments)
    /\ n \in 0 .. PagesIn[c] - 1
    /\ <<c, n>> # <<current, page>>
    /\ current' = c /\ page' = n /\ reported' = <<c, n>>
    /\ strayed' = "strip"
    /\ segments' = IF c = current THEN segments
                   ELSE Retained(Distant(c))
    /\ overtaken' = (overtaken \/ (c # current /\ \E l \in loads : End(l.side) \in Distant(c)))
    /\ UNCHANGED <<reader, mode, track, counts, loads>>

Grown(side, c) == IF side = "next" THEN Append(segments, c) ELSE <<c>> \o segments

(* Mutant of Loading: nobody looks whether one is under way. *)
LoadingNever(side) == FALSE

Loading(side) == \E l \in loads : l.side = side /\ l.strip = reader.strip

(* load_next and load_prev, when the strip's end is near; a count that is   *)
(* known, or kept on the device, needs no request.                          *)
Extend(side) ==
    LET c == IF side = "next" THEN End(side) + 1 ELSE End(side) - 1
    IN  /\ mode = "vertical" /\ Count > 0 /\ segments # <<>>
        /\ reader.listed /\ c \in Listing
        /\ ~Loading(side)
        /\ \/ /\ segments' = Grown(side, c)
              /\ counts' = counts \cup {c}
              /\ UNCHANGED loads
           \/ /\ c \notin counts
              /\ loads' = loads \cup {[side |-> side, chapter |-> c, strip |-> reader.strip]}
              /\ UNCHANGED <<segments, counts>>
        /\ UNCHANGED <<reader, mode, page, track, current, reported, strayed, overtaken>>

(* Its answer; the strip that asked may be gone, the reader is not. *)
LoadDone(l) ==
    /\ l \in loads
    /\ loads' = loads \ {l}
    /\ \/ UNCHANGED <<segments, counts>>
       \/ /\ segments' = Grown(l.side, l.chapter)
          /\ counts' = counts \cup {l.chapter}
    /\ UNCHANGED <<reader, mode, page, track, current, reported, strayed, overtaken>>
-----------------------------------------------------------------------------
(* toggle_mode: a strip that wandered into another chapter is left by its   *)
(* route.                                                                   *)
ToggleMode ==
    \/ /\ mode = "paged" /\ mode' = "vertical"
       /\ IF Count > 0 THEN reader.strip < MaxToggles /\ NewStrip
          ELSE UNCHANGED <<reader, segments, counts>>
       /\ UNCHANGED <<page, track, current, loads, reported, strayed, overtaken>>
    \/ /\ mode = "vertical" /\ mode' = "paged"
       /\ current # reader.chapter
       /\ Reroute(current, page, FALSE)
    \/ /\ mode = "vertical" /\ mode' = "paged"
       /\ current = reader.chapter
       /\ overtaken' = (overtaken \/ loads # {})
       /\ UNCHANGED <<reader, page, track, strip, reported, strayed>>

(* The buttons that jump to a neighbouring chapter. *)
Jump(c) ==
    /\ \/ HasPrev(current) /\ c = current - 1
       \/ HasNext(current) /\ c = current + 1
    /\ Reroute(c, 0, FALSE)
    /\ UNCHANGED mode

ReaderNext ==
    \/ PagesArrive \/ PagesFail \/ DetailArrives
    \/ \E delta \in {-1, 1} : RequestTurn(delta)
    \/ SpringBack \/ TransitionEnd \/ TimerFires
    \/ \E c \in Listing : Jump(c) \/ (\E n \in 0 .. PagesIn[c] - 1 : Scroll(c, n))
    \/ \E side \in {"prev", "next"} : Extend(side)
    \/ \E l \in loads : LoadDone(l)
    \/ ToggleMode

ReaderSpec == ReaderInit /\ [][ReaderNext]_readerVars
-----------------------------------------------------------------------------
(* "Real pages mirror into page": what is on the screen is a page of the    *)
(* chapter and what was reported last, through turns, transition panels,    *)
(* late page counts and switches of modes; the track never lands on a dead  *)
(* end. Two things are left out. Once the strip has moved within the routed *)
(* chapter, the track shows where it was before until it lands again. And a *)
(* turn the fallback lands when the strip is in another chapter is reported *)
(* for the routed one.                                                      *)
ShownIsReported ==
    reader.pages = "known" =>
        /\ strayed # "late" => reported = <<current, page>> /\ page \in 0 .. PagesIn[current] - 1
        /\ mode = "paged" => current = reader.chapter
        /\ OnPage(pos) /\ strayed = "no" => page = pos
        /\ pos = -1 => reader.chapter > 1
        /\ pos = Count => reader.chapter < LastChapter

(* The strip is a run of consecutive chapters around the one being read,    *)
(* nothing skipped and nothing twice; unless a count was on its way when    *)
(* the end it was for was dropped, or when the strip was left.              *)
StripInOrder ==
    segments # <<>> /\ ~overtaken =>
        /\ \A i \in 1 .. Len(segments) - 1 : segments[i + 1] = segments[i] + 1
        /\ \E i \in 1 .. Len(segments) : segments[i] = current

(* No turn blocks the track for ever: an animation whose end is never heard *)
(* of is landed by the fallback.                                            *)
TurnsLand == []<>(snap = Still)
=============================================================================
