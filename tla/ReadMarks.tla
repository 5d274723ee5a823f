----------------------------- MODULE ReadMarks -----------------------------
(***************************************************************************)
(* Marking chapters read or unread: a mark is one request; if it fails it  *)
(* is kept in local storage, shown over what the server says, and replayed *)
(* by the background drain of each page (one account, one browser).        *)
(***************************************************************************)
EXTENDS Naturals, FiniteSets, Sequences

CONSTANTS
    Chapters,
    ReadingOrder,   \* position of each chapter in its publication
    Selections,     \* the sets of chapters the reader marks together
    Windows,        \* pages of the application open in the browser
    MarkCapacity,   \* ids in the largest request body the server takes
    MaxMarks,       \* bound: marks made
    MaxMarkFaults   \* bound: lost or late requests, closed pages, deletions

ASSUME MarksAssumption ==
    /\ Selections \subseteq SUBSET Chapters
    /\ MaxMarks \in Nat /\ MaxMarkFaults \in Nat

Value == {"read", "unread"}
MarkNumbers == 1 .. MaxMarks

VARIABLES
    readUnits,   \* server: read_units of the account
    listed,      \* server: chapters that still exist
    queue,       \* local storage: the value waiting for each chapter
    mark,        \* history: page, chapters and value of each mark
    reply,       \* what the page knows of each mark's request
    flush,       \* flush_marks of each page, with the queue as it read it
    wire,        \* requests the server has not served
    wish,        \* history: how the reader last marked each chapter
    crossed,     \* history: chapters with two values on their way at once
    markFaults

markServer == <<readUnits, listed>>
markVars == <<readUnits, listed, queue, mark, reply, flush, wire, wish,
              crossed, markFaults>>

(* A request of mark k, or of a page's flush (k = 0); stale when nobody     *)
(* waits for its answer any longer.                                         *)
MarkRequest == [k : 0 .. MaxMarks, window : Windows, ids : SUBSET Chapters,
                as : Value, stale : BOOLEAN]
Flush == [at : {"rest", "pick", "await", "ok", "413", "failed"}, as : Value,
          seen : [Chapters -> Value \cup {"none"}], ids : SUBSET Chapters]

MarksTypeOK ==
    /\ readUnits \subseteq listed /\ listed \subseteq Chapters
    /\ queue \in [Chapters -> Value \cup {"none"}]
    /\ mark \in Seq([window : Windows, ids : SUBSET Chapters, as : Value])
    /\ reply \in [MarkNumbers -> {"unmade", "waiting", "failed", "over"}]
    /\ flush \in [Windows -> Flush]
    /\ wire \subseteq MarkRequest
    /\ wish \in [Chapters -> Value]
    /\ crossed \subseteq Chapters
    /\ markFaults \in 0 .. MaxMarkFaults

Nothing == [c \in Chapters |-> "none"]
AtRest == [at |-> "rest", as |-> "read", seen |-> Nothing, ids |-> {}]

MarksInit ==
    /\ readUnits = {}
    /\ listed = Chapters
    /\ queue = Nothing
    /\ mark = <<>>
    /\ reply = [k \in MarkNumbers |-> "unmade"]
    /\ flush = [w \in Windows |-> AtRest]
    /\ wire = {}
    /\ wish = [c \in Chapters |-> "unread"]
    /\ crossed = {}
    /\ markFaults = 0

MarkFault ==
    /\ markFaults < MaxMarkFaults
    /\ markFaults' = markFaults + 1
-----------------------------------------------------------------------------
(* Who may still bring another value than v for chapter c to the server. *)
Unanswered(c) == {k \in 1 .. Len(mark) : c \in mark[k].ids /\ reply[k] # "over"}
OnWire(c, v) == \E r \in wire : c \in r.ids /\ r.as # v
InFlush(c, v, pages) ==
    \E w \in pages : flush[w].at # "rest" /\ flush[w].seen[c] \notin {"none", v}
InQueue(c, v) == queue[c] \notin {"none", v}

(* mark_ids: one request per action of the reader; nothing waits for it.    *)
MakeMark(w, ids, v) ==
    /\ Len(mark) < MaxMarks
    /\ mark' = Append(mark, [window |-> w, ids |-> ids, as |-> v])
    /\ reply' = [reply EXCEPT ![Len(mark) + 1] = "waiting"]
    /\ wire' = wire \cup {[k |-> Len(mark) + 1, window |-> w, ids |-> ids, as |-> v,
                           stale |-> FALSE]}
    /\ wish' = [c \in Chapters |-> IF c \in ids THEN v ELSE wish[c]]
    /\ crossed' = crossed \cup
          {c \in ids : \/ \E k \in Unanswered(c) : mark[k].as # v
                      \/ \E r \in wire : r.k # 0 /\ c \in r.ids /\ r.as # v}
    /\ UNCHANGED <<markServer, queue, flush, markFaults>>

(* The endpoint: marking read inserts all rows or, when one chapter is not  *)
(* there any more, none; marking unread deletes what there is.              *)
Applied(r) == r.as = "unread" \/ r.ids \subseteq listed
Marked(r) == IF r.as = "read" THEN readUnits \cup r.ids ELSE readUnits \ r.ids

Answered(r, result) ==
    /\ reply' = IF r.k = 0 \/ r.stale THEN reply
                ELSE [reply EXCEPT ![r.k] = IF result = "ok" THEN "over" ELSE result]
    /\ flush' = IF r.k = 0 /\ ~r.stale THEN [flush EXCEPT ![r.window].at = result] ELSE flush

Serve(r) ==
    /\ r \in wire
    /\ wire' = wire \ {r}
    /\ \/ /\ Cardinality(r.ids) <= MarkCapacity
          /\ Applied(r)
          /\ readUnits' = Marked(r)
          /\ Answered(r, "ok")
          /\ crossed' = crossed \cup
                {c \in r.ids : r.k # 0 /\ (\/ InQueue(c, r.as)
                                           \/ InFlush(c, r.as, Windows)
                                           \/ OnWire(c, r.as))}
       \/ /\ Cardinality(r.ids) <= MarkCapacity
          /\ ~Applied(r)
          /\ Answered(r, "failed")
          /\ UNCHANGED <<readUnits, crossed>>
       \/ /\ Cardinality(r.ids) > MarkCapacity
          /\ Answered(r, IF r.k = 0 THEN "413" ELSE "failed")
          /\ UNCHANGED <<readUnits, crossed>>
    /\ UNCHANGED <<listed, queue, mark, wish, markFaults>>

(* The deadline passes, or the connection breaks: the request is lost or    *)
(* comes late.                                                              *)
MarkTimeout(r) ==
    /\ r \in wire
    /\ ~r.stale
    /\ MarkFault
    /\ \/ wire' = wire \ {r}
       \/ wire' = (wire \ {r}) \cup {[r EXCEPT !.stale = TRUE]}
    /\ Answered(r, "failed")
    /\ UNCHANGED <<markServer, queue, mark, wish, crossed>>

(* Mutant of Queued: the first value stays. *)
QueuedOnce(k) == [c \in Chapters |->
    IF c \in mark[k].ids /\ queue[c] = "none" THEN mark[k].as ELSE queue[c]]

(* queue_marks: last write wins. *)
Queued(k) == [c \in Chapters |-> IF c \in mark[k].ids THEN mark[k].as ELSE queue[c]]

MarkFailed(k) ==
    /\ reply[k] = "failed"
    /\ reply' = [reply EXCEPT ![k] = "over"]
    /\ queue' = Queued(k)
    /\ UNCHANGED <<markServer, mark, flush, wire, wish, crossed, markFaults>>
-----------------------------------------------------------------------------
StartFlush(w) ==
    /\ flush[w].at = "rest"
    /\ queue # Nothing
    /\ flush' = [flush EXCEPT ![w] = [AtRest EXCEPT !.at = "pick", !.seen = queue]]
    /\ UNCHANGED <<markServer, queue, mark, reply, wire, wish, crossed, markFaults>>

(* The read marks are done: the unread ones; these are done: the end. *)
NextValue(f) == IF f.as = "read" THEN [f EXCEPT !.at = "pick", !.as = "unread", !.ids = {}]
                ELSE AtRest

(* The marks of one value, or after a 413 the first half of them. *)
SendMarks(w) ==
    LET f == flush[w]
        all == {c \in Chapters : f.seen[c] = f.as}
        Post(ids) ==
            /\ flush' = [flush EXCEPT ![w].at = "await", ![w].ids = ids]
            /\ wire' = wire \cup {[k |-> 0, window |-> w, ids |-> ids, as |-> f.as,
                                   stale |-> FALSE]}
            /\ crossed' = crossed \cup
                  {c \in ids : OnWire(c, f.as) \/ InFlush(c, f.as, Windows \ {w})}
    IN  /\ \/ /\ f.at = "pick"
              /\ all = {}
              /\ flush' = [flush EXCEPT ![w] = NextValue(f)]
              /\ UNCHANGED <<wire, crossed>>
           \/ f.at = "pick" /\ all # {} /\ Post(all)
           \/ /\ f.at = "413"
              /\ Cardinality(f.ids) > 1
              /\ \E ids \in SUBSET f.ids :
                    Cardinality(ids) = Cardinality(f.ids) \div 2 /\ Post(ids)
        /\ UNCHANGED <<markServer, queue, mark, reply, wish, markFaults>>

(* Mutant of Acknowledged: nothing is. *)
AcknowledgedNever(f) == queue

(* acknowledge_marks: a mark changed meanwhile stays. *)
Acknowledged(f) ==
    [c \in Chapters |-> IF c \in f.ids /\ queue[c] = f.as THEN "none" ELSE queue[c]]

AcknowledgeMarks(w) ==
    /\ flush[w].at = "ok"
    /\ queue' = Acknowledged(flush[w])
    /\ flush' = [flush EXCEPT ![w] = NextValue(flush[w])]
    /\ crossed' = crossed \cup
          {c \in flush[w].ids : /\ queue[c] = flush[w].as
                               /\ InFlush(c, flush[w].as, Windows \ {w})}
    /\ UNCHANGED <<markServer, mark, reply, wire, wish, markFaults>>

(* Any other error keeps the rest for a later flush. *)
FlushFailed(w) ==
    /\ \/ flush[w].at = "failed"
       \/ flush[w].at = "413" /\ Cardinality(flush[w].ids) <= 1
    /\ flush' = [flush EXCEPT ![w] = AtRest]
    /\ UNCHANGED <<markServer, queue, mark, reply, wire, wish, crossed, markFaults>>
-----------------------------------------------------------------------------
(* The page is closed or reloaded: its tasks die with it. *)
CloseWindow(w) ==
    LET mine == {k \in 1 .. Len(mark) : mark[k].window = w /\ reply[k] # "over"}
    IN  /\ MarkFault
        /\ reply' = [k \in MarkNumbers |-> IF k \in mine THEN "over" ELSE reply[k]]
        /\ flush' = [flush EXCEPT ![w] = AtRest]
        /\ wire' = {IF r.window = w THEN [r EXCEPT !.stale = TRUE] ELSE r : r \in wire}
        /\ crossed' = crossed \cup (UNION {mark[k].ids : k \in mine})
        /\ UNCHANGED <<markServer, queue, mark, wish>>

(* auto_mark_read: a position in chapter c marks the chapters before it,    *)
(* and c itself once its end is reached.                                    *)
AutoMarkRead(c, finished) ==
    LET ids == {d \in listed : \/ ReadingOrder[d] < ReadingOrder[c]
                               \/ d = c /\ finished}
    IN  /\ c \in listed
        /\ ~(ids \subseteq readUnits)
        /\ readUnits' = readUnits \cup ids
        /\ wish' = [d \in Chapters |->
                      IF d \in ids /\ queue[d] # "unread" THEN "read" ELSE wish[d]]
        /\ crossed' = crossed \cup
              {d \in ids : \/ OnWire(d, "read") \/ InFlush(d, "read", Windows)
                           \/ \E k \in Unanswered(d) : mark[k].as = "unread"}
        /\ UNCHANGED <<listed, queue, mark, reply, flush, wire, markFaults>>

(* The chapter goes (a sync, or its publication is deleted), by cascade.    *)
DeleteChapter(c) ==
    /\ MarkFault
    /\ c \in listed
    /\ listed' = listed \ {c}
    /\ readUnits' = readUnits \ {c}
    /\ UNCHANGED <<queue, mark, reply, flush, wire, wish, crossed>>

FlushStep(w) == StartFlush(w) \/ SendMarks(w) \/ AcknowledgeMarks(w) \/ FlushFailed(w)

MarksNext ==
    \/ \E w \in Windows : FlushStep(w) \/ CloseWindow(w)
    \/ \E w \in Windows, ids \in Selections, v \in Value : MakeMark(w, ids, v)
    \/ \E r \in wire : Serve(r) \/ MarkTimeout(r)
    \/ \E k \in 1 .. Len(mark) : MarkFailed(k)
    \/ \E c \in Chapters, finished \in BOOLEAN : AutoMarkRead(c, finished)
    \/ \E c \in Chapters : DeleteChapter(c)

MarksSpec == MarksInit /\ [][MarksNext]_markVars
-----------------------------------------------------------------------------
(* The overlay of the chapter list. *)
Shown(c) == IF queue[c] # "none" THEN queue[c]
            ELSE IF c \in readUnits THEN "read" ELSE "unread"

(* "Marking works (and shows) without a connection": once its request is    *)
(* over, a chapter shows as it was last marked, whether the mark was served,*)
(* queued, being replayed by several pages or served twice; unless two      *)
(* values for it were on their way at once (an online mark while another    *)
(* one is still queued, two pages replaying different values, one of which  *)
(* may take back from the queue what was marked again while the other still *)
(* has the value between), or its page was closed over it.                  *)
ShownAsMarked ==
    \A c \in listed \ crossed : Unanswered(c) = {} => Shown(c) = wish[c]

(* Every queued mark is replayed in the end, once faults and marks stop;    *)
(* unless a chapter is deleted (none comes back): one refused id fails its  *)
(* whole batch, and the flush never gets past it.                           *)
MarksDrain ==
    <>[](queue = Nothing \/ listed # Chapters)
=============================================================================
