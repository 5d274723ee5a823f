--------------------------- MODULE Reading_proofs ---------------------------
(***************************************************************************)
(* Theorems about reading: the comic reader (ComicReader), for any number  *)
(* of chapters of any lengths, and the marks of what was read (ReadMarks). *)
(*                                                                         *)
(* The report.  A reader waiting for its pages has not been turned or      *)
(* scrolled; where an animated turn will land was checked when it began,   *)
(* and the chapters and counts it was checked against do not change before *)
(* it lands; and the page, the report and the chapter under the reader     *)
(* move together, but for a landing with the strip elsewhere.              *)
(*                                                                         *)
(* The strip.  Its chapters are consecutive ones of the listing, each      *)
(* once: one is added at either end only where it follows, and what is     *)
(* dropped lies beyond the same distance from one chapter on both sides.   *)
(*                                                                         *)
(* The marks.  Of a chapter no two values of which were on their way at    *)
(* once, every request not yet over carries the value given last, or an    *)
(* older one while the last still waits for its answer or in the queue;    *)
(* once none does, the row has the value.                                  *)
(***************************************************************************)
EXTENDS ComicReader, ReadMarks, FiniteSetTheorems, SequenceTheorems, TLAPS

(* A request of a mark carries it, one of a flush is the one it waits for,  *)
(* and a flush sends what it saw.                                           *)
RequestsAreOfMarks ==
    /\ Len(mark) <= MaxMarks
    /\ \A r \in wire : r.k # 0 =>
          r.k \in 1 .. Len(mark) /\ mark[r.k].ids = r.ids /\ mark[r.k].as = r.as

RequestsAreOfFlushes ==
    \A r \in wire : r.k = 0 /\ ~r.stale =>
        /\ flush[r.window].at = "await"
        /\ flush[r.window].ids = r.ids /\ flush[r.window].as = r.as

FlushesSendWhatTheySaw ==
    \A w \in Windows : flush[w].at # "rest" =>
        \A c \in flush[w].ids : flush[w].seen[c] = flush[w].as

(* Of a chapter without two values on their way at once: marks whose        *)
(* requests are not over, or are still on the wire, have the value last     *)
(* given;                                                                   *)
OneValueMarked(c) ==
    /\ \A k \in Unanswered(c) : mark[k].as = wish[c]
    /\ \A r \in wire : r.k # 0 /\ c \in r.ids => r.as = wish[c]

(* an older one that a flush has seen or sent is gone under, since the last *)
(* one is still waiting for its answer or in the queue;                     *)
Pending(c) == Unanswered(c) # {} \/ queue[c] = wish[c]

OlderGoesUnder(c) ==
    /\ \A r \in wire : r.k = 0 /\ c \in r.ids /\ r.as # wish[c] => Pending(c)
    /\ \A w \in Windows : flush[w].at # "rest" /\ flush[w].seen[c] \notin {"none", wish[c]}
                          => Pending(c)

(* and what a flush is about to acknowledge the server has, and no other    *)
(* flush's request will take it back.                                       *)
Replayed(c) ==
    \A w \in Windows : flush[w].at \in {"await", "ok"} /\ c \in flush[w].ids =>
        /\ flush[w].at = "ok" => (c \in readUnits <=> flush[w].as = "read")
        /\ \A r \in wire : r.k = 0 /\ c \in r.ids => r.as = flush[w].as

Uncrossed(c) ==
    /\ OneValueMarked(c) /\ OlderGoesUnder(c) /\ Replayed(c)
    /\ Unanswered(c) = {} => Shown(c) = wish[c]

MarksIndInv ==
    /\ MarksTypeOK /\ RequestsAreOfMarks /\ RequestsAreOfFlushes /\ FlushesSendWhatTheySaw
    /\ \A c \in listed \ crossed : Uncrossed(c)
-----------------------------------------------------------------------------
LEMMA MarksInitIndInv == MarksInit => MarksIndInv
<1> SUFFICES ASSUME MarksInit PROVE MarksIndInv
  OBVIOUS
<1>1. Nothing \in [Chapters -> Value \cup {"none"}] /\ \A c \in Chapters : Nothing[c] = "none"
  BY DEF Nothing, Value
<1>2. AtRest \in Flush /\ AtRest.at = "rest" /\ AtRest.ids = {}
  <2> HIDE DEF Nothing
  <2>1. QED
    BY <1>1 DEF AtRest, Flush, Value
<1>3. MarksTypeOK
  <2> HIDE DEF AtRest, Nothing, Flush
  <2>1. QED
    BY <1>1, <1>2, MarksAssumption DEF MarksInit, MarksTypeOK, MarkNumbers, Value
<1>4. RequestsAreOfMarks /\ RequestsAreOfFlushes /\ FlushesSendWhatTheySaw
  BY <1>2, MarksAssumption
  DEF MarksInit, RequestsAreOfMarks, RequestsAreOfFlushes, FlushesSendWhatTheySaw
<1>5. ASSUME NEW c \in listed \ crossed PROVE Uncrossed(c)
  <2>1. Unanswered(c) = {} /\ wire = {} /\ \A w \in Windows : flush[w].at = "rest"
    BY <1>2 DEF MarksInit, Unanswered
  <2>2. Shown(c) = wish[c]
    BY <1>1 DEF MarksInit, Shown
  <2>3. QED
    BY <2>1, <2>2 DEF Uncrossed, OneValueMarked, OlderGoesUnder, Replayed
<1>6. QED
  BY <1>3, <1>4, <1>5 DEF MarksIndInv

LEMMA RequestTypes ==
    ASSUME MarksTypeOK, NEW r \in wire
    PROVE  /\ r \in MarkRequest /\ r.k \in 0 .. MaxMarks /\ r.window \in Windows
           /\ r.ids \subseteq Chapters /\ r.as \in Value
<1>1. r \in MarkRequest
  BY DEF MarksTypeOK
<1>2. QED
  BY <1>1 DEF MarkRequest

LEMMA FlushTypes ==
    ASSUME MarksTypeOK, NEW w \in Windows
    PROVE  /\ flush[w] \in Flush
           /\ flush[w].at \in {"rest", "pick", "await", "ok", "413", "failed"}
           /\ flush[w].as \in Value /\ flush[w].ids \subseteq Chapters
           /\ flush[w].seen \in [Chapters -> Value \cup {"none"}]
<1>1. flush[w] \in Flush
  BY DEF MarksTypeOK
<1>2. QED
  BY <1>1 DEF Flush

LEMMA MarkTypes ==
    ASSUME MarksTypeOK, NEW k \in 1 .. Len(mark)
    PROVE  mark[k].ids \subseteq Chapters /\ mark[k].as \in Value /\ mark[k].window \in Windows
<1> DEFINE M == [window : Windows, ids : SUBSET Chapters, as : Value]
<1>1. mark \in Seq(M)
  BY DEF MarksTypeOK
<1> HIDE DEF M
<1>2. mark[k] \in M
  BY <1>1, ElementOfSeq
<1>3. QED
  BY <1>2 DEF M

(* A chapter the step does not show, queue or read otherwise: no mark of it *)
(* is over by the step, none on the wire is new, and a flush that begins    *)
(* has seen the queue.                                                      *)
LEMMA QuietReadKeeps ==
    ASSUME MarksIndInv, NEW c \in listed \ crossed, UNCHANGED <<mark, queue, wish>>,
           c \in readUnits' <=> c \in readUnits,
           \A k \in 1 .. Len(mark) : c \in mark[k].ids =>
               /\ reply[k] # "over" => reply'[k] # "over"
               /\ reply'[k] # "over" => reply[k] # "over" \/ mark[k].as = wish[c],
           \A r \in wire' : \E q \in wire : q.k = r.k /\ q.ids = r.ids /\ q.as = r.as,
           \A w \in Windows : flush'[w].at # "rest" =>
               \/ flush[w].at # "rest" /\ flush'[w].seen = flush[w].seen
               \/ flush'[w].seen = queue,
           \A w \in Windows : flush'[w].at \in {"await", "ok"} => flush'[w] = flush[w]
    PROVE  Uncrossed(c)'
<1>1. Uncrossed(c)
  BY DEF MarksIndInv
<1>2. Unanswered(c) \subseteq Unanswered(c)'
  BY DEF Unanswered
<1>3. \A k \in Unanswered(c)' : mark[k].as = wish[c]
  BY <1>1 DEF Unanswered, Uncrossed, OneValueMarked
<1>4. OneValueMarked(c)'
  BY <1>1, <1>3 DEF Uncrossed, OneValueMarked
<1>5. Pending(c) => Pending(c)'
  BY <1>2 DEF Pending
<1>6. queue[c] \notin {"none", wish[c]} => Pending(c)
  BY <1>1 DEF Uncrossed, Shown, Pending
<1>7. OlderGoesUnder(c)'
  <2>1. \A r \in wire' : r.k = 0 /\ c \in r.ids /\ r.as # wish[c] => Pending(c)
    BY <1>1 DEF Uncrossed, OlderGoesUnder
  <2>2. \A w \in Windows : flush'[w].at # "rest" /\ flush'[w].seen[c] \notin {"none", wish[c]}
                          => Pending(c)
    BY <1>1, <1>6 DEF Uncrossed, OlderGoesUnder
  <2>3. QED
    BY <1>5, <2>1, <2>2 DEF OlderGoesUnder
<1>8. Replayed(c)'
  BY <1>1 DEF Uncrossed, Replayed
<1>9. Unanswered(c)' = {} => (Shown(c) = wish[c])'
  <2>1. Shown(c)' = Shown(c)
    BY DEF Shown
  <2>2. QED
    BY <1>1, <1>2, <2>1 DEF Uncrossed
<1>10. QED
  BY <1>4, <1>7, <1>8, <1>9 DEF Uncrossed

LEMMA MakeMarkKeeps ==
    ASSUME MarksIndInv, NEW w \in Windows, NEW ids \in Selections, NEW v \in Value,
           MakeMark(w, ids, v)
    PROVE  MarksIndInv'
<1> USE DEF MarksIndInv
<1> DEFINE n == Len(mark) + 1
           m == [window |-> w, ids |-> ids, as |-> v]
           r == [k |-> n, window |-> w, ids |-> ids, as |-> v, stale |-> FALSE]
<1>1. /\ ids \subseteq Chapters /\ Len(mark) \in Nat /\ n \in 1 .. MaxMarks
      /\ m \in [window : Windows, ids : SUBSET Chapters, as : Value] /\ r \in MarkRequest
  <2>1. ids \subseteq Chapters
    BY MarksAssumption
  <2>2. Len(mark) \in Nat /\ n \in 1 .. MaxMarks
    BY MarksAssumption DEF MakeMark, MarksTypeOK
  <2>3. r \in MarkRequest
    BY <2>1, <2>2, MarksAssumption DEF MarkRequest
  <2>4. QED
    BY <2>1, <2>2, <2>3
<1>2. /\ mark' = Append(mark, m) /\ reply' = [reply EXCEPT ![n] = "waiting"]
      /\ wire' = wire \cup {r} /\ UNCHANGED <<markServer, queue, flush, markFaults>>
      /\ wish' = [c \in Chapters |-> IF c \in ids THEN v ELSE wish[c]]
      /\ crossed \subseteq crossed' /\ crossed' \subseteq Chapters
  BY <1>1 DEF MakeMark, MarksTypeOK
<1>3. /\ Len(mark') = n /\ mark'[n] = m /\ \A k \in 1 .. Len(mark) : mark'[k] = mark[k]
      /\ mark' \in Seq([window : Windows, ids : SUBSET Chapters, as : Value])
  BY <1>1, <1>2 DEF MarksTypeOK
<1>4. /\ r.k = n /\ r.ids = ids /\ r.as = v /\ m.ids = ids /\ m.as = v
  OBVIOUS
<1> HIDE DEF m, r
<1>5. MarksTypeOK'
  <2>1. wish' \in [Chapters -> Value] /\ wire' \subseteq MarkRequest
    BY <1>1, <1>2 DEF MarksTypeOK
  <2>2. reply' \in [MarkNumbers -> {"unmade", "waiting", "failed", "over"}]
    BY <1>2 DEF MarksTypeOK
  <2>3. QED
    BY <1>2, <1>3, <2>1, <2>2 DEF MarksTypeOK, markServer
<1>6. RequestsAreOfMarks'
  <2>1. \A q \in wire : q.k # 0 => q.k \in 1 .. n /\ q.k # n
    BY <1>1 DEF RequestsAreOfMarks
  <2>2. QED
    BY <1>1, <1>2, <1>3, <1>4, <2>1 DEF RequestsAreOfMarks
<1>7. RequestsAreOfFlushes' /\ FlushesSendWhatTheySaw'
  BY <1>1, <1>2, <1>4 DEF RequestsAreOfFlushes, FlushesSendWhatTheySaw
<1>8. ASSUME NEW c \in listed' \ crossed' PROVE Uncrossed(c)'
  <2>1. c \in listed \ crossed /\ Uncrossed(c) /\ c \in Chapters
    BY <1>2, <1>8 DEF markServer, MarksTypeOK
  <2>2. Unanswered(c)' = IF c \in ids THEN Unanswered(c) \cup {n} ELSE Unanswered(c)
    <3>1. 1 .. Len(mark') = (1 .. Len(mark)) \cup {n}
      BY <1>1, <1>3
    <3>2. reply'[n] = "waiting" /\ \A k \in 1 .. Len(mark) : reply'[k] = reply[k]
      BY <1>1, <1>2 DEF MarksTypeOK, MarkNumbers
    <3>3. QED
      BY <1>1, <1>3, <1>4, <3>1, <3>2 DEF Unanswered
  <2>3. Unanswered(c) \subseteq 1 .. Len(mark)
    BY DEF Unanswered
  <2>4. CASE c \in ids
    <3>1. wish'[c] = v
      BY <2>1, <2>4, <1>2
    <3>2. /\ \A k \in Unanswered(c) : mark[k].as = v
          /\ \A q \in wire : q.k # 0 /\ c \in q.ids => q.as = v
      BY <2>4, <1>8 DEF MakeMark
    <3>3. OneValueMarked(c)'
      BY <1>1, <1>2, <1>3, <1>4, <2>2, <2>3, <2>4, <3>1, <3>2 DEF OneValueMarked
    <3>4. Pending(c)' /\ Unanswered(c)' # {}
      BY <2>2, <2>4 DEF Pending
    <3>5. OlderGoesUnder(c)'
      BY <3>4 DEF OlderGoesUnder
    <3>6. Replayed(c)'
      BY <1>1, <1>2, <1>4, <2>1 DEF Uncrossed, Replayed, markServer
    <3>7. QED
      BY <3>3, <3>4, <3>5, <3>6 DEF Uncrossed
  <2>5. CASE c \notin ids
    <3>1. wish'[c] = wish[c] /\ Unanswered(c)' = Unanswered(c)
      BY <2>1, <2>2, <2>5, <1>2
    <3>2. OneValueMarked(c)'
      BY <1>2, <1>3, <1>4, <2>1, <2>3, <2>5, <3>1 DEF Uncrossed, OneValueMarked
    <3>3. OlderGoesUnder(c)'
      BY <1>2, <1>4, <2>1, <2>5, <3>1 DEF Uncrossed, OlderGoesUnder, Pending
    <3>4. Replayed(c)'
      BY <1>2, <1>4, <2>1, <2>5 DEF Uncrossed, Replayed, markServer
    <3>5. QED
      BY <1>2, <2>1, <3>1, <3>2, <3>3, <3>4 DEF Uncrossed, Shown, markServer
  <2>6. QED
    BY <2>4, <2>5
<1>9. QED
  BY <1>5, <1>6, <1>7, <1>8

LEMMA TheOneAwaited ==
    ASSUME MarksTypeOK, RequestsAreOfFlushes, NEW q \in wire, NEW r \in wire,
           q.k = 0, r.k = 0, q.window = r.window, ~q.stale, ~r.stale
    PROVE  q = r
<1>1. q \in MarkRequest /\ r \in MarkRequest
  BY RequestTypes
<1>2. q.ids = r.ids /\ q.as = r.as
  BY DEF RequestsAreOfFlushes
<1>3. q.stale = FALSE /\ r.stale = FALSE
  BY <1>1 DEF MarkRequest
<1>4. /\ q = [k |-> q.k, window |-> q.window, ids |-> q.ids, as |-> q.as, stale |-> q.stale]
      /\ r = [k |-> r.k, window |-> r.window, ids |-> r.ids, as |-> r.as, stale |-> r.stale]
  BY <1>1 DEF MarkRequest
<1>5. QED
  BY <1>2, <1>3, <1>4

(* What an answer changes: the mark's reply, or the flush that awaits it.   *)
LEMMA AnswerKeeps ==
    ASSUME MarksIndInv, NEW r \in wire, NEW result \in {"ok", "failed", "413"},
           Answered(r, result), r.k # 0 => result # "413", mark' = mark,
           \A q \in wire' : q.k = 0 /\ ~q.stale => q \in wire \ {r},
           \A q \in wire' : \E p \in wire : p.k = q.k /\ p.ids = q.ids /\ p.as = q.as
    PROVE  /\ reply' \in [MarkNumbers -> {"unmade", "waiting", "failed", "over"}]
           /\ flush' \in [Windows -> Flush]
           /\ \A k \in MarkNumbers : reply'[k] = reply[k] \/
                 (/\ k = r.k /\ r.k # 0
                  /\ reply'[k] = IF result = "ok" THEN "over" ELSE "failed")
           /\ \A w \in Windows : /\ flush'[w].as = flush[w].as /\ flush'[w].ids = flush[w].ids
                                 /\ flush'[w].seen = flush[w].seen
           /\ \A w \in Windows : flush'[w].at = flush[w].at \/
                 (/\ w = r.window /\ r.k = 0 /\ ~r.stale
                  /\ flush[w].at = "await" /\ flush'[w].at = result
                  /\ flush[w].ids = r.ids /\ flush[w].as = r.as)
           /\ RequestsAreOfMarks' /\ RequestsAreOfFlushes' /\ FlushesSendWhatTheySaw'
<1> USE DEF MarksIndInv
<1>1. /\ r.k \in 0 .. MaxMarks /\ r.window \in Windows
      /\ reply \in [MarkNumbers -> {"unmade", "waiting", "failed", "over"}]
      /\ flush \in [Windows -> Flush]
  BY RequestTypes DEF MarksTypeOK
<1>2. /\ reply' \in [MarkNumbers -> {"unmade", "waiting", "failed", "over"}]
      /\ \A k \in MarkNumbers : reply'[k] = reply[k] \/
            (/\ k = r.k /\ r.k # 0 /\ reply'[k] = IF result = "ok" THEN "over" ELSE "failed")
  <2>1. CASE r.k = 0 \/ r.stale
    BY <1>1, <2>1 DEF Answered
  <2>2. CASE r.k # 0 /\ ~r.stale
    <3>1. reply' = [reply EXCEPT ![r.k] = IF result = "ok" THEN "over" ELSE result]
      BY <2>2 DEF Answered
    <3>2. r.k \in MarkNumbers /\ result \in {"ok", "failed"}
      BY <1>1, <2>2 DEF MarkNumbers
    <3>3. QED
      BY <1>1, <2>2, <3>1, <3>2
  <2>3. QED
    BY <2>1, <2>2
<1>3. /\ flush' \in [Windows -> Flush]
      /\ \A w \in Windows : /\ flush'[w].as = flush[w].as /\ flush'[w].ids = flush[w].ids
                            /\ flush'[w].seen = flush[w].seen
      /\ \A w \in Windows : flush'[w].at = flush[w].at \/
            (/\ w = r.window /\ r.k = 0 /\ ~r.stale /\ flush'[w].at = result)
  <2>1. CASE r.k # 0 \/ r.stale
    BY <1>1, <2>1 DEF Answered
  <2>2. CASE r.k = 0 /\ ~r.stale
    <3>1. flush' = [flush EXCEPT ![r.window] = [flush[r.window] EXCEPT !.at = result]]
      BY <2>2 DEF Answered
    <3>2. flush[r.window] \in Flush
      BY <1>1
    <3> DEFINE f == [flush[r.window] EXCEPT !.at = result]
    <3>3. f \in Flush /\ f.at = result /\ f.as = flush[r.window].as
          /\ f.ids = flush[r.window].ids /\ f.seen = flush[r.window].seen
      BY <3>2 DEF Flush
    <3> HIDE DEF f
    <3>4. QED
      BY <1>1, <2>2, <3>1, <3>3 DEF f
  <2>3. QED
    BY <2>1, <2>2
<1>4. r.k = 0 /\ ~r.stale => /\ flush[r.window].at = "await"
                            /\ flush[r.window].ids = r.ids /\ flush[r.window].as = r.as
  BY DEF RequestsAreOfFlushes
<1>5. RequestsAreOfMarks'
  BY DEF RequestsAreOfMarks
<1>6. RequestsAreOfFlushes'
  <2> SUFFICES ASSUME NEW q \in wire', q.k = 0, ~q.stale
               PROVE  /\ flush'[q.window].at = "await"
                      /\ flush'[q.window].ids = q.ids /\ flush'[q.window].as = q.as
    BY DEF RequestsAreOfFlushes
  <2>1. q \in wire /\ q # r /\ q.window \in Windows
    BY RequestTypes
  <2>2. ~(q.window = r.window /\ r.k = 0 /\ ~r.stale)
    BY <2>1, TheOneAwaited
  <2>3. QED
    BY <1>3, <2>1, <2>2 DEF RequestsAreOfFlushes
<1>7. FlushesSendWhatTheySaw'
  BY <1>3, <1>4 DEF FlushesSendWhatTheySaw
<1>8. QED
  BY <1>2, <1>3, <1>4, <1>5, <1>6, <1>7

LEMMA QuietAnswerKeeps ==
    ASSUME MarksIndInv, NEW r \in wire, NEW result \in {"failed", "413"},
           Answered(r, result), r.k # 0 => result # "413",
           UNCHANGED <<markServer, queue, mark, wish, crossed>>,
           markFaults' \in 0 .. MaxMarkFaults,
           wire' \subseteq (wire \ {r}) \cup {[r EXCEPT !.stale = TRUE]}
    PROVE  MarksIndInv'
<1> USE DEF MarksIndInv
<1> DEFINE late == [r EXCEPT !.stale = TRUE]
<1>1. r \in MarkRequest /\ r.k \in 0 .. MaxMarks
  BY RequestTypes
<1>2. late \in MarkRequest /\ late.k = r.k /\ late.ids = r.ids /\ late.as = r.as /\ late.stale
  BY <1>1 DEF MarkRequest
<1> HIDE DEF late
<1>3. \A q \in wire' : q \in wire \/ q = late
  BY DEF late
<1>4. /\ \A q \in wire' : q.k = 0 /\ ~q.stale => q \in wire \ {r}
      /\ \A q \in wire' : \E p \in wire : p.k = q.k /\ p.ids = q.ids /\ p.as = q.as
  BY <1>2, <1>3 DEF late
<1>5. /\ reply' \in [MarkNumbers -> {"unmade", "waiting", "failed", "over"}]
      /\ flush' \in [Windows -> Flush]
      /\ \A k \in MarkNumbers : reply'[k] = reply[k] \/
            (/\ k = r.k /\ r.k # 0
             /\ reply'[k] = IF result = "ok" THEN "over" ELSE "failed")
      /\ \A w \in Windows : /\ flush'[w].as = flush[w].as /\ flush'[w].ids = flush[w].ids
                            /\ flush'[w].seen = flush[w].seen
      /\ \A w \in Windows : flush'[w].at = flush[w].at \/
            (/\ w = r.window /\ r.k = 0 /\ ~r.stale
             /\ flush[w].at = "await" /\ flush'[w].at = result
             /\ flush[w].ids = r.ids /\ flush[w].as = r.as)
      /\ RequestsAreOfMarks' /\ RequestsAreOfFlushes' /\ FlushesSendWhatTheySaw'
  BY <1>4, AnswerKeeps
<1>6. MarksTypeOK'
  BY <1>2, <1>3, <1>5 DEF MarksTypeOK, markServer
<1>7. ASSUME NEW c \in listed' \ crossed' PROVE Uncrossed(c)'
  <2>1. c \in listed \ crossed /\ Uncrossed(c)
    BY <1>7 DEF markServer
  <2>2. \A k \in 1 .. Len(mark) : c \in mark[k].ids =>
             /\ reply[k] # "over" => reply'[k] # "over"
             /\ reply'[k] # "over" => reply[k] # "over" \/ mark[k].as = wish[c]
    <3>1. 1 .. Len(mark) \subseteq MarkNumbers
      BY MarksAssumption DEF MarksTypeOK, RequestsAreOfMarks, MarkNumbers
    <3>2. r.k # 0 => mark[r.k].ids = r.ids /\ mark[r.k].as = r.as
      BY DEF RequestsAreOfMarks
    <3>3. r.k # 0 /\ c \in r.ids => r.as = wish[c]
      BY <2>1 DEF Uncrossed, OneValueMarked
    <3>4. QED
      BY <1>5, <3>1, <3>2, <3>3
  <2>3. \A w \in Windows : flush'[w].at # "rest" =>
             \/ flush[w].at # "rest" /\ flush'[w].seen = flush[w].seen
             \/ flush'[w].seen = queue
    BY <1>5
  <2>4. \A w \in Windows : flush'[w].at \in {"await", "ok"} => flush'[w] = flush[w]
    <3> SUFFICES ASSUME NEW w \in Windows, flush'[w].at \in {"await", "ok"}
                 PROVE  flush'[w] = flush[w]
      OBVIOUS
    <3>1. flush[w] \in Flush /\ flush'[w] \in Flush
      BY <1>5, FlushTypes
    <3>2. flush'[w].at = flush[w].at
      BY <1>5
    <3>3. /\ flush[w] = [at |-> flush[w].at, as |-> flush[w].as, seen |-> flush[w].seen,
                         ids |-> flush[w].ids]
          /\ flush'[w] = [at |-> flush'[w].at, as |-> flush'[w].as, seen |-> flush'[w].seen,
                          ids |-> flush'[w].ids]
      BY <3>1 DEF Flush
    <3>4. QED
      BY <1>5, <3>2, <3>3
  <2>5. UNCHANGED <<mark, queue, wish>> /\ (c \in readUnits' <=> c \in readUnits)
    BY DEF markServer
  <2>6. QED
    BY <1>4, <2>1, <2>2, <2>3, <2>4, <2>5, QuietReadKeeps
<1>8. QED
  BY <1>5, <1>6, <1>7

LEMMA MarkTimeoutKeeps ==
    ASSUME MarksIndInv, NEW r \in wire, MarkTimeout(r)
    PROVE  MarksIndInv'
<1>1. /\ wire' \subseteq (wire \ {r}) \cup {[r EXCEPT !.stale = TRUE]}
      /\ Answered(r, "failed") /\ UNCHANGED <<markServer, queue, mark, wish, crossed>>
  BY DEF MarkTimeout
<1>2. markFaults' \in 0 .. MaxMarkFaults
  BY MarksAssumption DEF MarkTimeout, MarkFault, MarksIndInv, MarksTypeOK
<1>3. QED
  BY <1>1, <1>2, QuietAnswerKeeps

LEMMA ServeKeeps ==
    ASSUME MarksIndInv, NEW r \in wire, Serve(r)
    PROVE  MarksIndInv'
<1> USE DEF MarksIndInv
<1>1. /\ wire' = wire \ {r} /\ UNCHANGED <<listed, queue, mark, wish, markFaults>>
      /\ r.ids \subseteq Chapters /\ r.as \in Value /\ r.k \in 0 .. MaxMarks
  BY RequestTypes DEF Serve
<1>2. markFaults' \in 0 .. MaxMarkFaults
  BY <1>1 DEF MarksTypeOK
<1>3. CASE \E result \in {"failed", "413"} :
               /\ Answered(r, result) /\ (r.k # 0 => result # "413")
               /\ UNCHANGED <<readUnits, crossed>>
  BY <1>1, <1>2, <1>3, QuietAnswerKeeps DEF markServer
<1>4. CASE /\ Applied(r) /\ readUnits' = Marked(r) /\ Answered(r, "ok")
           /\ crossed' = crossed \cup
                 {c \in r.ids : r.k # 0 /\ (\/ InQueue(c, r.as)
                                            \/ InFlush(c, r.as, Windows)
                                            \/ OnWire(c, r.as))}
  <2>1. /\ \A q \in wire' : q.k = 0 /\ ~q.stale => q \in wire \ {r}
        /\ \A q \in wire' : \E p \in wire : p.k = q.k /\ p.ids = q.ids /\ p.as = q.as
    BY <1>1
  <2>2. /\ reply' \in [MarkNumbers -> {"unmade", "waiting", "failed", "over"}]
        /\ flush' \in [Windows -> Flush]
        /\ \A k \in MarkNumbers : reply'[k] = reply[k] \/
              (/\ k = r.k /\ r.k # 0
               /\ reply'[k] = IF "ok" = "ok" THEN "over" ELSE "failed")
        /\ \A w \in Windows : /\ flush'[w].as = flush[w].as /\ flush'[w].ids = flush[w].ids
                              /\ flush'[w].seen = flush[w].seen
        /\ \A w \in Windows : flush'[w].at = flush[w].at \/
              (/\ w = r.window /\ r.k = 0 /\ ~r.stale
               /\ flush[w].at = "await" /\ flush'[w].at = "ok"
               /\ flush[w].ids = r.ids /\ flush[w].as = r.as)
        /\ RequestsAreOfMarks' /\ RequestsAreOfFlushes' /\ FlushesSendWhatTheySaw'
    BY <1>1, <1>4, <2>1, AnswerKeeps
  <2>3. MarksTypeOK'
    <3>1. readUnits' \subseteq listed /\ listed \subseteq Chapters /\ crossed' \subseteq Chapters
      BY <1>1, <1>4 DEF MarksTypeOK, Applied, Marked, Value
    <3>2. QED
      BY <1>1, <2>2, <3>1 DEF MarksTypeOK
  <2>4. ASSUME NEW c \in listed' \ crossed' PROVE Uncrossed(c)'
    <3>1. c \in listed \ crossed /\ Uncrossed(c)
      BY <1>1, <1>4, <2>4
    <3>2. 1 .. Len(mark) \subseteq MarkNumbers
      BY MarksAssumption DEF MarksTypeOK, RequestsAreOfMarks, MarkNumbers
    <3>3. Unanswered(c)' \subseteq Unanswered(c)
          /\ (c \notin r.ids \/ r.k = 0 => Unanswered(c)' = Unanswered(c))
      <4>1. r.k # 0 => mark[r.k].ids = r.ids
        BY DEF RequestsAreOfMarks
      <4>2. QED
        BY <1>1, <2>2, <3>2, <4>1 DEF Unanswered
    <3>4. OneValueMarked(c)'
      BY <1>1, <3>1, <3>3 DEF Uncrossed, OneValueMarked
    <3>5. CASE c \notin r.ids
      <4>1. c \in readUnits' <=> c \in readUnits
        BY <1>4, <3>5 DEF Marked
      <4>2. OlderGoesUnder(c)'
        BY <1>1, <2>2, <3>1, <3>3, <3>5 DEF Uncrossed, OlderGoesUnder, Pending
      <4>3. Replayed(c)'
        BY <1>1, <2>2, <3>1, <3>5, <4>1 DEF Uncrossed, Replayed
      <4>4. QED
        BY <1>1, <3>1, <3>3, <3>4, <3>5, <4>1, <4>2, <4>3 DEF Uncrossed, Shown
    <3>6. CASE c \in r.ids
      <4>1. c \in readUnits' <=> r.as = "read"
        BY <1>4, <3>6 DEF Marked
      <4>2. CASE r.k # 0
        <5>1. /\ r.as = wish[c]
              /\ ~InQueue(c, r.as) /\ ~InFlush(c, r.as, Windows) /\ ~OnWire(c, r.as)
          BY <1>4, <2>4, <3>1, <3>6, <4>2 DEF Uncrossed, OneValueMarked
        <5>2. Shown(c)' = wish[c]
          BY <1>1, <4>1, <5>1 DEF Shown, InQueue, Value
        <5>3. OlderGoesUnder(c)'
          BY <1>1, <2>2, <4>2, <5>1 DEF OlderGoesUnder, InFlush, OnWire
        <5>4. Replayed(c)'
          <6>1. \A w \in Windows : flush'[w].at = flush[w].at
            BY <2>2, <4>2
          <6>2. \A w \in Windows : flush[w].at # "rest" /\ c \in flush[w].ids => flush[w].as = r.as
            BY <5>1, FlushTypes DEF InFlush, FlushesSendWhatTheySaw, Value
          <6>3. QED
            BY <1>1, <2>2, <3>1, <4>1, <5>1, <6>1, <6>2 DEF Replayed, Uncrossed
        <5>5. QED
          BY <1>1, <3>4, <5>2, <5>3, <5>4 DEF Uncrossed
      <4>3. CASE r.k = 0
        <5>1. Unanswered(c)' = Unanswered(c) /\ (Pending(c) => Pending(c)')
          BY <1>1, <3>3, <4>3 DEF Pending
        <5>2. OlderGoesUnder(c)'
          BY <1>1, <2>2, <3>1, <5>1 DEF Uncrossed, OlderGoesUnder
        <5>3. Replayed(c)'
          <6>1. \A w \in Windows : flush[w].at \in {"await", "ok"} /\ c \in flush[w].ids
                                     => flush[w].as = r.as
            BY <3>1, <3>6, <4>3 DEF Uncrossed, Replayed
          <6>2. QED
            BY <1>1, <2>2, <3>1, <4>1, <6>1 DEF Uncrossed, Replayed
        <5>4. Unanswered(c)' = {} => (Shown(c) = wish[c])'
          <6>1. CASE r.as = wish[c]
            BY <1>1, <3>1, <4>1, <5>1, <6>1 DEF Uncrossed, Shown, Value
          <6>2. CASE r.as # wish[c]
            <7>1. Pending(c)
              BY <3>1, <3>6, <4>3, <6>2 DEF Uncrossed, OlderGoesUnder
            <7>2. wish[c] # "none"
              BY <3>1 DEF MarksTypeOK, Value
            <7>3. QED
              BY <1>1, <5>1, <7>1, <7>2 DEF Shown, Pending
          <6>3. QED
            BY <6>1, <6>2
        <5>5. QED
          BY <3>4, <5>2, <5>3, <5>4 DEF Uncrossed
      <4>4. QED
        BY <4>2, <4>3
    <3>7. QED
      BY <3>5, <3>6
  <2>5. QED
    BY <2>2, <2>3, <2>4
<1>5. QED
  BY <1>3, <1>4 DEF Serve

LEMMA MarkFailedKeeps ==
    ASSUME MarksIndInv, NEW k \in 1 .. Len(mark), MarkFailed(k)
    PROVE  MarksIndInv'
<1> USE DEF MarksIndInv
<1>1. /\ reply[k] = "failed" /\ reply' = [reply EXCEPT ![k] = "over"]
      /\ queue' = [c \in Chapters |-> IF c \in mark[k].ids THEN mark[k].as ELSE queue[c]]
      /\ UNCHANGED <<readUnits, listed, mark, flush, wire, wish, crossed, markFaults>>
  BY DEF MarkFailed, Queued, markServer
<1>2. mark[k].ids \subseteq Chapters /\ mark[k].as \in Value /\ 1 .. Len(mark) \subseteq MarkNumbers
  BY MarkTypes, MarksAssumption DEF MarksTypeOK, RequestsAreOfMarks, MarkNumbers
<1>3. MarksTypeOK'
  BY <1>1, <1>2 DEF MarksTypeOK
<1>4. RequestsAreOfMarks' /\ RequestsAreOfFlushes' /\ FlushesSendWhatTheySaw'
  BY <1>1 DEF RequestsAreOfMarks, RequestsAreOfFlushes, FlushesSendWhatTheySaw
<1>5. ASSUME NEW c \in listed' \ crossed' PROVE Uncrossed(c)'
  <2>1. c \in listed \ crossed /\ Uncrossed(c) /\ c \in Chapters
    BY <1>1, <1>5 DEF MarksTypeOK
  <2>2. Unanswered(c)' = Unanswered(c) \ {k}
    BY <1>1, <1>2 DEF Unanswered, MarksTypeOK
  <2>3. c \in mark[k].ids => k \in Unanswered(c) /\ mark[k].as = wish[c]
    BY <1>1, <2>1 DEF Unanswered, Uncrossed, OneValueMarked
  <2>4. queue'[c] = IF c \in mark[k].ids THEN wish[c] ELSE queue[c]
    BY <1>1, <2>1, <2>3
  <2>5. c \notin mark[k].ids => Unanswered(c)' = Unanswered(c)
    BY <2>2 DEF Unanswered
  <2>6. Pending(c) => Pending(c)'
    BY <1>1, <2>4, <2>5 DEF Pending
  <2>7. OneValueMarked(c)'
    BY <1>1, <2>1, <2>2 DEF Uncrossed, OneValueMarked
  <2>8. OlderGoesUnder(c)' /\ Replayed(c)'
    BY <1>1, <2>1, <2>6 DEF Uncrossed, OlderGoesUnder, Replayed
  <2>9. Unanswered(c)' = {} => (Shown(c) = wish[c])'
    BY <1>1, <2>1, <2>4, <2>5 DEF Uncrossed, Shown, MarksTypeOK, Value
  <2>10. QED
    BY <2>7, <2>8, <2>9 DEF Uncrossed
<1>6. QED
  BY <1>3, <1>4, <1>5

(* A flush that awaits no answer begins, ends or goes to the next value.    *)
LEMMA FlushMoves ==
    ASSUME MarksTypeOK, RequestsAreOfMarks, RequestsAreOfFlushes, FlushesSendWhatTheySaw,
           NEW w \in Windows, NEW g \in Flush, flush[w].at # "await",
           flush' = [flush EXCEPT ![w] = g], g.ids = {}, UNCHANGED <<mark, wire>>
    PROVE  /\ flush' \in [Windows -> Flush]
           /\ \A u \in Windows : flush'[u] = IF u = w THEN g ELSE flush[u]
           /\ RequestsAreOfMarks' /\ RequestsAreOfFlushes' /\ FlushesSendWhatTheySaw'
<1>1. /\ flush' \in [Windows -> Flush]
      /\ \A u \in Windows : flush'[u] = IF u = w THEN g ELSE flush[u]
  BY DEF MarksTypeOK
<1>2. RequestsAreOfMarks'
  BY DEF RequestsAreOfMarks
<1>3. RequestsAreOfFlushes'
  BY <1>1, RequestTypes DEF RequestsAreOfFlushes
<1>4. FlushesSendWhatTheySaw'
  BY <1>1 DEF FlushesSendWhatTheySaw
<1>5. QED
  BY <1>1, <1>2, <1>3, <1>4

LEMMA RestTypes ==
    /\ AtRest \in Flush /\ AtRest.at = "rest" /\ AtRest.ids = {}
    /\ \A f \in Flush :
          /\ NextValue(f) \in Flush /\ NextValue(f).ids = {}
          /\ NextValue(f).at \in {"rest", "pick"}
          /\ NextValue(f).at # "rest" => NextValue(f).seen = f.seen
<1>1. Nothing \in [Chapters -> Value \cup {"none"}]
  BY DEF Nothing, Value
<1>2. AtRest \in Flush /\ AtRest.at = "rest" /\ AtRest.ids = {}
  <2> HIDE DEF Nothing
  <2>1. QED
    BY <1>1 DEF AtRest, Flush, Value
<1>3. ASSUME NEW f \in Flush
      PROVE  /\ NextValue(f) \in Flush /\ NextValue(f).ids = {}
             /\ NextValue(f).at \in {"rest", "pick"}
             /\ NextValue(f).at # "rest" => NextValue(f).seen = f.seen
  <2> DEFINE g == [f EXCEPT !.at = "pick", !.as = "unread", !.ids = {}]
  <2>1. g \in Flush /\ g.ids = {} /\ g.at = "pick" /\ g.seen = f.seen
    BY DEF Flush, Value
  <2>2. NextValue(f) = g \/ NextValue(f) = AtRest
    BY DEF NextValue
  <2> HIDE DEF g
  <2>3. QED
    BY <1>2, <2>1, <2>2
<1>4. QED
  BY <1>2, <1>3

LEMMA QuietFlushKeeps ==
    ASSUME MarksIndInv, NEW w \in Windows, NEW g \in Flush, flush[w].at # "await",
           flush' = [flush EXCEPT ![w] = g], g.ids = {}, g.at \in {"rest", "pick"},
           \/ g.at = "rest"
           \/ flush[w].at # "rest" /\ g.seen = flush[w].seen
           \/ g.seen = queue,
           UNCHANGED <<markServer, queue, mark, reply, wire, wish, crossed, markFaults>>
    PROVE  MarksIndInv'
<1> USE DEF MarksIndInv
<1>1. /\ flush' \in [Windows -> Flush]
      /\ \A u \in Windows : flush'[u] = IF u = w THEN g ELSE flush[u]
      /\ RequestsAreOfMarks' /\ RequestsAreOfFlushes' /\ FlushesSendWhatTheySaw'
  BY FlushMoves
<1>2. MarksTypeOK'
  BY <1>1 DEF MarksTypeOK, markServer
<1>3. ASSUME NEW c \in listed' \ crossed' PROVE Uncrossed(c)'
  <2>1. c \in listed \ crossed /\ UNCHANGED <<mark, queue, wish>>
        /\ (c \in readUnits' <=> c \in readUnits)
    BY <1>3 DEF markServer
  <2>2. \A k \in 1 .. Len(mark) : c \in mark[k].ids =>
             /\ reply[k] # "over" => reply'[k] # "over"
             /\ reply'[k] # "over" => reply[k] # "over" \/ mark[k].as = wish[c]
    OBVIOUS
  <2>3. \A r \in wire' : \E q \in wire : q.k = r.k /\ q.ids = r.ids /\ q.as = r.as
    OBVIOUS
  <2>4. \A u \in Windows : flush'[u].at # "rest" =>
             \/ flush[u].at # "rest" /\ flush'[u].seen = flush[u].seen
             \/ flush'[u].seen = queue
    BY <1>1
  <2>5. \A u \in Windows : flush'[u].at \in {"await", "ok"} => flush'[u] = flush[u]
    BY <1>1
  <2>6. QED
    BY <2>1, <2>2, <2>3, <2>4, <2>5, QuietReadKeeps
<1>4. QED
  BY <1>1, <1>2, <1>3

LEMMA StartFlushKeeps ==
    ASSUME MarksIndInv, NEW w \in Windows, StartFlush(w)
    PROVE  MarksIndInv'
<1> DEFINE g == [AtRest EXCEPT !.at = "pick", !.seen = queue]
<1>1. g \in Flush /\ g.ids = {} /\ g.at = "pick" /\ g.seen = queue
  BY RestTypes DEF Flush, MarksIndInv, MarksTypeOK
<1>2. /\ flush[w].at # "await" /\ flush' = [flush EXCEPT ![w] = g]
      /\ UNCHANGED <<markServer, queue, mark, reply, wire, wish, crossed, markFaults>>
  BY DEF StartFlush
<1> HIDE DEF g
<1>3. QED
  BY <1>1, <1>2, QuietFlushKeeps

LEMMA FlushFailedKeeps ==
    ASSUME MarksIndInv, NEW w \in Windows, FlushFailed(w)
    PROVE  MarksIndInv'
<1>1. /\ flush[w].at # "await" /\ flush' = [flush EXCEPT ![w] = AtRest]
      /\ UNCHANGED <<markServer, queue, mark, reply, wire, wish, crossed, markFaults>>
  BY DEF FlushFailed
<1>2. QED
  BY <1>1, RestTypes, QuietFlushKeeps

(* A page posts marks it has seen: all of one value, or half of them.       *)
LEMMA PostKeeps ==
    ASSUME MarksIndInv, NEW w \in Windows, NEW ids \in SUBSET Chapters,
           flush[w].at \in {"pick", "413"},
           \A c \in ids : flush[w].seen[c] = flush[w].as,
           flush' = [flush EXCEPT ![w].at = "await", ![w].ids = ids],
           wire' = wire \cup {[k |-> 0, window |-> w, ids |-> ids, as |-> flush[w].as,
                               stale |-> FALSE]},
           crossed' = crossed \cup
               {c \in ids : OnWire(c, flush[w].as) \/ InFlush(c, flush[w].as, Windows \ {w})},
           UNCHANGED <<markServer, queue, mark, reply, wish, markFaults>>
    PROVE  MarksIndInv'
<1> USE DEF MarksIndInv
<1> DEFINE r == [k |-> 0, window |-> w, ids |-> ids, as |-> flush[w].as, stale |-> FALSE]
           g == [flush[w] EXCEPT !.at = "await", !.ids = ids]
<1>1. flush[w] \in Flush /\ flush[w].as \in Value
  BY FlushTypes
<1>2. r \in MarkRequest /\ r.k = 0 /\ r.window = w /\ r.ids = ids /\ r.as = flush[w].as
  BY <1>1, MarksAssumption DEF MarkRequest
<1>3. /\ g \in Flush /\ g.at = "await" /\ g.ids = ids
      /\ g.as = flush[w].as /\ g.seen = flush[w].seen
  BY <1>1 DEF Flush
<1>4. flush' = [flush EXCEPT ![w] = g] /\ wire' = wire \cup {r}
  OBVIOUS
<1> HIDE DEF r, g
<1>5. /\ flush' \in [Windows -> Flush]
      /\ \A u \in Windows : flush'[u] = IF u = w THEN g ELSE flush[u]
  BY <1>3, <1>4 DEF MarksTypeOK
<1>6. MarksTypeOK'
  BY <1>2, <1>4, <1>5 DEF MarksTypeOK, markServer
<1>7. RequestsAreOfMarks'
  BY <1>2, <1>4 DEF RequestsAreOfMarks
<1>8. RequestsAreOfFlushes'
  <2> SUFFICES ASSUME NEW q \in wire', q.k = 0, ~q.stale
               PROVE  /\ flush'[q.window].at = "await"
                      /\ flush'[q.window].ids = q.ids /\ flush'[q.window].as = q.as
    BY DEF RequestsAreOfFlushes
  <2>1. CASE q = r
    BY <1>2, <1>3, <1>5, <2>1
  <2>2. CASE q \in wire
    <3>1. q.window \in Windows /\ flush[q.window].at = "await"
      BY <2>2, RequestTypes DEF RequestsAreOfFlushes
    <3>2. q.window # w
      BY <3>1
    <3>3. QED
      BY <1>5, <2>2, <3>1, <3>2 DEF RequestsAreOfFlushes
  <2>3. QED
    BY <1>4, <2>1, <2>2
<1>9. FlushesSendWhatTheySaw'
  BY <1>3, <1>5 DEF FlushesSendWhatTheySaw
<1>10. ASSUME NEW c \in listed' \ crossed' PROVE Uncrossed(c)'
  <2>1. c \in listed \ crossed /\ Uncrossed(c) /\ UNCHANGED <<readUnits, listed>>
    BY <1>10 DEF markServer
  <2>2. Unanswered(c)' = Unanswered(c) /\ Pending(c)' = Pending(c) /\ Shown(c)' = Shown(c)
    BY <2>1 DEF Unanswered, Pending, Shown
  <2>3. OneValueMarked(c)'
    BY <1>2, <1>4, <2>1, <2>2 DEF Uncrossed, OneValueMarked
  <2>4. CASE c \notin ids
    <3>1. OlderGoesUnder(c)'
      BY <1>2, <1>3, <1>4, <1>5, <2>1, <2>2, <2>4 DEF Uncrossed, OlderGoesUnder
    <3>2. Replayed(c)'
      BY <1>2, <1>3, <1>4, <1>5, <2>1, <2>4 DEF Uncrossed, Replayed
    <3>3. QED
      BY <2>1, <2>2, <2>3, <3>1, <3>2 DEF Uncrossed
  <2>5. CASE c \in ids
    <3>1. ~OnWire(c, flush[w].as) /\ ~InFlush(c, flush[w].as, Windows \ {w})
      BY <1>10, <2>5
    <3>2. flush[w].seen[c] = flush[w].as /\ flush[w].at # "rest" /\ flush[w].as # "none"
      BY <1>1, <2>5 DEF Value
    <3>3. flush[w].as # wish[c] => Pending(c)
      BY <2>1, <3>2 DEF Uncrossed, OlderGoesUnder
    <3>4. OlderGoesUnder(c)'
      <4>1. \A q \in wire' : q.k = 0 /\ c \in q.ids /\ q.as # wish[c] => Pending(c)
        BY <1>2, <1>4, <2>1, <3>3 DEF Uncrossed, OlderGoesUnder
      <4>2. \A u \in Windows : flush'[u].at # "rest" /\ flush'[u].seen[c] \notin {"none", wish[c]}
                                => Pending(c)
        BY <1>3, <1>5, <2>1, <3>2 DEF Uncrossed, OlderGoesUnder
      <4>3. QED
        BY <2>2, <4>1, <4>2 DEF OlderGoesUnder
    <3>5. \A u \in Windows \ {w} : flush[u].at # "rest" /\ c \in flush[u].ids
                                   => flush[u].as = flush[w].as
      BY <3>1, FlushTypes DEF InFlush, FlushesSendWhatTheySaw, Value
    <3>6. \A q \in wire' : c \in q.ids => q.as = flush[w].as
      BY <1>2, <1>4, <3>1 DEF OnWire
    <3>7. Replayed(c)'
      BY <1>3, <1>5, <2>1, <3>5, <3>6 DEF Uncrossed, Replayed
    <3>8. QED
      BY <2>1, <2>2, <2>3, <3>4, <3>7 DEF Uncrossed
  <2>6. QED
    BY <2>4, <2>5
<1>11. QED
  BY <1>6, <1>7, <1>8, <1>9, <1>10

LEMMA SendMarksKeeps ==
    ASSUME MarksIndInv, NEW w \in Windows, SendMarks(w)
    PROVE  MarksIndInv'
<1> DEFINE f == flush[w]
           all == {c \in Chapters : f.seen[c] = f.as}
           Post(ids) ==
               /\ flush' = [flush EXCEPT ![w].at = "await", ![w].ids = ids]
               /\ wire' = wire \cup {[k |-> 0, window |-> w, ids |-> ids, as |-> f.as,
                                      stale |-> FALSE]}
               /\ crossed' = crossed \cup
                     {c \in ids : OnWire(c, f.as) \/ InFlush(c, f.as, Windows \ {w})}
<1>1. UNCHANGED <<markServer, queue, mark, reply, wish, markFaults>>
  BY DEF SendMarks
<1>2. CASE f.at = "pick" /\ flush' = [flush EXCEPT ![w] = NextValue(f)] /\ UNCHANGED <<wire, crossed>>
  <2>1. flush[w] \in Flush
    BY FlushTypes DEF MarksIndInv
  <2>2. /\ NextValue(f) \in Flush /\ NextValue(f).ids = {} /\ NextValue(f).at \in {"rest", "pick"}
        /\ NextValue(f).at # "rest" => NextValue(f).seen = f.seen
    BY <2>1, RestTypes
  <2>3. QED
    BY <1>1, <1>2, <2>2, QuietFlushKeeps
<1>3. CASE f.at = "pick" /\ Post(all)
  <2>1. all \in SUBSET Chapters /\ \A c \in all : flush[w].seen[c] = flush[w].as
    OBVIOUS
  <2>2. f.at = "pick" /\ Post(all)
    BY <1>3
  <2> HIDE DEF all
  <2>3. QED
    BY <1>1, <2>1, <2>2, PostKeeps
<1>4. CASE f.at = "413" /\ \E ids \in SUBSET f.ids : Post(ids)
  <2>1. PICK ids \in SUBSET f.ids : Post(ids)
    BY <1>4
  <2>2. ids \in SUBSET Chapters /\ \A c \in ids : flush[w].seen[c] = flush[w].as
    BY <1>4, FlushTypes DEF MarksIndInv, FlushesSendWhatTheySaw
  <2>3. QED
    BY <1>1, <1>4, <2>1, <2>2, PostKeeps
<1>5. QED
  BY <1>2, <1>3, <1>4 DEF SendMarks

LEMMA AcknowledgeMarksKeeps ==
    ASSUME MarksIndInv, NEW w \in Windows, AcknowledgeMarks(w)
    PROVE  MarksIndInv'
<1> USE DEF MarksIndInv
<1> DEFINE f == flush[w]
           g == NextValue(f)
<1>1. f \in Flush /\ f.at = "ok" /\ f.as \in Value /\ f.ids \subseteq Chapters
  BY FlushTypes DEF AcknowledgeMarks
<1>2. /\ g \in Flush /\ g.ids = {} /\ g.at \in {"rest", "pick"}
      /\ g.at # "rest" => g.seen = f.seen
  BY <1>1, RestTypes
<1>3. /\ queue' = [c \in Chapters |-> IF c \in f.ids /\ queue[c] = f.as THEN "none" ELSE queue[c]]
      /\ flush' = [flush EXCEPT ![w] = g]
      /\ crossed' = crossed \cup
            {c \in f.ids : queue[c] = f.as /\ InFlush(c, f.as, Windows \ {w})}
      /\ UNCHANGED <<readUnits, listed, mark, reply, wire, wish, markFaults>>
  BY DEF AcknowledgeMarks, Acknowledged, markServer
<1> HIDE DEF g
<1>4. /\ flush' \in [Windows -> Flush]
      /\ \A u \in Windows : flush'[u] = IF u = w THEN g ELSE flush[u]
      /\ RequestsAreOfMarks' /\ RequestsAreOfFlushes' /\ FlushesSendWhatTheySaw'
  BY <1>1, <1>2, <1>3, FlushMoves
<1>5. MarksTypeOK'
  BY <1>1, <1>3, <1>4 DEF MarksTypeOK
<1>6. ASSUME NEW c \in listed' \ crossed' PROVE Uncrossed(c)'
  <2>1. c \in listed \ crossed /\ Uncrossed(c) /\ c \in Chapters
    BY <1>3, <1>6 DEF MarksTypeOK
  <2>2. Unanswered(c)' = Unanswered(c) /\ wish[c] \in Value /\ queue[c] \in Value \cup {"none"}
    BY <1>3, <2>1 DEF Unanswered, MarksTypeOK
  <2>3. OneValueMarked(c)'
    BY <1>3, <2>1, <2>2 DEF Uncrossed, OneValueMarked
  <2>4. Replayed(c)'
    BY <1>2, <1>3, <1>4, <2>1 DEF Uncrossed, Replayed
  <2>5. \A u \in Windows : flush'[u].at # "rest" =>
            flush[u].at # "rest" /\ flush'[u].seen = flush[u].seen
    BY <1>1, <1>2, <1>4
  <2>6. CASE c \in f.ids /\ queue[c] = f.as
    <3>1. queue'[c] = "none" /\ ~InFlush(c, f.as, Windows \ {w}) /\ f.seen[c] = f.as
      BY <1>1, <1>3, <1>6, <2>1, <2>6 DEF FlushesSendWhatTheySaw
    <3>2. /\ c \in readUnits <=> f.as = "read"
          /\ \A r \in wire : r.k = 0 /\ c \in r.ids => r.as = f.as
      BY <1>1, <2>1, <2>6 DEF Uncrossed, Replayed
    <3>3. Shown(c)' = f.as /\ Shown(c) = f.as
      BY <1>1, <1>3, <2>6, <3>1, <3>2 DEF Shown, Value
    <3>4. OlderGoesUnder(c)'
      <4>1. CASE f.as = wish[c]
        <5>1. \A u \in Windows : flush[u].at # "rest" => flush[u].seen[c] \in {"none", wish[c]}
          BY <3>1, <4>1 DEF InFlush
        <5>2. QED
          BY <1>3, <2>5, <3>2, <4>1, <5>1 DEF OlderGoesUnder
      <4>2. CASE f.as # wish[c]
        <5>1. Pending(c) => Pending(c)'
          BY <1>3, <2>2, <2>6, <4>2 DEF Pending
        <5>2. QED
          BY <1>3, <2>1, <2>5, <5>1 DEF Uncrossed, OlderGoesUnder
      <4>3. QED
        BY <4>1, <4>2
    <3>5. QED
      BY <1>3, <2>1, <2>2, <2>3, <2>4, <3>3, <3>4 DEF Uncrossed
  <2>7. CASE ~(c \in f.ids /\ queue[c] = f.as)
    <3>1. queue'[c] = queue[c]
      BY <1>3, <2>1, <2>7
    <3>2. Pending(c)' = Pending(c) /\ Shown(c)' = Shown(c)
      BY <1>3, <2>2, <3>1 DEF Pending, Shown
    <3>3. OlderGoesUnder(c)'
      BY <1>3, <2>1, <2>5, <3>2 DEF Uncrossed, OlderGoesUnder
    <3>4. QED
      BY <1>3, <2>1, <2>2, <2>3, <2>4, <3>2, <3>3 DEF Uncrossed
  <2>8. QED
    BY <2>6, <2>7
<1>7. QED
  BY <1>4, <1>5, <1>6

LEMMA CloseWindowKeeps ==
    ASSUME MarksIndInv, NEW w \in Windows, CloseWindow(w)
    PROVE  MarksIndInv'
<1> USE DEF MarksIndInv
<1> DEFINE mine == {k \in 1 .. Len(mark) : mark[k].window = w /\ reply[k] # "over"}
           Left(r) == IF r.window = w THEN [r EXCEPT !.stale = TRUE] ELSE r
<1>1. /\ markFaults < MaxMarkFaults /\ markFaults' = markFaults + 1
      /\ reply' = [k \in MarkNumbers |-> IF k \in mine THEN "over" ELSE reply[k]]
      /\ flush' = [flush EXCEPT ![w] = AtRest]
      /\ wire' = {Left(r) : r \in wire}
      /\ crossed' = crossed \cup (UNION {mark[k].ids : k \in mine})
      /\ UNCHANGED <<readUnits, listed, queue, mark, wish>>
  BY DEF CloseWindow, MarkFault, markServer
<1>2. ASSUME NEW r \in wire
      PROVE  /\ Left(r) \in MarkRequest /\ Left(r).k = r.k /\ Left(r).window = r.window
             /\ Left(r).ids = r.ids /\ Left(r).as = r.as
             /\ ~Left(r).stale => Left(r) = r /\ r.window # w
  BY RequestTypes DEF MarkRequest
<1> HIDE DEF Left
<1>3. \A q \in wire' : \E r \in wire :
          /\ q \in MarkRequest /\ q.k = r.k /\ q.window = r.window /\ q.ids = r.ids /\ q.as = r.as
          /\ ~q.stale => q = r /\ r.window # w
  BY <1>1, <1>2
<1>4. /\ flush' \in [Windows -> Flush]
      /\ \A u \in Windows : flush'[u] = IF u = w THEN AtRest ELSE flush[u]
  BY <1>1, RestTypes DEF MarksTypeOK
<1>5. MarksTypeOK'
  <2>1. reply' \in [MarkNumbers -> {"unmade", "waiting", "failed", "over"}]
    BY <1>1 DEF MarksTypeOK
  <2>2. crossed' \subseteq Chapters
    BY <1>1, MarkTypes DEF MarksTypeOK
  <2>3. markFaults' \in 0 .. MaxMarkFaults
    BY <1>1, MarksAssumption DEF MarksTypeOK
  <2>4. QED
    BY <1>1, <1>3, <1>4, <2>1, <2>2, <2>3 DEF MarksTypeOK
<1>6. RequestsAreOfMarks'
  BY <1>1, <1>3 DEF RequestsAreOfMarks
<1>7. RequestsAreOfFlushes'
  BY <1>3, <1>4, RequestTypes DEF RequestsAreOfFlushes
<1>8. FlushesSendWhatTheySaw'
  BY <1>4, RestTypes DEF FlushesSendWhatTheySaw
<1>9. ASSUME NEW c \in listed' \ crossed' PROVE Uncrossed(c)'
  <2>1. c \in listed \ crossed /\ UNCHANGED <<mark, queue, wish>>
        /\ (c \in readUnits' <=> c \in readUnits)
    BY <1>1, <1>9
  <2>2. \A k \in 1 .. Len(mark) : c \in mark[k].ids =>
             /\ reply[k] # "over" => reply'[k] # "over"
             /\ reply'[k] # "over" => reply[k] # "over" \/ mark[k].as = wish[c]
    <3>1. \A k \in 1 .. Len(mark) : c \in mark[k].ids => k \notin mine
      BY <1>1, <1>9
    <3>2. 1 .. Len(mark) \subseteq MarkNumbers
      BY MarksAssumption DEF MarksTypeOK, RequestsAreOfMarks, MarkNumbers
    <3>3. \A k \in 1 .. Len(mark) : c \in mark[k].ids => reply'[k] = reply[k]
      BY <1>1, <3>1, <3>2
    <3>4. QED
      BY <3>3
  <2>3. \A q \in wire' : \E r \in wire : r.k = q.k /\ r.ids = q.ids /\ r.as = q.as
    BY <1>3
  <2>4. \A u \in Windows : flush'[u].at # "rest" =>
             \/ flush[u].at # "rest" /\ flush'[u].seen = flush[u].seen
             \/ flush'[u].seen = queue
    BY <1>4, RestTypes
  <2>5. \A u \in Windows : flush'[u].at \in {"await", "ok"} => flush'[u] = flush[u]
    BY <1>4, RestTypes
  <2>6. QED
    BY <2>1, <2>2, <2>3, <2>4, <2>5, QuietReadKeeps
<1>10. QED
  BY <1>5, <1>6, <1>7, <1>8, <1>9

LEMMA DeleteChapterKeeps ==
    ASSUME MarksIndInv, NEW d \in Chapters, DeleteChapter(d)
    PROVE  MarksIndInv'
<1> USE DEF MarksIndInv
<1>1. /\ markFaults < MaxMarkFaults /\ markFaults' = markFaults + 1
      /\ listed' = listed \ {d} /\ readUnits' = readUnits \ {d}
      /\ UNCHANGED <<queue, mark, reply, flush, wire, wish, crossed>>
  BY DEF DeleteChapter, MarkFault
<1>2. MarksTypeOK'
  BY <1>1, MarksAssumption DEF MarksTypeOK
<1>3. RequestsAreOfMarks' /\ RequestsAreOfFlushes' /\ FlushesSendWhatTheySaw'
  BY <1>1 DEF RequestsAreOfMarks, RequestsAreOfFlushes, FlushesSendWhatTheySaw
<1>4. ASSUME NEW c \in listed' \ crossed' PROVE Uncrossed(c)'
  <2>1. c \in listed \ crossed /\ (c \in readUnits' <=> c \in readUnits)
    BY <1>1, <1>4
  <2>2. QED
    BY <1>1, <2>1, QuietReadKeeps
<1>5. QED
  BY <1>2, <1>3, <1>4

LEMMA AutoMarkReadKeeps ==
    ASSUME MarksIndInv, NEW b \in Chapters, NEW finished \in BOOLEAN, AutoMarkRead(b, finished)
    PROVE  MarksIndInv'
<1> USE DEF MarksIndInv
<1>1. PICK ids \in SUBSET listed :
        /\ readUnits' = readUnits \cup ids
        /\ wish' = [d \in Chapters |->
                      IF d \in ids /\ queue[d] # "unread" THEN "read" ELSE wish[d]]
        /\ crossed' = crossed \cup
              {d \in ids : \/ OnWire(d, "read") \/ InFlush(d, "read", Windows)
                           \/ \E k \in Unanswered(d) : mark[k].as = "unread"}
        /\ UNCHANGED <<listed, queue, mark, reply, flush, wire, markFaults>>
  BY DEF AutoMarkRead
<1>2. MarksTypeOK'
  BY <1>1 DEF MarksTypeOK, Value
<1>3. RequestsAreOfMarks' /\ RequestsAreOfFlushes' /\ FlushesSendWhatTheySaw'
  BY <1>1 DEF RequestsAreOfMarks, RequestsAreOfFlushes, FlushesSendWhatTheySaw
<1>4. ASSUME NEW c \in listed' \ crossed' PROVE Uncrossed(c)'
  <2>1. c \in listed \ crossed /\ Uncrossed(c) /\ c \in Chapters
    BY <1>1, <1>4 DEF MarksTypeOK
  <2>2. Unanswered(c)' = Unanswered(c)
    BY <1>1 DEF Unanswered
  <2>3. CASE wish'[c] = wish[c] /\ (c \in readUnits' <=> c \in readUnits)
    <3>1. Pending(c)' = Pending(c) /\ Shown(c)' = Shown(c)
      BY <1>1, <2>2, <2>3 DEF Pending, Shown
    <3>2. OneValueMarked(c)' /\ OlderGoesUnder(c)' /\ Replayed(c)'
      BY <1>1, <2>1, <2>2, <2>3, <3>1
      DEF Uncrossed, OneValueMarked, OlderGoesUnder, Replayed
    <3>3. QED
      BY <1>1, <2>1, <2>2, <2>3, <3>1, <3>2 DEF Uncrossed
  <2>4. CASE c \in ids
    <3>1. /\ ~OnWire(c, "read") /\ ~InFlush(c, "read", Windows)
          /\ \A k \in Unanswered(c) : mark[k].as # "unread"
      BY <1>1, <1>4, <2>4
    <3>2. \A k \in Unanswered(c) : mark[k].as = "read"
      BY <3>1, MarkTypes DEF Unanswered, Value
    <3>3. c \in readUnits'
      BY <1>1, <2>4
    <3>4. wish'[c] = IF queue[c] # "unread" THEN "read" ELSE wish[c]
      BY <1>1, <2>1, <2>4
    <3>5. OneValueMarked(c)'
      BY <1>1, <2>1, <2>2, <3>1, <3>2, <3>4 DEF Uncrossed, OneValueMarked, OnWire
    <3>6. OlderGoesUnder(c)'
      <4>1. CASE queue[c] # "unread"
        BY <1>1, <3>1, <3>4, <4>1 DEF OlderGoesUnder, OnWire, InFlush
      <4>2. CASE queue[c] = "unread"
        BY <1>1, <2>1, <2>2, <3>4, <4>2 DEF Uncrossed, OlderGoesUnder, Pending
      <4>3. QED
        BY <4>1, <4>2
    <3>7. Replayed(c)'
      <4>1. \A w \in Windows : flush[w].at # "rest" /\ c \in flush[w].ids => flush[w].as = "read"
        BY <3>1, FlushTypes DEF InFlush, FlushesSendWhatTheySaw, Value
      <4>2. QED
        BY <1>1, <2>1, <3>3, <4>1 DEF Uncrossed, Replayed
    <3>8. Unanswered(c)' = {} => (Shown(c) = wish[c])'
      BY <1>1, <2>1, <2>2, <3>3, <3>4 DEF Uncrossed, Shown, MarksTypeOK, Value
    <3>9. QED
      BY <3>5, <3>6, <3>7, <3>8 DEF Uncrossed
  <2>5. QED
    BY <1>1, <2>1, <2>3, <2>4
<1>5. QED
  BY <1>2, <1>3, <1>4

LEMMA MarksNextIndInv == MarksIndInv /\ [MarksNext]_markVars => MarksIndInv'
<1> SUFFICES ASSUME MarksIndInv, [MarksNext]_markVars PROVE MarksIndInv'
  OBVIOUS
<1>1. CASE UNCHANGED markVars
  BY <1>1 DEF markVars, MarksIndInv, MarksTypeOK, RequestsAreOfMarks, RequestsAreOfFlushes,
     FlushesSendWhatTheySaw, Uncrossed, OneValueMarked, OlderGoesUnder, Replayed, Pending,
     Unanswered, Shown
<1>2. CASE MarksNext
  BY <1>2, StartFlushKeeps, SendMarksKeeps, AcknowledgeMarksKeeps, FlushFailedKeeps,
     CloseWindowKeeps, MakeMarkKeeps, ServeKeeps, MarkTimeoutKeeps, MarkFailedKeeps,
     AutoMarkReadKeeps, DeleteChapterKeeps DEF MarksNext, FlushStep
<1>3. QED
  BY <1>1, <1>2

LEMMA MarksInvariant == MarksSpec => []MarksIndInv
<1>1. QED
  BY MarksInitIndInv, MarksNextIndInv, PTL DEF MarksSpec

(* The types of the marks, of the requests on their way and of the flushes  *)
(* of mark_ids and flush_marks.                                             *)
THEOREM MarksTyped == MarksSpec => []MarksTypeOK
<1>1. MarksIndInv => MarksTypeOK
  BY DEF MarksIndInv
<1>2. QED
  BY <1>1, MarksInvariant, PTL

(* Marking without a connection: once its request is over, a chapter shows  *)
(* as it was last marked, for any number of pages, marks and faults, unless *)
(* two values of it were on their way at once.                              *)
THEOREM MarksShown == MarksSpec => []ShownAsMarked
<1>1. MarksIndInv => ShownAsMarked
  BY DEF MarksIndInv, Uncrossed, ShownAsMarked
<1>2. QED
  BY <1>1, MarksInvariant, PTL
-----------------------------------------------------------------------------
ReaderSet == [chapter : Listing, end : BOOLEAN, listed : BOOLEAN, strip : 0 .. MaxToggles,
              pages : {"loading", "known", "failed"}]

(* The types, but for what only the strip uses. *)
ReaderTyped ==
    /\ reader \in ReaderSet
    /\ mode \in {"paged", "vertical"}
    /\ page \in Nat /\ pos \in Int /\ snap \in {-1, 0, 1, Still} /\ timer \in BOOLEAN
    /\ current \in Listing
    /\ strayed \in {"no", "strip", "late"}

(* The paged track shows the routed chapter. *)
PagedIsRouted == mode = "paged" => current = reader.chapter

(* A reader that waits for its pages is as it was mounted. *)
WaitsUntouched ==
    reader.pages # "known" =>
        /\ current = reader.chapter
        /\ pos = page /\ snap = Still /\ ~timer
        /\ strayed = "no"

LateIsElsewhere == strayed = "late" => current # reader.chapter

(* A place on the track: a page, or the panel before or after them when     *)
(* there is a chapter beyond it.                                            *)
TrackPlace(p) ==
    /\ p \in -1 .. Count
    /\ p = -1 => reader.chapter > 1
    /\ p = Count => reader.chapter < LastChapter

TrackInBounds ==
    reader.pages = "known" => TrackPlace(pos) /\ (snap # Still => TrackPlace(pos + snap))

ReaderIndInv ==
    /\ ReaderTyped
    /\ PagedIsRouted
    /\ WaitsUntouched
    /\ LateIsElsewhere
    /\ TrackInBounds
    /\ ShownIsReported
-----------------------------------------------------------------------------
USE ReaderAssumption DEF Listing, Still

LEMMA MountedIsReader ==
    ASSUME NEW c \in Listing, NEW end \in BOOLEAN
    PROVE  /\ Mounted(c, end) \in ReaderSet
           /\ Mounted(c, end).chapter = c /\ Mounted(c, end).pages = "loading"
BY DEF Mounted, ReaderSet

(* A strip is made. *)
LEMMA NewStripTypes ==
    ASSUME reader \in ReaderSet, reader.strip < MaxToggles, NewStrip
    PROVE  /\ reader' \in ReaderSet
           /\ reader'.chapter = reader.chapter /\ reader'.pages = "known"
<1>1. reader.strip + 1 \in 0 .. MaxToggles
  BY DEF ReaderSet
<1>2. reader' = [reader EXCEPT !.strip = reader.strip + 1, !.pages = "known"]
  BY DEF NewStrip
<1>3. QED
  BY <1>1, <1>2 DEF ReaderSet

LEMMA ReaderInitIndInv == ReaderInit => ReaderIndInv
<1> SUFFICES ASSUME ReaderInit PROVE ReaderIndInv
  OBVIOUS
<1>1. PICK c \in Listing, n \in 0 .. 1 : reader = Mounted(c, FALSE) /\ page = n
  BY DEF ReaderInit
<1>2. ReaderTyped
  <2>1. reader \in ReaderSet /\ reader.chapter = c
    BY <1>1, MountedIsReader
  <2>2. page \in Nat /\ pos \in Int
    BY <1>1 DEF ReaderInit
  <2>3. QED
    BY <2>1, <2>2 DEF ReaderInit, ReaderTyped
<1>3. PagedIsRouted /\ WaitsUntouched /\ LateIsElsewhere
  BY <1>1 DEF ReaderInit, PagedIsRouted, WaitsUntouched, LateIsElsewhere
<1>4. TrackInBounds /\ ShownIsReported
  BY <1>1 DEF TrackInBounds, ShownIsReported, Mounted
<1>5. QED
  BY <1>2, <1>3, <1>4 DEF ReaderIndInv

LEMMA CountWhenKnown ==
    ASSUME ReaderTyped
    PROVE  /\ Count \in Nat
           /\ Count > 0 => reader.pages = "known"
           /\ reader.pages = "known" => Count > 0 /\ Count = PagesIn[reader.chapter]
BY DEF ReaderTyped, ReaderSet, Count

(* A new route: the reader is mounted again, or the router was there.       *)
LEMMA RerouteKeeps ==
    ASSUME ReaderIndInv, NEW c \in Listing, NEW n \in Nat, NEW end \in BOOLEAN,
           Reroute(c, n, end), mode' \in {"paged", "vertical"},
           c # reader.chapter \/ mode' = mode
    PROVE  ReaderIndInv'
<1> USE DEF ReaderIndInv
<1>1. CASE c = reader.chapter
  <2>1. UNCHANGED readerVars \/ UNCHANGED <<reader, page, track, strip, reported, strayed, mode>>
    BY <1>1 DEF Reroute
  <2>2. UNCHANGED <<reader, mode, page, pos, snap, timer, current, reported, strayed>>
    BY <2>1 DEF readerVars, track, strip
  <2>3. QED
    BY <2>2 DEF ReaderTyped, PagedIsRouted, WaitsUntouched, LateIsElsewhere,
                TrackInBounds, TrackPlace, Count, ShownIsReported, OnPage
<1>2. CASE c # reader.chapter
  <2>1. /\ reader' = Mounted(c, end)
        /\ page' = n /\ pos' = n /\ snap' = Still /\ timer' = FALSE
        /\ current' = c /\ strayed' = "no"
    BY <1>2 DEF Reroute
  <2>2. /\ Mounted(c, end) \in ReaderSet
        /\ Mounted(c, end).chapter = c /\ Mounted(c, end).pages = "loading"
    BY MountedIsReader
  <2>3. ReaderTyped'
    <3>1. page' \in Nat /\ pos' \in Int
      BY <2>1
    <3>2. reader' \in ReaderSet /\ current' \in Listing
      BY <2>1, <2>2
    <3>3. QED
      BY <2>1, <3>1, <3>2 DEF ReaderTyped
  <2>4. PagedIsRouted' /\ WaitsUntouched' /\ LateIsElsewhere' /\ TrackInBounds' /\ ShownIsReported'
    BY <2>1, <2>2 DEF PagedIsRouted, WaitsUntouched, LateIsElsewhere, TrackInBounds,
                      ShownIsReported
  <2>5. QED
    BY <2>3, <2>4
<1>3. QED
  BY <1>1, <1>2

(* Steps that leave alone what is shown and reported.                       *)
LEMMA StripOnlyKeeps ==
    ASSUME ReaderIndInv, ReaderTyped',
           reader'.chapter = reader.chapter, reader'.pages = reader.pages,
           PagedIsRouted',
           UNCHANGED <<page, pos, snap, timer, current, reported, strayed>>
    PROVE  ReaderIndInv'
<1>1. Count' = Count
  BY DEF Count
<1>2. WaitsUntouched' /\ LateIsElsewhere'
  BY DEF ReaderIndInv, WaitsUntouched, LateIsElsewhere
<1>3. TrackInBounds'
  BY <1>1 DEF ReaderIndInv, TrackInBounds, TrackPlace
<1>4. ShownIsReported'
  <2> SUFFICES ASSUME reader'.pages = "known"
               PROVE  /\ strayed # "late" => reported = <<current, page>>
                                             /\ page \in 0 .. PagesIn[current] - 1
                      /\ mode' = "paged" => current = reader.chapter
                      /\ OnPage(pos)' /\ strayed = "no" => page = pos
                      /\ pos = -1 => reader.chapter > 1
                      /\ pos = Count => reader.chapter < LastChapter
    BY <1>1 DEF ShownIsReported
  <2>1. OnPage(pos)' = OnPage(pos)
    BY <1>1 DEF OnPage
  <2>2. mode' = "paged" => current = reader.chapter
    BY DEF PagedIsRouted
  <2>3. QED
    BY <2>1, <2>2 DEF ReaderIndInv, ShownIsReported
<1>5. QED
  BY <1>2, <1>3, <1>4 DEF ReaderIndInv

LEMMA PagesArriveKeeps ==
    ASSUME ReaderIndInv, PagesArrive
    PROVE  ReaderIndInv'
<1> DEFINE last == PagesIn[reader.chapter] - 1
           n == Opening(last)
<1> USE DEF ReaderIndInv
<1>1. /\ reader.pages = "loading"
      /\ page' = n /\ pos' = (IF n = page THEN pos ELSE n)
      /\ reported' = <<reader.chapter, n>>
      /\ UNCHANGED <<mode, snap, timer, current, strayed>>
  BY DEF PagesArrive
<1>2. last \in Nat /\ n \in 0 .. last
  BY DEF ReaderTyped, ReaderSet, Opening
<1>3. pos' = n /\ snap = Still /\ current = reader.chapter /\ strayed = "no"
  BY <1>1 DEF WaitsUntouched
<1>4. /\ reader'.chapter = reader.chapter /\ reader'.pages = "known"
      /\ reader' \in ReaderSet
  <2>1. CASE mode = "vertical"
    BY <2>1, NewStripTypes DEF PagesArrive, ReaderTyped
  <2>2. CASE mode # "vertical"
    BY <2>2 DEF PagesArrive, ReaderTyped, ReaderSet
  <2>3. QED
    BY <2>1, <2>2
<1> HIDE DEF n, last
<1>5. ReaderTyped'
  BY <1>1, <1>2, <1>3, <1>4 DEF ReaderTyped
<1>6. Count' = last + 1
  BY <1>4 DEF Count, last, ReaderTyped, ReaderSet
<1>7. PagedIsRouted' /\ WaitsUntouched' /\ LateIsElsewhere'
  BY <1>1, <1>3, <1>4 DEF PagedIsRouted, WaitsUntouched, LateIsElsewhere
<1>8. TrackInBounds'
  BY <1>1, <1>2, <1>3, <1>6 DEF TrackInBounds, TrackPlace
<1>9. ShownIsReported'
  BY <1>1, <1>2, <1>3, <1>4, <1>6 DEF ShownIsReported, OnPage, last
<1>10. QED
  BY <1>5, <1>7, <1>8, <1>9

LEMMA WaitingKeeps ==
    ASSUME ReaderIndInv, PagesFail \/ DetailArrives
    PROVE  ReaderIndInv'
<1> USE DEF ReaderIndInv
<1>1. CASE PagesFail
  <2>1. /\ reader' = [reader EXCEPT !.pages = "failed"] /\ reader.pages = "loading"
        /\ UNCHANGED <<mode, page, pos, snap, timer, current, reported, strayed>>
    BY <1>1 DEF PagesFail, track, strip
  <2>2. reader'.pages = "failed" /\ reader'.chapter = reader.chapter
    BY <2>1 DEF ReaderTyped
  <2>3. ReaderTyped' /\ PagedIsRouted' /\ WaitsUntouched' /\ LateIsElsewhere'
    BY <2>1, <2>2 DEF ReaderTyped, ReaderSet, PagedIsRouted, WaitsUntouched, LateIsElsewhere
  <2>4. TrackInBounds' /\ ShownIsReported'
    BY <2>2 DEF TrackInBounds, ShownIsReported
  <2>5. QED
    BY <2>3, <2>4
<1>2. CASE DetailArrives
  <2>1. /\ reader' = [reader EXCEPT !.listed = TRUE]
        /\ UNCHANGED <<mode, page, pos, snap, timer, current, reported, strayed>>
    BY <1>2 DEF DetailArrives, track, strip
  <2>2. reader'.pages = reader.pages /\ reader'.chapter = reader.chapter
    BY <2>1 DEF ReaderTyped
  <2>3. ReaderTyped' /\ PagedIsRouted'
    BY <2>1, <2>2 DEF ReaderTyped, ReaderSet, PagedIsRouted
  <2>4. QED
    BY <2>1, <2>2, <2>3, StripOnlyKeeps
<1>3. QED
  BY <1>1, <1>2

(* An animation begins towards a place on the track. *)
LEMMA ArmKeeps ==
    ASSUME ReaderIndInv, NEW delta \in {-1, 0, 1}, Arm(delta),
           reader.pages = "known", TrackPlace(pos + delta),
           UNCHANGED <<reader, mode, page, pos, strip, reported, strayed>>
    PROVE  ReaderIndInv'
<1> USE DEF ReaderIndInv, Arm
<1>1. ReaderTyped' /\ PagedIsRouted' /\ WaitsUntouched' /\ LateIsElsewhere'
  BY DEF ReaderTyped, PagedIsRouted, WaitsUntouched, LateIsElsewhere, strip
<1>2. Count' = Count
  BY DEF Count
<1>3. TrackInBounds'
  BY <1>2 DEF TrackInBounds, TrackPlace
<1>4. ShownIsReported'
  BY DEF ShownIsReported, strip, OnPage, Count
<1>5. QED
  BY <1>1, <1>3, <1>4

LEMMA TurnsKeep ==
    ASSUME ReaderIndInv, NEW delta \in {-1, 1}, RequestTurn(delta)
    PROVE  ReaderIndInv'
<1> DEFINE c == reader.chapter
           lowest == IF HasPrev(c) THEN -1 ELSE 0
           highest == IF HasNext(c) THEN Count ELSE Count - 1
<1> USE DEF ReaderIndInv
<1>1. mode' = mode /\ Count > 0 /\ c \in Listing /\ mode \in {"paged", "vertical"}
  BY DEF RequestTurn, ReaderTyped, ReaderSet
<1>2. CASE HasNext(c) /\ Reroute(c + 1, 0, FALSE)
  <2>1. c + 1 \in Listing
    BY <1>1, <1>2 DEF HasNext
  <2>2. QED
    BY <1>1, <1>2, <2>1, RerouteKeeps
<1>3. CASE HasPrev(c) /\ Reroute(c - 1, 0, TRUE)
  <2>1. c - 1 \in Listing
    BY <1>1, <1>3 DEF HasPrev
  <2>2. QED
    BY <1>1, <1>3, <2>1, RerouteKeeps
<1>4. CASE /\ pos + delta \in lowest .. highest
           /\ Arm(delta)
           /\ UNCHANGED <<reader, page, pos, strip, reported, strayed, overtaken>>
  <2>1. reader.pages = "known" /\ Count \in Nat
    BY <1>1, CountWhenKnown
  <2>2. TrackPlace(pos + delta)
    BY <1>1, <1>4, <2>1 DEF TrackPlace, HasPrev, HasNext
  <2>3. QED
    BY <1>1, <1>4, <2>1, <2>2, ArmKeeps
<1>5. QED
  BY <1>2, <1>3, <1>4 DEF RequestTurn

LEMMA SpringKeeps ==
    ASSUME ReaderIndInv, SpringBack
    PROVE  ReaderIndInv'
<1>1. reader.pages = "known"
  BY CountWhenKnown DEF ReaderIndInv, SpringBack
<1>2. pos + 0 = pos /\ TrackPlace(pos)
  BY <1>1 DEF ReaderIndInv, TrackInBounds, ReaderTyped
<1>3. QED
  BY <1>1, <1>2, ArmKeeps DEF SpringBack

(* A turn lands where it was checked to. *)
LEMMA LandKeeps ==
    ASSUME ReaderIndInv, snap # Still, Land, timer' \in BOOLEAN
    PROVE  ReaderIndInv'
<1> DEFINE target == pos + snap
<1> USE DEF ReaderIndInv
<1>1. reader.pages = "known" /\ Count \in Nat /\ Count > 0 /\ Count = PagesIn[reader.chapter]
  BY CountWhenKnown DEF WaitsUntouched
<1>2. /\ snap' = Still /\ pos' = target
      /\ UNCHANGED <<reader, mode, current>>
      /\ target \in Int
  BY DEF Land, strip, ReaderTyped
<1>3. TrackPlace(target)
  BY <1>1 DEF TrackInBounds
<1> HIDE DEF target
<1>4. Count' = Count
  BY <1>2 DEF Count
<1>5. TrackInBounds' /\ PagedIsRouted'
  BY <1>2, <1>3, <1>4 DEF TrackInBounds, TrackPlace, PagedIsRouted
<1>6. WaitsUntouched'
  BY <1>1, <1>2 DEF WaitsUntouched
<1>7. CASE OnPage(target)
  <2>1. /\ page' = target
        /\ reported' = (IF target = page THEN reported ELSE <<reader.chapter, target>>)
        /\ strayed' = (IF current = reader.chapter THEN "no" ELSE "late")
    BY <1>7 DEF Land, target
  <2>2. target \in 0 .. PagesIn[reader.chapter] - 1
    BY <1>1, <1>7 DEF OnPage
  <2>3. ReaderTyped' /\ LateIsElsewhere'
    BY <1>2, <2>1, <2>2 DEF ReaderTyped, LateIsElsewhere
  <2>4. strayed' # "late" => /\ reported' = <<current, page'>>
                             /\ page' \in 0 .. PagesIn[current] - 1
    BY <1>1, <2>1, <2>2 DEF LateIsElsewhere, ShownIsReported
  <2>5. ShownIsReported'
    BY <1>2, <1>3, <1>4, <2>1, <2>4 DEF ShownIsReported, PagedIsRouted, TrackPlace
  <2>6. QED
    BY <1>5, <1>6, <2>3, <2>5
<1>8. CASE ~OnPage(target)
  <2>1. UNCHANGED <<page, reported, strayed>>
    BY <1>8 DEF Land, target
  <2>2. ReaderTyped' /\ LateIsElsewhere'
    BY <1>2, <2>1 DEF ReaderTyped, LateIsElsewhere
  <2>3. ~OnPage(pos)'
    BY <1>2, <1>4, <1>8 DEF OnPage
  <2>4. ShownIsReported'
    BY <1>1, <1>2, <1>3, <1>4, <2>1, <2>3 DEF ShownIsReported, PagedIsRouted, TrackPlace
  <2>5. QED
    BY <1>5, <1>6, <2>2, <2>4
<1>9. QED
  BY <1>7, <1>8

LEMMA TimerKeeps ==
    ASSUME ReaderIndInv, TimerFires
    PROVE  ReaderIndInv'
<1> USE DEF ReaderIndInv
<1>1. CASE snap # Still
  BY <1>1, LandKeeps DEF TimerFires
<1>2. CASE snap = Still
  <2>1. /\ timer' = FALSE
        /\ UNCHANGED <<reader, mode, page, pos, snap, current, reported, strayed>>
    BY <1>2 DEF TimerFires, strip
  <2>2. ReaderTyped' /\ PagedIsRouted' /\ WaitsUntouched' /\ LateIsElsewhere'
    BY <2>1 DEF ReaderTyped, PagedIsRouted, WaitsUntouched, LateIsElsewhere
  <2>3. TrackInBounds' /\ ShownIsReported'
    BY <2>1 DEF TrackInBounds, TrackPlace, ShownIsReported, OnPage, Count
  <2>4. QED
    BY <2>2, <2>3
<1>3. QED
  BY <1>1, <1>2

LEMMA ScrollKeeps ==
    ASSUME ReaderIndInv, NEW c \in Listing, NEW n \in 0 .. PagesIn[c] - 1, Scroll(c, n)
    PROVE  ReaderIndInv'
<1> USE DEF ReaderIndInv
<1>1. /\ mode = "vertical" /\ Count > 0
      /\ current' = c /\ page' = n /\ reported' = <<c, n>> /\ strayed' = "strip"
      /\ UNCHANGED <<reader, mode, pos, snap, timer>>
  BY DEF Scroll, track
<1>2. reader.pages = "known" /\ n \in Nat
  BY <1>1, CountWhenKnown
<1>3. ReaderTyped' /\ PagedIsRouted' /\ WaitsUntouched' /\ LateIsElsewhere'
  BY <1>1, <1>2 DEF ReaderTyped, PagedIsRouted, WaitsUntouched, LateIsElsewhere
<1>4. Count' = Count
  BY <1>1 DEF Count
<1>5. TrackInBounds'
  BY <1>1, <1>4 DEF TrackInBounds, TrackPlace
<1>6. ShownIsReported'
  BY <1>1, <1>2, <1>4 DEF ShownIsReported
<1>7. QED
  BY <1>3, <1>5, <1>6

LEMMA StripKeeps ==
    ASSUME ReaderIndInv,
           (\E side \in {"prev", "next"} : Extend(side)) \/ (\E l \in loads : LoadDone(l))
    PROVE  ReaderIndInv'
<1>1. UNCHANGED <<reader, mode, page, pos, snap, timer, current, reported, strayed>>
  BY DEF Extend, LoadDone, track
<1>2. ReaderTyped' /\ PagedIsRouted'
  BY <1>1 DEF ReaderIndInv, ReaderTyped, PagedIsRouted
<1>3. QED
  BY <1>1, <1>2, StripOnlyKeeps

LEMMA ToggleKeeps ==
    ASSUME ReaderIndInv, ToggleMode
    PROVE  ReaderIndInv'
<1> USE DEF ReaderIndInv
<1>1. CASE /\ mode = "paged" /\ mode' = "vertical"
           /\ IF Count > 0 THEN reader.strip < MaxToggles /\ NewStrip
              ELSE UNCHANGED <<reader, segments, counts>>
           /\ UNCHANGED <<page, track, current, loads, reported, strayed, overtaken>>
  <2>1. /\ reader'.chapter = reader.chapter /\ reader'.pages = reader.pages
        /\ reader' \in ReaderSet
    <3>1. CASE Count > 0
      <4>1. reader.pages = "known"
        BY <3>1, CountWhenKnown
      <4>2. QED
        BY <1>1, <3>1, <4>1, NewStripTypes DEF ReaderTyped
    <3>2. CASE ~(Count > 0)
      BY <1>1, <3>2 DEF ReaderTyped
    <3>3. QED
      BY <3>1, <3>2
  <2>2. UNCHANGED <<page, pos, snap, timer, current, reported, strayed>>
    BY <1>1 DEF track
  <2>3. ReaderTyped' /\ PagedIsRouted'
    BY <1>1, <2>1, <2>2 DEF ReaderTyped, PagedIsRouted
  <2>4. QED
    BY <2>1, <2>2, <2>3, StripOnlyKeeps
<1>2. CASE mode' = "paged" /\ current # reader.chapter /\ Reroute(current, page, FALSE)
  <2>1. current \in Listing /\ page \in Nat
    BY DEF ReaderTyped
  <2>2. QED
    BY <1>2, <2>1, RerouteKeeps
<1>3. CASE /\ mode' = "paged" /\ current = reader.chapter
           /\ UNCHANGED <<reader, page, track, strip, reported, strayed>>
  <2>1. UNCHANGED <<reader, page, pos, snap, timer, current, reported, strayed>>
    BY <1>3 DEF track, strip
  <2>2. ReaderTyped' /\ PagedIsRouted'
    BY <1>3, <2>1 DEF ReaderTyped, PagedIsRouted
  <2>3. QED
    BY <2>1, <2>2, StripOnlyKeeps
<1>4. QED
  BY <1>1, <1>2, <1>3 DEF ToggleMode

LEMMA JumpKeeps ==
    ASSUME ReaderIndInv, NEW c \in Listing, Jump(c)
    PROVE  ReaderIndInv'
BY RerouteKeeps DEF ReaderIndInv, Jump, ReaderTyped
-----------------------------------------------------------------------------
LEMMA ReaderStepKeeps == ReaderIndInv /\ [ReaderNext]_readerVars => ReaderIndInv'
<1> SUFFICES ASSUME ReaderIndInv, [ReaderNext]_readerVars PROVE ReaderIndInv'
  OBVIOUS
<1>1. CASE UNCHANGED readerVars
  <2>1. UNCHANGED <<reader, mode, page, pos, snap, timer, current, reported, strayed>>
    BY <1>1 DEF readerVars, track, strip
  <2>2. ReaderTyped' /\ PagedIsRouted'
    BY <2>1 DEF ReaderIndInv, ReaderTyped, PagedIsRouted
  <2>3. QED
    BY <2>1, <2>2, StripOnlyKeeps
<1>2. CASE PagesArrive \/ PagesFail \/ DetailArrives
  BY <1>2, PagesArriveKeeps, WaitingKeeps
<1>3. CASE (\E delta \in {-1, 1} : RequestTurn(delta)) \/ SpringBack
  BY <1>3, TurnsKeep, SpringKeeps
<1>4. CASE TransitionEnd
  <2>1. snap # Still /\ Land /\ timer' \in BOOLEAN
    BY <1>4 DEF TransitionEnd, ReaderIndInv, ReaderTyped
  <2>2. QED
    BY <2>1, LandKeeps
<1>5. CASE TimerFires
  BY <1>5, TimerKeeps
<1>6. CASE \E c \in Listing : Jump(c) \/ (\E n \in 0 .. PagesIn[c] - 1 : Scroll(c, n))
  BY <1>6, JumpKeeps, ScrollKeeps
<1>7. CASE (\E side \in {"prev", "next"} : Extend(side)) \/ (\E l \in loads : LoadDone(l))
  BY <1>7, StripKeeps
<1>8. CASE ToggleMode
  BY <1>8, ToggleKeeps
<1>9. QED
  BY <1>1, <1>2, <1>3, <1>4, <1>5, <1>6, <1>7, <1>8 DEF ReaderNext

(* Every reachable state satisfies the strengthening. *)
THEOREM ReaderSpecIndInv == ReaderSpec => []ReaderIndInv
BY ReaderInitIndInv, ReaderStepKeeps, PTL DEF ReaderSpec

(* What is on the screen is what was reported, and the track rests on no    *)
(* dead end, for a publication of any chapters and pages: a turn's place is *)
(* checked when it begins and nothing moves the bounds before it lands.     *)
THEOREM ScreenIsReported == ReaderSpec => []ShownIsReported
<1>1. ReaderIndInv => ShownIsReported
  BY DEF ReaderIndInv
<1>2. QED
  BY <1>1, ReaderSpecIndInv, PTL
-----------------------------------------------------------------------------
(* The strip. It is empty until the pages are known; while no load has met  *)
(* an eviction or a switch of modes, it is unbroken, and every load is for  *)
(* the chapter beyond the end it will be put at.                            *)
StripTyped ==
    /\ segments \in Seq(Listing) /\ counts \subseteq Listing /\ loads \subseteq Load
    /\ reported \in {<<>>} \cup (Listing \X Nat) /\ overtaken \in BOOLEAN

StripOfKnown ==
    /\ reader.pages # "known" => segments = <<>> /\ loads = {}
    /\ segments # <<>> \/ loads # {} => reader.strip > 0

Unbroken ==
    /\ \A i, j \in 1 .. Len(segments) : segments[j] - segments[i] = j - i
    /\ segments # <<>> => \E i \in 1 .. Len(segments) : segments[i] = current

Beyond(side) == IF side = "next" THEN End(side) + 1 ELSE End(side) - 1

LoadsAtEnds ==
    \A l \in loads : /\ segments # <<>> /\ l.chapter = Beyond(l.side)
                     /\ l.strip = reader.strip /\ mode = "vertical"

StripIndInv ==
    /\ StripTyped
    /\ StripOfKnown
    /\ ~overtaken => Unbroken /\ LoadsAtEnds

(* A finite set of numbers has one of every rank.                           *)
LEMMA EveryRank ==
    ASSUME NEW S \in SUBSET Nat, IsFiniteSet(S), NEW n \in 1 .. Cardinality(S)
    PROVE  \E i \in S : Cardinality({j \in S : j <= i}) = n
<1> DEFINE upTo(i) == {j \in S : j <= i}
           rank == [i \in S |-> Cardinality(upTo(i))]
           N == Cardinality(S)
<1>1. N \in Nat
  BY FS_CardinalityType
<1>2. ASSUME NEW i \in S
      PROVE  /\ IsFiniteSet(upTo(i)) /\ Cardinality(upTo(i)) \in Nat
             /\ Cardinality(upTo(i)) >= 1 /\ Cardinality(upTo(i)) <= N
  <2>1. upTo(i) \in SUBSET S /\ i \in upTo(i)
    OBVIOUS
  <2> HIDE DEF upTo
  <2>2. IsFiniteSet(upTo(i)) /\ Cardinality(upTo(i)) <= N
    BY <2>1, FS_Subset
  <2>3. Cardinality(upTo(i)) \in Nat
    BY <2>2, FS_CardinalityType
  <2>4. Cardinality(upTo(i)) # 0
    BY <2>1, <2>2, FS_EmptySet
  <2>5. QED
    BY <2>2, <2>3, <2>4
<1>3. ASSUME NEW i \in S, NEW k \in S, i < k
      PROVE  Cardinality(upTo(i)) # Cardinality(upTo(k))
  <2>0. \A j \in S : j \in Nat /\ (j <= i => j <= k)
    BY <1>3
  <2>a. k \in upTo(k) /\ k \notin upTo(i)
    BY <1>3
  <2>b. \A j \in upTo(i) : j \in upTo(k)
    BY <2>0
  <2>1. upTo(i) \in SUBSET upTo(k) /\ k \in upTo(k) /\ k \notin upTo(i)
    <3> HIDE DEF upTo
    <3>1. QED
      BY <2>a, <2>b
  <2>2. IsFiniteSet(upTo(k))
    BY <1>2
  <2> HIDE DEF upTo
  <2>3. Cardinality(upTo(i)) = Cardinality(upTo(k)) => upTo(k) = upTo(i)
    BY <2>1, <2>2, FS_Subset
  <2>4. QED
    BY <2>1, <2>3
<1> HIDE DEF upTo, N
<1>4. rank \in [S -> 1 .. N]
  BY <1>1, <1>2
<1>5. \A i, k \in S : rank[i] = rank[k] => i = k
  <2> SUFFICES ASSUME NEW i \in S, NEW k \in S, rank[i] = rank[k], i # k PROVE FALSE
    OBVIOUS
  <2>1. i < k \/ k < i
    OBVIOUS
  <2>2. QED
    BY <1>3, <2>1
<1> HIDE DEF rank
<1>6. rank \in Injection(S, 1 .. N)
  BY <1>4, <1>5 DEF Injection, IsInjective
<1>7. IsFiniteSet(1 .. N) /\ Cardinality(1 .. N) = N
  BY <1>1, FS_Interval
<1>8. rank \in Surjection(S, 1 .. N)
  BY <1>6, <1>7, FS_Injection DEF N
<1>9. PICK i \in S : rank[i] = n
  BY <1>8 DEF Surjection, N
<1>10. QED
  BY <1>9 DEF rank, upTo

LEMMA RetainedTypes ==
    ASSUME StripTyped, NEW drop
    PROVE  Retained(drop) \in Seq(Listing)
<1> DEFINE kept == {i \in 1 .. Len(segments) : segments[i] \notin drop}
           Nth(n) == CHOOSE i \in kept : Cardinality({j \in kept : j <= i}) = n
<1>1. segments \in Seq(Listing) /\ Len(segments) \in Nat
  BY DEF StripTyped
<1>2. kept \in SUBSET (1 .. Len(segments)) /\ IsFiniteSet(1 .. Len(segments))
  BY <1>1, FS_Interval
<1> HIDE DEF kept
<1>3. IsFiniteSet(kept) /\ kept \in SUBSET Nat
  <2>1. \A i \in 1 .. Len(segments) : i \in Nat
    BY <1>1
  <2>2. QED
    BY <1>2, <2>1, FS_Subset
<1>4. Cardinality(kept) \in Nat
  BY <1>3, FS_CardinalityType
<1>5. \A n \in 1 .. Cardinality(kept) : \E i \in kept : Cardinality({j \in kept : j <= i}) = n
  BY <1>3, EveryRank
<1>6. \A n \in 1 .. Cardinality(kept) : Nth(n) \in kept
  BY <1>5
<1> HIDE DEF Nth
<1>7. \A i \in kept : segments[i] \in Listing
  BY <1>1, <1>2, ElementOfSeq
<1>8. [n \in 1 .. Cardinality(kept) |-> segments[Nth(n)]] \in Seq(Listing)
  BY <1>4, <1>6, <1>7
<1>9. QED
  BY <1>8 DEF Retained, kept, Nth

(* Of an unbroken strip the chapters near one of it stay.                   *)
LEMMA RetainedRun ==
    ASSUME StripTyped, \A i, j \in 1 .. Len(segments) : segments[j] - segments[i] = j - i,
           NEW c \in Range(segments)
    PROVE  \E lo, hi \in 1 .. Len(segments) :
              /\ Len(Retained(Distant(c))) = hi - lo + 1
              /\ \A n \in 1 .. hi - lo + 1 : Retained(Distant(c))[n] = segments[lo + n - 1]
              /\ lo <= At(c) /\ At(c) <= hi /\ At(c) \in 1 .. Len(segments)
              /\ segments[At(c)] = c
              /\ \A i \in 1 .. Len(segments) : segments[i] \in Distant(c) <=> i < lo \/ i > hi
<1> DEFINE L == Len(segments)
           D == Distant(c)
<1>1. L \in Nat /\ \A i \in 1 .. L : segments[i] \in Nat
  <2>1. segments \in Seq(Listing)
    BY DEF StripTyped
  <2>2. \A i \in 1 .. L : segments[i] \in Listing
    BY <2>1, ElementOfSeq
  <2>3. QED
    BY <2>1, <2>2
<1>2. PICK a \in 1 .. L : segments[a] = c
  <2>1. DOMAIN segments = 1 .. L
    BY DEF StripTyped
  <2>2. \E a \in DOMAIN segments : segments[a] = c
    BY Zenon DEF Range
  <2>3. QED
    BY <2>1, <2>2
<1>3. At(c) = a
  <2> DEFINE T == {i \in 1 .. L : segments[i] = c}
  <2>1. T = {a}
    BY <1>1, <1>2
  <2>2. Min(T) = a
    BY <1>1, <2>1 DEF Min
  <2>3. QED
    BY <2>2 DEF At
<1> DEFINE lo == IF a - StripReach >= 1 THEN a - StripReach ELSE 1
           hi == IF a + StripReach <= L THEN a + StripReach ELSE L
<1>4. /\ lo \in 1 .. L /\ hi \in 1 .. L /\ lo <= a /\ a <= hi
      /\ \A j \in 1 .. L : j < lo \/ j > hi <=> j < a - StripReach \/ j > a + StripReach
  BY <1>1, <1>2
<1> HIDE DEF lo, hi
<1>5. \A i \in 1 .. L : segments[i] \in D <=> i < lo \/ i > hi
  <2>1. D = {segments[i] : i \in {j \in 1 .. L : j < a - StripReach \/ j > a + StripReach}}
    BY <1>3 DEF Distant
  <2>2. \A i, j \in 1 .. L : segments[i] = segments[j] => i = j
    BY <1>1
  <2> HIDE DEF D
  <2>3. QED
    BY <1>4, <2>1, <2>2
<1> HIDE DEF D
<1> DEFINE kept == {i \in 1 .. L : segments[i] \notin D}
           Rank(i) == Cardinality({j \in kept : j <= i})
           Nth(n) == CHOOSE i \in kept : Rank(i) = n
<1>i. lo \in Nat /\ hi \in Nat /\ lo <= hi /\ 1 <= lo /\ hi <= L
  BY <1>1, <1>4
<1>6. kept = lo .. hi
  <2>1. \A i \in 1 .. L : segments[i] \notin D <=> i \in lo .. hi
    BY <1>1, <1>5, <1>i
  <2>2. lo .. hi \subseteq 1 .. L
    BY <1>1, <1>i
  <2>3. QED
    BY <2>1, <2>2
<1> HIDE DEF kept
<1>7. Cardinality(kept) = hi - lo + 1
  BY <1>6, <1>i, FS_Interval
<1>8. ASSUME NEW i \in kept PROVE Rank(i) = i - lo + 1
  <2>0. i \in Nat /\ lo <= i /\ i <= hi
    BY <1>6, <1>8, <1>i
  <2>1. {j \in kept : j <= i} = lo .. i
    BY <1>6, <1>i, <2>0
  <2>2. Cardinality(lo .. i) = i - lo + 1
    BY <1>i, <2>0, FS_Interval
  <2>3. QED
    BY <2>1, <2>2
<1>10. Retained(D) = [n \in 1 .. Cardinality(kept) |-> segments[Nth(n)]]
  BY DEF Retained, kept, Nth, Rank
<1> HIDE DEF Rank
<1>9. ASSUME NEW n \in 1 .. hi - lo + 1 PROVE Nth(n) = lo + n - 1
  <2>1. lo + n - 1 \in kept
    BY <1>6, <1>9, <1>i
  <2>2. \A i \in kept : Rank(i) = n <=> i = lo + n - 1
    BY <1>6, <1>8, <1>9, <1>i
  <2>3. QED
    BY <2>1, <2>2
<1> HIDE DEF Nth
<1>11. /\ Len(Retained(D)) = hi - lo + 1
       /\ \A n \in 1 .. hi - lo + 1 : Retained(D)[n] = segments[lo + n - 1]
  <2>1. hi - lo + 1 \in Nat
    BY <1>1, <1>4
  <2>2. Retained(D) = [n \in 1 .. hi - lo + 1 |-> segments[Nth(n)]]
    BY <1>7, <1>10
  <2>3. QED
    BY <1>9, <2>1, <2>2
<1>12. QED
  BY <1>2, <1>3, <1>4, <1>5, <1>11 DEF D

LEMMA EndsAre ==
    ASSUME StripTyped, segments # <<>>
    PROVE  /\ Len(segments) \in Nat \ {0} /\ \A i \in 1 .. Len(segments) : segments[i] \in Listing
           /\ End("next") = segments[Len(segments)] /\ End("prev") = segments[1]
<1>1. segments \in Seq(Listing)
  BY DEF StripTyped
<1>2. Len(segments) \in Nat \ {0}
  BY <1>1
<1>3. \A i \in 1 .. Len(segments) : segments[i] \in Listing
  BY <1>1, ElementOfSeq
<1>4. QED
  BY <1>1, <1>2, <1>3 DEF End, Last

LEMMA GrownIs ==
    ASSUME StripTyped, NEW side \in {"prev", "next"}, NEW c \in Listing
    PROVE  /\ Grown(side, c) \in Seq(Listing) /\ Len(Grown(side, c)) = Len(segments) + 1
           /\ side = "next" => /\ \A i \in 1 .. Len(segments) : Grown(side, c)[i] = segments[i]
                               /\ Grown(side, c)[Len(segments) + 1] = c
           /\ side = "prev" => /\ \A i \in 1 .. Len(segments) : Grown(side, c)[i + 1] = segments[i]
                               /\ Grown(side, c)[1] = c
<1>1. segments \in Seq(Listing) /\ Len(segments) \in Nat
  BY DEF StripTyped
<1>2. CASE side = "next"
  <2>1. Grown(side, c) = Append(segments, c)
    BY <1>2 DEF Grown
  <2>2. /\ Append(segments, c) \in Seq(Listing) /\ Len(Append(segments, c)) = Len(segments) + 1
        /\ \A i \in 1 .. Len(segments) : Append(segments, c)[i] = segments[i]
        /\ Append(segments, c)[Len(segments) + 1] = c
    BY <1>1, AppendProperties
  <2>3. QED
    BY <1>2, <2>1, <2>2
<1>3. CASE side = "prev"
  <2>1. Grown(side, c) = <<c>> \o segments
    BY <1>3 DEF Grown
  <2>2. <<c>> \in Seq(Listing) /\ Len(<<c>>) = 1 /\ <<c>>[1] = c
    OBVIOUS
  <2> DEFINE s == <<c>>
  <2> HIDE DEF s
  <2>3. /\ s \o segments \in Seq(Listing) /\ Len(s \o segments) = Len(s) + Len(segments)
        /\ \A i \in 1 .. Len(s) + Len(segments) : (s \o segments)[i] =
              IF i <= Len(s) THEN s[i] ELSE segments[i - Len(s)]
    BY <1>1, <2>2, ConcatProperties DEF s
  <2>4. Len(s) = 1 /\ s[1] = c /\ Grown(side, c) = s \o segments
    BY <2>1, <2>2 DEF s
  <2>5. /\ Grown(side, c) \in Seq(Listing) /\ Len(Grown(side, c)) = 1 + Len(segments)
        /\ \A i \in 1 .. 1 + Len(segments) : Grown(side, c)[i] =
              IF i <= 1 THEN c ELSE segments[i - 1]
    BY <1>1, <2>3, <2>4
  <2>6. ASSUME NEW i \in 1 .. Len(segments) PROVE Grown(side, c)[i + 1] = segments[i]
    <3>1. i + 1 \in 1 .. 1 + Len(segments) /\ ~(i + 1 <= 1) /\ (i + 1) - 1 = i
      BY <1>1
    <3>2. QED
      BY <2>5, <3>1
  <2>7. Grown(side, c)[1] = c
    <3>1. 1 \in 1 .. 1 + Len(segments)
      BY <1>1
    <3>2. QED
      BY <2>5, <3>1
  <2>8. QED
    BY <1>1, <1>3, <2>5, <2>6, <2>7
<1>4. QED
  BY <1>2, <1>3

(* A chapter is put at an end: the strip stays unbroken, the other end too. *)
LEMMA GrowKeeps ==
    ASSUME StripTyped, Unbroken, segments # <<>>, NEW side \in {"prev", "next"},
           NEW c \in Listing, c = Beyond(side),
           segments' = Grown(side, c), current' = current
    PROVE  /\ segments' \in Seq(Listing) /\ segments' # <<>> /\ Unbroken'
           /\ \A other \in {"prev", "next"} \ {side} : Beyond(other)' = Beyond(other)
<1> DEFINE L == Len(segments)
           t == Grown(side, c)
<1>1. /\ L \in Nat \ {0} /\ \A i \in 1 .. L : segments[i] \in Nat
      /\ End("next") = segments[L] /\ End("prev") = segments[1]
  BY EndsAre
<1>2. /\ t \in Seq(Listing) /\ Len(t) = L + 1
      /\ side = "next" => (\A i \in 1 .. L : t[i] = segments[i]) /\ t[L + 1] = c
      /\ side = "prev" => (\A i \in 1 .. L : t[i + 1] = segments[i]) /\ t[1] = c
  BY GrownIs
<1>3. \A i, j \in 1 .. L : segments[j] - segments[i] = j - i
  BY DEF Unbroken
<1> HIDE DEF L, t
<1>4. /\ \A i, j \in 1 .. Len(t) : t[j] - t[i] = j - i
      /\ \E i \in 1 .. Len(t) : t[i] = current
  <2>1. PICK n \in 1 .. L : segments[n] = current
    BY DEF Unbroken, L
  <2>a. \A i \in 1 .. L : segments[i] = segments[1] + i - 1
    <3>1. 1 \in 1 .. L
      BY <1>1
    <3>2. ASSUME NEW i \in 1 .. L PROVE segments[i] = segments[1] + i - 1
      <4>1. segments[i] - segments[1] = i - 1 /\ segments[i] \in Nat /\ segments[1] \in Nat
        BY <1>1, <1>3, <3>1
      <4>2. QED
        BY <1>1, <4>1
    <3>3. QED
      BY <3>2
  <2>b. L \in 1 .. L /\ 1 \in 1 .. L /\ segments[1] \in Nat
    BY <1>1
  <2>2. CASE side = "next"
    <3>1. c = segments[L] + 1
      BY <1>1, <2>2 DEF Beyond
    <3>2. \A i \in 1 .. L + 1 : t[i] = segments[1] + i - 1
      <4> SUFFICES ASSUME NEW i \in 1 .. L + 1 PROVE t[i] = segments[1] + i - 1
        OBVIOUS
      <4>1. CASE i = L + 1
        BY <1>1, <1>2, <2>2, <2>a, <2>b, <3>1, <4>1, SMTT(30)
      <4>2. CASE i # L + 1
        <5>1. i \in 1 .. L
          BY <1>1, <4>2
        <5>2. QED
          BY <1>2, <2>2, <2>a, <5>1
      <4>3. QED
        BY <4>1, <4>2
    <3>3. t[n] = current /\ n \in 1 .. L + 1
      BY <1>1, <1>2, <2>1, <2>2
    <3>4. \A i, j \in 1 .. L + 1 : t[j] - t[i] = j - i
      BY <1>1, <2>b, <3>2
    <3>5. QED
      BY <1>2, <3>3, <3>4
  <2>3. CASE side = "prev"
    <3>1. c = segments[1] - 1
      BY <1>1, <2>3 DEF Beyond
    <3>3. \A i \in 1 .. L + 1 : t[i] = c + i - 1
      <4> SUFFICES ASSUME NEW i \in 1 .. L + 1 PROVE t[i] = c + i - 1
        OBVIOUS
      <4>1. CASE i = 1
        BY <1>2, <2>3, <3>1, <4>1
      <4>2. CASE i # 1
        <5>1. i - 1 \in 1 .. L
          BY <1>1, <4>2
        <5>2. t[(i - 1) + 1] = segments[i - 1] /\ (i - 1) + 1 = i
          BY <1>2, <2>3, <5>1, SMTT(30)
        <5>3. QED
          BY <1>1, <2>a, <2>b, <3>1, <5>1, <5>2
      <4>3. QED
        BY <4>1, <4>2
    <3>4. t[n + 1] = current /\ n + 1 \in 1 .. L + 1
      BY <1>1, <1>2, <2>1, <2>3, SMTT(30)
    <3>5. \A i, j \in 1 .. L + 1 : t[j] - t[i] = j - i
      BY <1>1, <2>b, <3>1, <3>3
    <3>6. QED
      BY <1>2, <3>4, <3>5
  <2>4. QED
    BY <2>2, <2>3
<1>5. segments' = t /\ segments' # <<>>
  BY <1>1, <1>2 DEF t
<1>6. Unbroken'
  BY <1>4, <1>5 DEF Unbroken
<1>7. ASSUME NEW other \in {"prev", "next"}, other # side
      PROVE  Beyond(other)' = Beyond(other)
  <2>1. End(other)' = End(other)
    <3>1. End("next")' = t[L + 1] /\ End("prev")' = t[1]
      BY <1>1, <1>2, <1>5 DEF End, Last
    <3>2. CASE side = "next"
      BY <1>1, <1>2, <1>7, <3>1, <3>2
    <3>3. CASE side = "prev"
      BY <1>1, <1>2, <1>7, <3>1, <3>3
    <3>4. QED
      BY <3>2, <3>3
  <2>2. QED
    BY <2>1 DEF Beyond
<1>8. QED
  BY <1>2, <1>5, <1>6, <1>7

(* Steps that leave the strip alone. *)
LEMMA StripLeft ==
    ASSUME StripIndInv, UNCHANGED <<mode, strip, overtaken>>,
           reader'.strip = reader.strip,
           reader'.pages # reader.pages => reader.pages # "known" /\ reader'.pages # "known",
           reported' \in {<<>>} \cup (Listing \X Nat)
    PROVE  StripIndInv'
<1>1. UNCHANGED <<mode, current, segments, counts, loads, overtaken>>
  BY DEF strip
<1>2. QED
  BY <1>1 DEF StripIndInv, StripTyped, StripOfKnown, Unbroken, LoadsAtEnds, Beyond, End

LEMMA EmptyStrip ==
    ASSUME segments' = <<>>, counts' = {}, loads' = {}, reported' = <<>>, overtaken' = FALSE
    PROVE  StripIndInv'
<1>1. Len(segments') = 0
  OBVIOUS
<1>2. Unbroken'
  BY <1>1 DEF Unbroken
<1>3. StripTyped'
  <2>1. segments' \in Seq(Listing) /\ counts' \subseteq Listing /\ loads' \subseteq Load
    OBVIOUS
  <2>2. reported' \in {<<>>} \cup (Listing \X Nat) /\ overtaken' \in BOOLEAN
    OBVIOUS
  <2>3. QED
    BY <2>1, <2>2 DEF StripTyped
<1>4. QED
  BY <1>2, <1>3 DEF StripIndInv, StripOfKnown, LoadsAtEnds

LEMMA RerouteStrip ==
    ASSUME StripIndInv, NEW c, NEW n, NEW end, Reroute(c, n, end),
           c # reader.chapter \/ mode' = mode
    PROVE  StripIndInv'
<1>1. CASE c = reader.chapter
  <2>1. UNCHANGED <<reader, mode, strip, reported, overtaken>>
    BY <1>1 DEF Reroute
  <2>2. reported' \in {<<>>} \cup (Listing \X Nat)
    BY <2>1 DEF StripIndInv, StripTyped
  <2>3. /\ UNCHANGED <<mode, strip, overtaken>> /\ reader'.strip = reader.strip
        /\ reader'.pages = reader.pages
    BY <2>1
  <2>4. QED
    BY <2>2, <2>3, StripLeft
<1>2. CASE c # reader.chapter
  BY <1>2, EmptyStrip DEF Reroute
<1>3. QED
  BY <1>1, <1>2

LEMMA NewStripKeeps ==
    ASSUME StripIndInv, reader \in ReaderSet, NewStrip,
           current' = current, segments = <<>> => current = reader.chapter,
           UNCHANGED <<loads, overtaken>>, ~overtaken => loads = {},
           reported' \in {<<>>} \cup (Listing \X Nat)
    PROVE  StripIndInv'
<1> USE DEF StripIndInv
<1>1. /\ reader' = [reader EXCEPT !.strip = reader.strip + 1, !.pages = "known"]
      /\ segments' = IF segments = <<>> THEN <<reader.chapter>> ELSE segments
      /\ counts' = counts \cup {reader.chapter}
  BY DEF NewStrip
<1>2. reader.strip \in Nat /\ reader.chapter \in Listing
  BY DEF ReaderSet
<1>3. reader'.strip = reader.strip + 1 /\ reader'.pages = "known"
  BY <1>1 DEF ReaderSet
<1>4. segments' \in Seq(Listing)
  <2>1. <<reader.chapter>> \in Seq(Listing)
    BY <1>2
  <2>2. QED
    BY <1>1, <2>1 DEF StripTyped
<1>5. StripTyped'
  BY <1>1, <1>2, <1>4 DEF StripTyped
<1>6. StripOfKnown'
  BY <1>2, <1>3 DEF StripOfKnown
<1>7. ~overtaken => Unbroken'
  <2>1. CASE segments = <<>>
    <3>1. Len(segments') = 1 /\ segments'[1] = current'
      BY <1>1, <2>1
    <3>2. current' \in Nat
      BY <1>2, <2>1
    <3>3. QED
      BY <3>1, <3>2 DEF Unbroken
  <2>2. CASE segments # <<>>
    BY <1>1, <2>2 DEF Unbroken
  <2>3. QED
    BY <2>1, <2>2
<1>8. QED
  BY <1>5, <1>6, <1>7 DEF LoadsAtEnds

LEMMA PagesArriveStrip ==
    ASSUME ReaderIndInv, ReaderIndInv', StripIndInv, PagesArrive
    PROVE  StripIndInv'
<1>1. reader.pages = "loading" /\ current = reader.chapter /\ segments = <<>> /\ loads = {}
  BY DEF PagesArrive, ReaderIndInv, WaitsUntouched, StripIndInv, StripOfKnown
<1>2. UNCHANGED <<mode, current, loads, overtaken>> /\ reported' = <<reader.chapter, page'>>
  BY DEF PagesArrive
<1>3. reader \in ReaderSet /\ page' \in Nat
  BY DEF ReaderIndInv, ReaderTyped
<1>4. reported' \in {<<>>} \cup (Listing \X Nat)
  <2>1. reader.chapter \in Listing
    BY <1>3 DEF ReaderSet
  <2>2. QED
    BY <1>2, <1>3, <2>1
<1>5. CASE NewStrip
  BY <1>1, <1>2, <1>3, <1>4, <1>5, NewStripKeeps
<1>6. CASE reader' = [reader EXCEPT !.pages = "known"] /\ UNCHANGED <<segments, counts>>
  BY <1>1, <1>2, <1>4, <1>6
  DEF StripIndInv, StripTyped, StripOfKnown, Unbroken, LoadsAtEnds
<1>7. QED
  BY <1>5, <1>6 DEF PagesArrive

LEMMA ToggleStrip ==
    ASSUME ReaderIndInv, StripIndInv, ToggleMode
    PROVE  StripIndInv'
<1>t. /\ reader \in ReaderSet /\ reported \in {<<>>} \cup (Listing \X Nat)
  BY DEF ReaderIndInv, ReaderTyped, StripIndInv, StripTyped
<1>1. CASE /\ mode = "paged" /\ mode' = "vertical"
           /\ IF Count > 0 THEN reader.strip < MaxToggles /\ NewStrip
              ELSE UNCHANGED <<reader, segments, counts>>
           /\ UNCHANGED <<page, track, current, loads, reported, strayed, overtaken>>
  <2>1. current = reader.chapter /\ (~overtaken => loads = {})
    BY <1>1 DEF ReaderIndInv, PagedIsRouted, StripIndInv, LoadsAtEnds
  <2>2. CASE NewStrip
    BY <1>1, <1>t, <2>1, <2>2, NewStripKeeps
  <2>3. CASE UNCHANGED <<reader, segments, counts>>
    BY <1>1, <1>t, <2>1, <2>3
    DEF StripIndInv, StripTyped, StripOfKnown, Unbroken, LoadsAtEnds
  <2>4. QED
    BY <1>1, <2>2, <2>3
<1>2. CASE current # reader.chapter /\ Reroute(current, page, FALSE)
  BY <1>2, RerouteStrip
<1>3. CASE /\ overtaken' = (overtaken \/ loads # {})
           /\ UNCHANGED <<reader, page, track, strip, reported, strayed>>
  <2>1. UNCHANGED <<reader, current, segments, counts, loads, reported>>
    BY <1>3 DEF strip
  <2>2. (overtaken \/ loads # {}) \in BOOLEAN
    OBVIOUS
  <2>3. overtaken' \in BOOLEAN
    BY <1>3, <2>2, Zenon
  <2>4. ~overtaken' => ~overtaken /\ loads = {}
    BY <1>3
  <2>5. QED
    BY <2>1, <2>3, <2>4 DEF StripIndInv, StripTyped, StripOfKnown, Unbroken, LoadsAtEnds
<1>4. QED
  BY <1>1, <1>2, <1>3 DEF ToggleMode

(* What a grown strip does to the loads of the other side. *)
LEMMA OthersAtTheirEnds ==
    ASSUME StripIndInv, ~overtaken, NEW side \in {"prev", "next"},
           \A other \in {"prev", "next"} \ {side} : Beyond(other)' = Beyond(other),
           segments' # <<>>, UNCHANGED <<reader, mode>>,
           loads' \subseteq loads, \A l \in loads' : l.side # side
    PROVE  LoadsAtEnds'
<1>1. \A l \in loads : l.side \in {"prev", "next"}
  BY DEF StripIndInv, StripTyped, Load
<1>2. QED
  BY <1>1 DEF StripIndInv, LoadsAtEnds

LEMMA ExtendStrip ==
    ASSUME StripIndInv, NEW side \in {"prev", "next"}, Extend(side), reader \in ReaderSet
    PROVE  StripIndInv'
<1> USE DEF StripIndInv
<1> DEFINE c == Beyond(side)
           l == [side |-> side, chapter |-> c, strip |-> reader.strip]
<1>1. /\ mode = "vertical" /\ segments # <<>> /\ c \in Listing /\ ~Loading(side)
      /\ UNCHANGED <<reader, mode, current, reported, overtaken>>
      /\ \/ segments' = Grown(side, c) /\ counts' = counts \cup {c} /\ UNCHANGED loads
         \/ loads' = loads \cup {l} /\ UNCHANGED <<segments, counts>>
  BY DEF Extend, Beyond
<1>2. reader.pages = "known" /\ reader.strip > 0 /\ reader.strip \in 1 .. MaxToggles
  BY <1>1 DEF StripOfKnown, ReaderSet
<1> HIDE DEF c
<1>3. l \in Load /\ l.side = side /\ l.chapter = c /\ l.strip = reader.strip
  BY <1>1, <1>2 DEF Load
<1> HIDE DEF l
<1>4. CASE segments' = Grown(side, c) /\ counts' = counts \cup {c} /\ UNCHANGED loads
  <2>1. segments' \in Seq(Listing)
    BY <1>1, <1>4, GrownIs
  <2>2. StripTyped' /\ StripOfKnown'
    BY <1>1, <1>2, <1>4, <2>1 DEF StripTyped, StripOfKnown
  <2>3. ASSUME ~overtaken PROVE Unbroken' /\ LoadsAtEnds'
    <3>1. /\ segments' # <<>> /\ Unbroken'
          /\ \A other \in {"prev", "next"} \ {side} : Beyond(other)' = Beyond(other)
      BY <1>1, <1>4, <2>3, GrowKeeps DEF c
    <3>2. \A m \in loads' : m.side # side
      BY <1>1, <1>4, <2>3 DEF Loading, LoadsAtEnds
    <3>3. QED
      BY <1>1, <1>4, <2>3, <3>1, <3>2, OthersAtTheirEnds
  <2>4. QED
    BY <1>1, <2>2, <2>3
<1>5. CASE loads' = loads \cup {l} /\ UNCHANGED <<segments, counts>>
  <2>1. StripTyped' /\ StripOfKnown'
    BY <1>1, <1>2, <1>3, <1>5 DEF StripTyped, StripOfKnown
  <2>2. \A s \in {"prev", "next"} : Beyond(s)' = Beyond(s)
    BY <1>5 DEF Beyond, End
  <2>3. ASSUME ~overtaken PROVE Unbroken' /\ LoadsAtEnds'
    <3>1. Unbroken'
      BY <1>1, <1>5, <2>3 DEF Unbroken
    <3>2. \A m \in loads : m.side \in {"prev", "next"}
      BY DEF StripTyped, Load
    <3>3. LoadsAtEnds'
      BY <1>1, <1>3, <1>5, <2>2, <2>3, <3>2 DEF LoadsAtEnds, c
    <3>4. QED
      BY <3>1, <3>3
  <2>4. QED
    BY <1>1, <2>1, <2>3
<1>6. QED
  BY <1>1, <1>4, <1>5

LEMMA LoadDoneStrip ==
    ASSUME StripIndInv, NEW l \in loads, LoadDone(l)
    PROVE  StripIndInv'
<1> USE DEF StripIndInv
<1>1. /\ loads' = loads \ {l} /\ UNCHANGED <<reader, mode, current, reported, overtaken>>
      /\ \/ UNCHANGED <<segments, counts>>
         \/ segments' = Grown(l.side, l.chapter) /\ counts' = counts \cup {l.chapter}
  BY DEF LoadDone
<1>2. l \in Load /\ l.side \in {"prev", "next"} /\ l.chapter \in Listing /\ reader.pages = "known"
  BY DEF StripTyped, Load, StripOfKnown
<1>3. CASE UNCHANGED <<segments, counts>>
  BY <1>1, <1>3 DEF StripTyped, StripOfKnown, Unbroken, LoadsAtEnds, Beyond, End
<1>4. CASE segments' = Grown(l.side, l.chapter) /\ counts' = counts \cup {l.chapter}
  <2>1. segments' \in Seq(Listing)
    BY <1>2, <1>4, GrownIs
  <2>2. StripTyped'
    BY <1>1, <1>2, <1>4, <2>1 DEF StripTyped
  <2>3. StripOfKnown'
    BY <1>1, <1>2 DEF StripOfKnown
  <2>4. ASSUME ~overtaken PROVE Unbroken' /\ LoadsAtEnds'
    <3>1. segments # <<>> /\ l.chapter = Beyond(l.side)
      BY <2>4 DEF LoadsAtEnds
    <3>2. /\ segments' # <<>> /\ Unbroken'
          /\ \A other \in {"prev", "next"} \ {l.side} : Beyond(other)' = Beyond(other)
      BY <1>1, <1>2, <1>4, <2>4, <3>1, GrowKeeps
    <3>3. ASSUME NEW m \in loads', m.side = l.side PROVE FALSE
      <4>1. m \in loads /\ m \in Load /\ m # l
        BY <1>1 DEF StripTyped
      <4>2. m.chapter = l.chapter /\ m.strip = l.strip
        BY <2>4, <3>1, <3>3, <4>1 DEF LoadsAtEnds
      <4>3. /\ m = [side |-> m.side, chapter |-> m.chapter, strip |-> m.strip]
            /\ l = [side |-> l.side, chapter |-> l.chapter, strip |-> l.strip]
        BY <1>2, <4>1 DEF Load
      <4>4. QED
        BY <3>3, <4>1, <4>2, <4>3
    <3>4. QED
      BY <1>1, <1>2, <2>4, <3>2, <3>3, OthersAtTheirEnds
  <2>5. QED
    BY <1>1, <2>2, <2>3, <2>4
<1>5. QED
  BY <1>1, <1>3, <1>4

LEMMA ScrollStrip ==
    ASSUME StripIndInv, reader \in ReaderSet,
           NEW c \in Listing, NEW n \in 0 .. PagesIn[c] - 1, Scroll(c, n)
    PROVE  StripIndInv'
<1> USE DEF StripIndInv
<1> DEFINE D == Distant(c)
           cut == c # current /\ \E l \in loads : End(l.side) \in D
<1>1. /\ mode = "vertical" /\ Count > 0 /\ c \in Range(segments)
      /\ current' = c /\ reported' = <<c, n>>
      /\ segments' = IF c = current THEN segments ELSE Retained(D)
      /\ overtaken' = (overtaken \/ cut)
      /\ UNCHANGED <<reader, mode, counts, loads>>
  BY DEF Scroll
<1>2. (overtaken \/ cut) \in BOOLEAN /\ n \in Nat
  OBVIOUS
<1>3. overtaken' \in BOOLEAN /\ (~overtaken' => ~overtaken /\ ~cut)
  <2> HIDE DEF cut
  <2>1. overtaken' \in BOOLEAN
    BY <1>1, <1>2, Zenon
  <2>2. ~overtaken' => ~overtaken /\ ~cut
    BY <1>1
  <2>3. QED
    BY <2>1, <2>2
<1>4. segments # <<>>
  <2>1. segments \in Seq(Listing)
    BY DEF StripTyped
  <2>2. QED
    BY <1>1, <2>1 DEF Range
<1> HIDE DEF D
<1>5. segments' \in Seq(Listing)
  BY <1>1, RetainedTypes DEF StripTyped
<1>6. reported' \in {<<>>} \cup (Listing \X Nat)
  BY <1>1, <1>2
<1>7. StripTyped'
  BY <1>1, <1>3, <1>5, <1>6 DEF StripTyped
<1>8. StripOfKnown'
  BY <1>1, <1>4 DEF StripOfKnown
<1>9. CASE c = current
  <2>1. UNCHANGED <<segments, current>>
    BY <1>1, <1>9
  <2>2. ~overtaken' => Unbroken' /\ LoadsAtEnds'
    BY <1>1, <1>3, <2>1 DEF Unbroken, LoadsAtEnds, Beyond, End
  <2>3. QED
    BY <1>7, <1>8, <2>2
<1>10. CASE c # current
  <2> SUFFICES ASSUME ~overtaken' PROVE Unbroken' /\ LoadsAtEnds'
    BY <1>7, <1>8
  <2>1. ~overtaken /\ \A l \in loads : End(l.side) \notin D
    BY <1>3, <1>10
  <2>2. PICK lo, hi \in 1 .. Len(segments) :
              /\ Len(Retained(D)) = hi - lo + 1
              /\ \A i \in 1 .. hi - lo + 1 : Retained(D)[i] = segments[lo + i - 1]
              /\ lo <= At(c) /\ At(c) <= hi /\ At(c) \in 1 .. Len(segments)
              /\ segments[At(c)] = c
              /\ \A i \in 1 .. Len(segments) : segments[i] \in D <=> i < lo \/ i > hi
    BY <1>1, <2>1, RetainedRun DEF D, Unbroken
  <2>3. /\ Len(segments) \in Nat \ {0} /\ \A i \in 1 .. Len(segments) : segments[i] \in Nat
        /\ End("next") = segments[Len(segments)] /\ End("prev") = segments[1]
    BY <1>4, EndsAre
  <2> DEFINE m == hi - lo + 1
             L == Len(segments)
  <2>4. segments' = Retained(D)
    BY <1>1, <1>10
  <2>5. /\ m \in Nat \ {0} /\ Len(segments') = m
        /\ \A i \in 1 .. m : lo + i - 1 \in 1 .. L /\ segments'[i] = segments[lo + i - 1]
    BY <2>2, <2>3, <2>4, SMTT(30)
  <2> HIDE DEF L
  <2>6. \A i, j \in 1 .. m : segments'[j] - segments'[i] = j - i
    <3> SUFFICES ASSUME NEW i \in 1 .. m, NEW j \in 1 .. m
                 PROVE  segments'[j] - segments'[i] = j - i
      OBVIOUS
    <3>1. lo + i - 1 \in 1 .. L /\ lo + j - 1 \in 1 .. L
      BY <2>5
    <3>2. segments[lo + j - 1] - segments[lo + i - 1] = (lo + j - 1) - (lo + i - 1)
      BY <2>1, <3>1 DEF Unbroken, L
    <3>3. QED
      BY <2>2, <2>5, <3>2
  <2>7. \E i \in 1 .. m : segments'[i] = current'
    <3>1. At(c) - lo + 1 \in 1 .. m /\ lo + (At(c) - lo + 1) - 1 = At(c)
      BY <2>2, <2>3, SMTT(30)
    <3>2. QED
      BY <1>1, <2>2, <2>5, <3>1
  <2>8. segments' # <<>> /\ Unbroken'
    BY <2>5, <2>6, <2>7 DEF Unbroken
  <2>9. ASSUME NEW l \in loads PROVE Beyond(l.side)' = Beyond(l.side)
    <3>1. l.side \in {"prev", "next"}
      BY DEF StripTyped, Load
    <3>2. End(l.side) \notin D
      BY <2>1
    <3>3. End("next")' = segments'[m] /\ End("prev")' = segments'[1]
      BY <2>5 DEF End, Last
    <3>4. CASE l.side = "next"
      <4>1. hi = L
        BY <2>2, <2>3, <3>2, <3>4 DEF L
      <4>2. segments'[m] = segments[hi]
        BY <2>2, <2>3, <2>5
      <4>3. QED
        BY <2>3, <3>3, <3>4, <4>1, <4>2 DEF Beyond, L
    <3>5. CASE l.side = "prev"
      <4>1. lo = 1
        BY <2>2, <2>3, <3>2, <3>5 DEF L
      <4>2. segments'[1] = segments[1]
        BY <2>3, <2>5, <4>1
      <4>3. QED
        BY <2>3, <3>3, <3>5, <4>2 DEF Beyond
    <3>6. QED
      BY <3>1, <3>4, <3>5
  <2>10. LoadsAtEnds'
    BY <1>1, <2>1, <2>8, <2>9 DEF LoadsAtEnds
  <2>11. QED
    BY <2>8, <2>10
<1>11. QED
  BY <1>9, <1>10

LEMMA TurnStrip ==
    ASSUME StripIndInv, reader \in ReaderSet, NEW delta \in {-1, 1}, RequestTurn(delta)
    PROVE  StripIndInv'
<1>1. mode' = mode
  BY DEF RequestTurn
<1>2. CASE \E c, n, end : Reroute(c, n, end)
  BY <1>1, <1>2, RerouteStrip
<1>3. CASE UNCHANGED <<reader, strip, reported, overtaken>>
  BY <1>1, <1>3, StripLeft DEF StripIndInv, StripTyped
<1>4. QED
  BY <1>2, <1>3 DEF RequestTurn

LEMMA LandStrip ==
    ASSUME StripIndInv, ReaderIndInv, Land
    PROVE  StripIndInv'
<1>1. UNCHANGED <<reader, mode, strip, overtaken>>
  BY DEF Land
<1>2. reported' \in {<<>>} \cup (Listing \X Nat)
  <2>1. CASE reported' = reported
    BY <2>1 DEF StripIndInv, StripTyped
  <2>2. CASE OnPage(pos + snap) /\ reported' = <<reader.chapter, pos + snap>>
    <3>1. pos + snap \in Nat /\ reader.chapter \in Listing
      BY <2>2, CountWhenKnown DEF OnPage, ReaderIndInv, ReaderTyped, ReaderSet
    <3>2. QED
      BY <2>2, <3>1
  <2>3. QED
    BY <2>1, <2>2 DEF Land
<1>3. QED
  BY <1>1, <1>2, StripLeft
-----------------------------------------------------------------------------
LEMMA StripStepKeeps ==
    ReaderIndInv /\ ReaderIndInv' /\ StripIndInv /\ [ReaderNext]_readerVars => StripIndInv'
<1> SUFFICES ASSUME ReaderIndInv, ReaderIndInv', StripIndInv, [ReaderNext]_readerVars
             PROVE  StripIndInv'
  OBVIOUS
<1>t. reader \in ReaderSet /\ reported \in {<<>>} \cup (Listing \X Nat)
  BY DEF ReaderIndInv, ReaderTyped, StripIndInv, StripTyped
<1>1. CASE UNCHANGED <<reader, mode, strip, reported, overtaken>>
  BY <1>1, <1>t, StripLeft
<1>2. CASE PagesFail \/ DetailArrives
  <2>1. UNCHANGED <<mode, strip, reported, overtaken>>
    BY <1>2 DEF PagesFail, DetailArrives
  <2>2. /\ reader'.strip = reader.strip
        /\ reader'.pages # reader.pages => reader.pages # "known" /\ reader'.pages # "known"
    BY <1>2, <1>t DEF PagesFail, DetailArrives, ReaderSet
  <2>3. QED
    BY <1>t, <2>1, <2>2, StripLeft
<1>3. CASE TransitionEnd \/ TimerFires
  <2>1. Land \/ UNCHANGED <<reader, mode, strip, reported, overtaken>>
    BY <1>3 DEF TransitionEnd, TimerFires
  <2>2. QED
    BY <1>1, <2>1, LandStrip
<1>4. CASE \E c \in Listing : Jump(c)
  BY <1>4, RerouteStrip DEF Jump
<1>5. CASE \E c \in Listing : \E n \in 0 .. PagesIn[c] - 1 : Scroll(c, n)
  BY <1>5, <1>t, ScrollStrip
<1>6. CASE \E side \in {"prev", "next"} : Extend(side)
  BY <1>6, <1>t, ExtendStrip
<1>7. CASE \E l \in loads : LoadDone(l)
  BY <1>7, LoadDoneStrip
<1>8. CASE PagesArrive \/ ToggleMode
  BY <1>8, PagesArriveStrip, ToggleStrip
<1>9. CASE \E delta \in {-1, 1} : RequestTurn(delta)
  BY <1>9, <1>t, TurnStrip
<1>10. CASE SpringBack
  BY <1>1, <1>10 DEF SpringBack
<1>11. CASE UNCHANGED readerVars
  BY <1>1, <1>11 DEF readerVars
<1>12. QED
  BY <1>2, <1>3, <1>4, <1>5, <1>6, <1>7, <1>8, <1>9, <1>10, <1>11 DEF ReaderNext

LEMMA StripInit == ReaderInit => StripIndInv
<1> SUFFICES ASSUME ReaderInit PROVE StripIndInv
  OBVIOUS
<1>1. segments = <<>> /\ counts = {} /\ loads = {} /\ reported = <<>> /\ overtaken = FALSE
  BY DEF ReaderInit
<1>2. Len(segments) = 0 /\ segments \in Seq(Listing)
  BY <1>1
<1>3. StripTyped
  BY <1>1, <1>2 DEF StripTyped
<1>4. QED
  BY <1>1, <1>2, <1>3 DEF StripIndInv, StripOfKnown, Unbroken, LoadsAtEnds

LEMMA StripInvariant == ReaderSpec => []StripIndInv
BY StripInit, StripStepKeeps, ReaderSpecIndInv, PTL DEF ReaderSpec

(* The types of the comic reader's state. *)
THEOREM ReaderTypes == ReaderSpec => []ReaderTypeOK
<1>1. ReaderIndInv /\ StripIndInv => ReaderTypeOK
  BY DEF ReaderIndInv, ReaderTyped, ReaderSet, StripIndInv, StripTyped, ReaderTypeOK
<1>2. QED
  BY <1>1, ReaderSpecIndInv, StripInvariant, PTL

(* However the reader scrolls, and in whatever order the loads of both ends *)
(* come back, the strip skips no chapter and shows none twice, unless a     *)
(* load met an eviction or a switch of modes.                               *)
THEOREM StripStaysInOrder == ReaderSpec => []StripInOrder
<1>1. ASSUME StripIndInv PROVE StripInOrder
  <2> SUFFICES ASSUME segments # <<>>, ~overtaken
               PROVE  /\ \A i \in 1 .. Len(segments) - 1 : segments[i + 1] = segments[i] + 1
                      /\ \E i \in 1 .. Len(segments) : segments[i] = current
    BY DEF StripInOrder
  <2>1. Unbroken /\ StripTyped
    BY <1>1 DEF StripIndInv
  <2>2. /\ Len(segments) \in Nat \ {0}
        /\ \A i \in 1 .. Len(segments) : segments[i] \in Nat
    BY <2>1, EndsAre
  <2>3. ASSUME NEW i \in 1 .. Len(segments) - 1 PROVE segments[i + 1] = segments[i] + 1
    <3>1. i \in 1 .. Len(segments) /\ i + 1 \in 1 .. Len(segments)
      BY <2>2
    <3>2. segments[i + 1] - segments[i] = (i + 1) - i
      BY <2>1, <3>1 DEF Unbroken
    <3>3. segments[i + 1] \in Nat /\ segments[i] \in Nat
      BY <2>2, <3>1
    <3>4. QED
      BY <2>2, <3>2, <3>3
  <2>4. QED
    BY <2>1, <2>3 DEF Unbroken
<1>2. QED
  BY <1>1, StripInvariant, PTL
=============================================================================
