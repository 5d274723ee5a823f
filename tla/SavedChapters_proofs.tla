----------------------- MODULE SavedChapters_proofs -----------------------
(***************************************************************************)
(* Theorems about the two places where a device keeps chapters: the        *)
(* shell's store (DeviceChapters) and the browser's service worker         *)
(* (SavedPages), for any accounts, tabs and chapters of any length and any *)
(* number of wishes, saves, sign-ins and faults.                           *)
(*                                                                         *)
(* DeviceChapters: while only one save works on a chapter, its staging     *)
(* holds every page before the one it is at, so what it publishes is whole;*)
(* and at no point of a publication is the whole copy elsewhere than under *)
(* its name or set aside with nothing under the name, which is where the   *)
(* next start puts it back from.                                           *)
(*                                                                         *)
(* SavedPages: every cache has a name that carries its account, and a      *)
(* save's cache a number no manifest has yet. So what a command of one     *)
(* account deletes, whole or cut short, is never what another account's    *)
(* manifest names; and what a late answer writes is fenced to the cache of *)
(* the pending save of the account that the worker serves.                 *)
(***************************************************************************)
EXTENDS DeviceChapters, SavedPages, TLAPS

(* A save at rest has no page to write. *)
RestsAtZero == \A s \in Savers : saver[s].unit = "none" => saver[s].next = 0

(* Two saves of one chapter have been noticed. *)
OverlapIsDoubled ==
    \A s, t \in Savers :
        (s # t /\ saver[s].unit = saver[t].unit /\ saver[s].unit # "none")
        => saver[s].unit \in doubled

(* What a save has written is in its staging, unless the staging is gone.   *)
StagedSoFar ==
    \A s \in Savers :
        LET u == saver[s].unit
        IN  (u \in Saved \ doubled /\ saver[s].next # 0 /\ disk[u].partial # {})
            => 0 .. saver[s].next - 1 \subseteq disk[u].partial

DeviceIndInv ==
    /\ DeviceTypeOK
    /\ RestsAtZero
    /\ OverlapIsDoubled
    /\ StagedSoFar
    /\ MarkedIsStored
-----------------------------------------------------------------------------
USE DeviceAssumption DEF Savers, Whole

LEMMA DeviceInitIndInv == DeviceInit => DeviceIndInv
<1> SUFFICES ASSUME DeviceInit PROVE DeviceIndInv
  OBVIOUS
<1>1. DeviceTypeOK
  BY DEF DeviceInit, DeviceTypeOK, Disk, View, Save, NoSave, NotWalking
<1>2. RestsAtZero /\ OverlapIsDoubled /\ StagedSoFar /\ MarkedIsStored
  BY DEF DeviceInit, RestsAtZero, OverlapIsDoubled, StagedSoFar, MarkedIsStored, NoSave
<1>3. QED
  BY <1>1, <1>2 DEF DeviceIndInv

(* The steps of a publication keep the kinds of what they move.             *)
LEMMA PublicationTypes ==
    ASSUME NEW d \in Disk
    PROVE  /\ Recovered(d) \in Disk
           /\ BeforeLanding(d) \in Disk
           /\ Published(d) \in Disk
           /\ Landed(BeforeLanding(d)) \in Disk
<1>1. \A e \in Disk : Recovered(e) \in Disk /\ Cleared(e) \in Disk
                      /\ SetAside(e) \in Disk /\ Landed(e) \in Disk
  BY DEF Disk, Recovered, Cleared, SetAside, Landed
<1>2. BeforeLanding(d) \in Disk
  BY <1>1 DEF BeforeLanding
<1>3. QED
  BY <1>1, <1>2 DEF Published

(* A chapter that is whole under its name stays so over a start.            *)
LEMMA WholeSurvivesStart ==
    ASSUME NEW d \in Disk, d.dir = Whole
    PROVE  Recovered(d) = d
BY DEF Recovered

(* A publication of a whole staging lands it, cleared up or not.            *)
LEMMA LandingIsWhole ==
    ASSUME NEW d \in Disk, d.partial = Whole
    PROVE  /\ Published(d).dir = Whole
           /\ Landed(BeforeLanding(d)).dir = Whole
<1>1. \A e \in Disk : /\ Recovered(e).partial = e.partial
                      /\ Cleared(e).partial = e.partial
                      /\ SetAside(e).partial = e.partial
                      /\ Recovered(e) \in Disk /\ Cleared(e) \in Disk
                      /\ SetAside(e) \in Disk /\ Landed(e) \in Disk
                      /\ Landed(e).dir = e.partial
                      /\ Cleared(e).dir = e.dir
  BY DEF Disk, Recovered, Cleared, SetAside, Landed
<1>2. BeforeLanding(d) \in Disk /\ BeforeLanding(d).partial = Whole
  BY <1>1 DEF BeforeLanding
<1>3. QED
  BY <1>1, <1>2 DEF Published

(* A publication of a whole staging over a whole copy, cut anywhere: the    *)
(* next start has a whole copy under the name.                              *)
LEMMA CutShortIsWhole ==
    ASSUME NEW d \in Disk, NEW e \in CutShort(d)
    PROVE  /\ e \in Disk
           /\ (d.partial = Whole /\ d.dir = Whole) => Recovered(e).dir = Whole
<1>1. Recovered(d) \in Disk /\ BeforeLanding(d) \in Disk /\ Landed(BeforeLanding(d)) \in Disk
  BY PublicationTypes
<1>2. CASE e = Recovered(d)
  BY <1>1, <1>2, WholeSurvivesStart DEF Disk
<1>3. CASE e = BeforeLanding(d)
  <2>1. ASSUME d.partial = Whole, d.dir = Whole
        PROVE  Recovered(e).dir = Whole
    <3>1. Recovered(d) = d
      BY <2>1, WholeSurvivesStart
    <3>2. BeforeLanding(d) = SetAside(Cleared(d))
      BY <3>1 DEF BeforeLanding
    <3>3. Cleared(d) \in Disk /\ Cleared(d).dir = Whole
      BY <2>1 DEF Cleared, Disk
    <3>4. e \in Disk /\ e.dir = {} /\ e.old = Whole
      BY <1>3, <3>2, <3>3 DEF SetAside, Disk
    <3>5. QED
      BY <3>4 DEF Recovered, Disk
  <2>2. QED
    BY <1>1, <1>3, <2>1
<1>4. CASE \E p \in Torn(Recovered(d).old) : e = [Recovered(d) EXCEPT !.old = p]
  <2>1. PICK p \in Torn(Recovered(d).old) : e = [Recovered(d) EXCEPT !.old = p]
    BY <1>4
  <2>2. e \in Disk /\ e.dir = Recovered(d).dir
    BY <1>1, <2>1 DEF Disk, Torn
  <2>3. QED
    BY <2>2, WholeSurvivesStart
<1>5. CASE \E p \in Torn(BeforeLanding(d).old) :
              e = [Landed(BeforeLanding(d)) EXCEPT !.old = p]
  <2>1. PICK p \in Torn(BeforeLanding(d).old) : e = [Landed(BeforeLanding(d)) EXCEPT !.old = p]
    BY <1>5
  <2>2. e \in Disk /\ e.dir = Landed(BeforeLanding(d)).dir
    BY <1>1, <2>1 DEF Disk, Torn
  <2>3. QED
    BY <2>2, LandingIsWhole, WholeSurvivesStart
<1>6. QED
  BY <1>2, <1>3, <1>4, <1>5 DEF CutShort

(* A save that is past the last page of a chapter it has alone has staged   *)
(* all of it.                                                               *)
LEMMA PastTheEndIsWhole ==
    ASSUME DeviceIndInv, NEW s \in Savers, saver[s].next > PageCount
    PROVE  /\ saver[s].unit \in Saved
           /\ disk[saver[s].unit] \in Disk
           /\ (saver[s].unit \notin doubled /\ disk[saver[s].unit].partial # {})
              => disk[saver[s].unit].partial = Whole
<1>1. saver[s] \in Save
  BY DEF DeviceIndInv, DeviceTypeOK
<1>2. saver[s].unit \in Saved /\ saver[s].next = PageCount + 1
  BY <1>1 DEF Save, DeviceIndInv, RestsAtZero
<1>3. disk[saver[s].unit] \in Disk
  BY <1>2 DEF DeviceIndInv, DeviceTypeOK
<1>4. ASSUME saver[s].unit \notin doubled, disk[saver[s].unit].partial # {}
      PROVE  disk[saver[s].unit].partial = Whole
  <2>1. 0 .. PageCount \subseteq disk[saver[s].unit].partial
    <3>1. 0 .. saver[s].next - 1 \subseteq disk[saver[s].unit].partial
      BY <1>2, <1>4 DEF DeviceIndInv, StagedSoFar
    <3>2. saver[s].next - 1 = PageCount
      BY <1>2
    <3>3. QED
      BY <3>1, <3>2
  <2>2. disk[saver[s].unit].partial \subseteq 0 .. PageCount
    BY <1>3 DEF Disk
  <2>3. QED
    BY <2>1, <2>2
<1>5. QED
  BY <1>2, <1>3, <1>4
-----------------------------------------------------------------------------
(* Steps that leave the directories, the marks and the saves alone.         *)
LEMMA QuietKeeps ==
    ASSUME DeviceIndInv, DeviceTypeOK', saver' = saver, disk' = disk,
           marks' = marks, doubled' = doubled, cut' = cut
    PROVE  DeviceIndInv'
<1>1. RestsAtZero' /\ OverlapIsDoubled'
  BY DEF DeviceIndInv, RestsAtZero, OverlapIsDoubled
<1>2. StagedSoFar' /\ MarkedIsStored'
  BY DEF DeviceIndInv, StagedSoFar, MarkedIsStored
<1>3. QED
  BY <1>1, <1>2 DEF DeviceIndInv

LEMMA WishesKeep ==
    ASSUME DeviceIndInv, NEW u \in Saved,
           Enqueue(u) \/ CancelSave(u) \/ ServerMoves(u) \/ AskServer(u)
    PROVE  DeviceIndInv'
<1> USE DEF DeviceIndInv
<1>1. CASE Enqueue(u)
  <2>1. DeviceTypeOK'
    BY <1>1 DEF Enqueue, DeviceWish, memory, DeviceTypeOK
  <2>2. QED
    BY <1>1, <2>1, QuietKeeps DEF Enqueue, memory
<1>2. CASE CancelSave(u)
  <2>1. DeviceTypeOK'
    BY <1>2 DEF CancelSave, DeviceWish, DeviceTypeOK
  <2>2. QED
    BY <1>2, <2>1, QuietKeeps DEF CancelSave
<1>3. CASE ServerMoves(u)
  <2>1. view' \in [Saved -> View]
    BY <1>3 DEF ServerMoves, DeviceTypeOK, View
  <2>2. DeviceTypeOK'
    BY <1>3, <2>1 DEF ServerMoves, memory, DeviceTypeOK
  <2>3. QED
    BY <1>3, <2>2, QuietKeeps DEF ServerMoves, memory
<1>4. CASE AskServer(u)
  <2>1. view' \in [Saved -> View]
    BY <1>4 DEF AskServer, DeviceTypeOK, View
  <2>2. DeviceTypeOK'
    BY <1>4, <2>1 DEF AskServer, DeviceWish, memory, DeviceTypeOK
  <2>3. QED
    BY <1>4, <2>2, QuietKeeps DEF AskServer, memory
<1>5. QED
  BY <1>1, <1>2, <1>3, <1>4

LEMMA WholeLoopKeeps ==
    ASSUME DeviceIndInv, NEW units \in SUBSET Saved, DownloadLocal(units)
    PROVE  DeviceIndInv'
<1>1. DeviceTypeOK'
  BY DEF DeviceIndInv, DownloadLocal, DeviceWish, DeviceTypeOK
<1>2. QED
  BY <1>1, QuietKeeps DEF DownloadLocal

LEMMA FadeKeeps ==
    ASSUME DeviceIndInv, NEW u \in Saved, ForgetFailed(u)
    PROVE  DeviceIndInv'
<1>1. DeviceTypeOK'
  BY DEF DeviceIndInv, ForgetFailed, Vanish, DeviceTypeOK
<1>2. QED
  BY <1>1, QuietKeeps DEF ForgetFailed

LEMMA RemovalKeeps ==
    ASSUME DeviceIndInv, NEW u \in Saved, RemoveLocal(u)
    PROVE  DeviceIndInv'
<1> USE DEF DeviceIndInv, RemoveLocal
<1>1. /\ disk[u] \in Disk
      /\ disk' = [disk EXCEPT ![u] = [disk[u] EXCEPT !.dir = {}]]
  BY DEF DeviceTypeOK
<1>2. [disk[u] EXCEPT !.dir = {}] \in Disk /\ [disk[u] EXCEPT !.dir = {}].partial = disk[u].partial
  BY <1>1 DEF Disk
<1>3. DeviceTypeOK'
  <2>1. disk' \in [Saved -> Disk]
    BY <1>1, <1>2 DEF DeviceTypeOK
  <2>2. QED
    BY <2>1 DEF DeviceTypeOK, DeviceWish, memory
<1>4. \A w \in Saved : disk'[w].partial = disk[w].partial
  BY <1>1, <1>2 DEF DeviceTypeOK
<1>5. RestsAtZero' /\ OverlapIsDoubled' /\ StagedSoFar'
  BY <1>4 DEF RestsAtZero, OverlapIsDoubled, StagedSoFar, memory
<1>6. MarkedIsStored'
  BY <1>1 DEF MarkedIsStored, DeviceTypeOK
<1>7. QED
  BY <1>3, <1>5, <1>6

(* A save of a chapter begins: it overlaps with none, or that is noticed.   *)
LEMMA SaveBegins ==
    ASSUME DeviceIndInv, DeviceTypeOK', NEW s \in Savers, NEW u \in Saved,
           saver[s] = NoSave, StartSave(s, u),
           UNCHANGED <<disk, marks, cut>>
    PROVE  DeviceIndInv'
<1> USE DEF DeviceIndInv, StartSave
<1>1. /\ saver'[s] = [unit |-> u, next |-> 0]
      /\ \A t \in Savers : t # s => saver'[t] = saver[t]
      /\ doubled \subseteq doubled'
      /\ (\E t \in Savers : saver[t].unit = u) => u \in doubled'
  BY DEF DeviceTypeOK
<1>2. RestsAtZero'
  BY <1>1 DEF RestsAtZero
<1>3. OverlapIsDoubled'
  BY <1>1 DEF OverlapIsDoubled
<1>4. StagedSoFar'
  <2> SUFFICES ASSUME NEW t \in Savers, saver'[t].unit \in Saved \ doubled',
                      saver'[t].next # 0, disk[saver'[t].unit].partial # {}
               PROVE  0 .. saver'[t].next - 1 \subseteq disk[saver'[t].unit].partial
    BY DEF StagedSoFar
  <2>1. t # s /\ saver'[t] = saver[t]
    BY <1>1
  <2>2. QED
    BY <1>1, <2>1 DEF StagedSoFar
<1>5. MarkedIsStored'
  BY <1>1 DEF MarkedIsStored
<1>6. QED
  BY <1>2, <1>3, <1>4, <1>5

LEMMA StartSaveTypes ==
    ASSUME DeviceTypeOK, NEW s \in Savers, NEW u \in Saved, StartSave(s, u)
    PROVE  /\ saver' \in [Savers -> Save]
           /\ local' \subseteq Saved /\ cancelling' \subseteq local'
           /\ doubled' \subseteq Saved
<1>1. [unit |-> u, next |-> 0] \in Save
  BY DEF Save
<1>2. QED
  BY <1>1 DEF DeviceTypeOK, StartSave

LEMMA LoopKeeps ==
    ASSUME DeviceIndInv, NEW u \in Saved, LoopNext(u)
    PROVE  DeviceIndInv'
<1>1. StartSave("page", u) /\ saver["page"] = NoSave /\ DeviceTypeOK
  BY DEF LoopNext, DeviceIndInv
<1>2. DeviceTypeOK'
  BY <1>1, StartSaveTypes DEF LoopNext, DeviceTypeOK
<1>3. QED
  BY <1>1, <1>2, SaveBegins DEF LoopNext

LEMMA WalkKeeps ==
    ASSUME DeviceIndInv, StartWalk \/ Walk
    PROVE  DeviceIndInv'
<1> USE DEF DeviceIndInv
<1>1. CASE StartWalk
  <2>1. DeviceTypeOK'
    BY <1>1 DEF StartWalk, DeviceTypeOK
  <2>2. QED
    BY <1>1, <2>1, QuietKeeps DEF StartWalk
<1>2. CASE Walk
  <2> USE <1>2
  <2>1. /\ saver["driver"] = NoSave
        /\ UNCHANGED <<disk, marks, view, loop, fading, cut, deviceWishes, deviceFaults>>
    BY DEF Walk
  <2>2. NotWalking \in [on : BOOLEAN, views : [Saved -> View]]
    BY DEF NotWalking, View
  <2>3. CASE /\ walk' = NotWalking
             /\ UNCHANGED <<pullQueue, saver, local, cancelling, doubled>>
    <3>1. DeviceTypeOK'
      BY <2>1, <2>2, <2>3 DEF DeviceTypeOK
    <3>2. QED
      BY <2>1, <2>3, <3>1, QuietKeeps
  <2>4. CASE /\ pullQueue # <<>> /\ pullQueue' = Tail(pullQueue)
             /\ UNCHANGED <<walk, saver, local, cancelling, doubled>>
    <3>1. pullQueue' \in Seq(Saved)
      BY <2>4 DEF DeviceTypeOK
    <3>2. DeviceTypeOK'
      BY <2>1, <2>4, <3>1 DEF DeviceTypeOK
    <3>3. QED
      BY <2>1, <2>4, <3>2, QuietKeeps
  <2>5. CASE /\ pullQueue # <<>> /\ pullQueue' = Tail(pullQueue)
             /\ StartSave("driver", Head(pullQueue))
             /\ UNCHANGED walk
    <3>1. pullQueue' \in Seq(Saved) /\ Head(pullQueue) \in Saved
      BY <2>5 DEF DeviceTypeOK
    <3>2. DeviceTypeOK'
      BY <2>1, <2>5, <3>1, StartSaveTypes DEF DeviceTypeOK
    <3>3. QED
      BY <2>1, <2>5, <3>1, <3>2, SaveBegins
  <2>6. QED
    BY <2>3, <2>4, <2>5 DEF Walk
<1>3. QED
  BY <1>1, <1>2

(* A save stops: its staging goes, or it had not begun.                     *)
LEMMA SaveStops ==
    ASSUME DeviceIndInv, DeviceTypeOK', NEW s \in Savers,
           EndSave(s), Unstaged(s), UNCHANGED <<marks, doubled, cut>>
    PROVE  DeviceIndInv'
<1> USE DEF DeviceIndInv
<1>1. saver'[s] = NoSave /\ \A t \in Savers : t # s => saver'[t] = saver[t]
  BY DEF EndSave, DeviceTypeOK
<1>2. \A u \in Saved : /\ disk'[u].dir = disk[u].dir
                       /\ disk'[u].partial = disk[u].partial \/ disk'[u].partial = {}
  BY DEF Unstaged, DeviceTypeOK, Disk
<1>3. RestsAtZero' /\ OverlapIsDoubled'
  BY <1>1 DEF RestsAtZero, OverlapIsDoubled, NoSave
<1>4. StagedSoFar'
  BY <1>1, <1>2 DEF StagedSoFar, NoSave
<1>5. MarkedIsStored'
  <2>1. ASSUME NEW u \in marks \ (doubled \cup cut)
        PROVE  disk'[u].dir = Whole
    <3>1. u \in Saved /\ disk[u].dir = Whole
      BY DEF MarkedIsStored, DeviceTypeOK
    <3>2. QED
      BY <1>2, <3>1
  <2>2. QED
    BY <2>1 DEF MarkedIsStored
<1>6. QED
  BY <1>3, <1>4, <1>5

LEMMA StopTypes ==
    ASSUME DeviceTypeOK, NEW s \in Savers, EndSave(s), Unstaged(s)
    PROVE  saver' \in [Savers -> Save] /\ disk' \in [Saved -> Disk]
<1>1. NoSave \in Save
  BY DEF NoSave, Save
<1>2. saver' \in [Savers -> Save]
  BY <1>1 DEF EndSave, DeviceTypeOK
<1>3. \A d \in Disk : [d EXCEPT !.partial = {}] \in Disk
  BY DEF Disk
<1>4. disk' \in [Saved -> Disk]
  BY <1>3 DEF Unstaged, DeviceTypeOK
<1>5. QED
  BY <1>2, <1>4

LEMMA SaveCancelledKeeps ==
    ASSUME DeviceIndInv, NEW s \in Savers, SaveCancelled(s)
    PROVE  DeviceIndInv'
<1>1. /\ EndSave(s) /\ Unstaged(s) /\ DeviceTypeOK
      /\ Vanish(saver[s].unit)
      /\ UNCHANGED <<marks, pullQueue, view, walk, loop, fading, doubled, cut,
                     deviceWishes, deviceFaults>>
  BY DEF SaveCancelled, DeviceIndInv
<1>2. DeviceTypeOK'
  BY <1>1, StopTypes DEF Vanish, DeviceTypeOK
<1>3. QED
  BY <1>1, <1>2, SaveStops

LEMMA FailuresKeep ==
    ASSUME DeviceIndInv, NEW s \in Savers, SaveFailed(s) \/ StagingGone(s)
    PROVE  DeviceIndInv'
<1>1. /\ EndSave(s) /\ Unstaged(s) /\ DeviceTypeOK
      /\ local' = local \cup {saver[s].unit} /\ fading' = fading \cup {saver[s].unit}
      /\ UNCHANGED <<marks, pullQueue, view, walk, loop, cancelling, doubled, cut,
                     deviceWishes>>
  BY DEF SaveFailed, StagingGone, Fails, DeviceIndInv
<1>2. saver[s].unit \in Saved
  BY DEF SaveFailed, StagingGone, DeviceIndInv, DeviceTypeOK, RestsAtZero, Save
<1>3. deviceFaults' \in 0 .. MaxDeviceFaults
  BY <1>1 DEF SaveFailed, StagingGone, DeviceFault, DeviceTypeOK
<1>4. DeviceTypeOK'
  BY <1>1, <1>2, <1>3, StopTypes DEF DeviceTypeOK
<1>5. QED
  BY <1>1, <1>4, SaveStops

LEMMA SavePageKeeps ==
    ASSUME DeviceIndInv, NEW s \in Savers, SavePage(s)
    PROVE  DeviceIndInv'
<1> DEFINE u == saver[s].unit
           n == saver[s].next
           now == IF n = 0 THEN {0} ELSE disk[u].partial \cup {n}
<1> USE DEF DeviceIndInv
<1>1. /\ u \in Saved /\ n \in 0 .. PageCount
      /\ n > 0 => disk[u].partial # {}
      /\ disk' = [disk EXCEPT ![u] = [disk[u] EXCEPT !.partial = now]]
      /\ saver' = [saver EXCEPT ![s] = [unit |-> u, next |-> n + 1]]
      /\ UNCHANGED <<marks, pullQueue, view, walk, loop, local, cancelling, fading,
                     doubled, cut, deviceWishes, deviceFaults>>
  <2>1. saver[s] \in Save /\ u \in Saved /\ n <= PageCount
    BY DEF SavePage, DeviceTypeOK
  <2>2. n \in 0 .. PageCount
    BY <2>1 DEF Save
  <2>3. saver' = [saver EXCEPT ![s] = [unit |-> u, next |-> n + 1]]
    <3>1. saver' = [saver EXCEPT ![s] = [saver[s] EXCEPT !.next = n + 1]]
      BY DEF SavePage
    <3>2. [saver[s] EXCEPT !.next = n + 1] = [unit |-> u, next |-> n + 1]
      BY <2>1 DEF Save
    <3>3. QED
      BY <3>1, <3>2
  <2>4. CASE n = 0
    <3>1. /\ disk' = [disk EXCEPT ![u] = [disk[u] EXCEPT !.partial = {0}]]
          /\ UNCHANGED <<marks, pullQueue, view, walk, loop, local, cancelling, fading,
                         doubled, cut, deviceWishes, deviceFaults>>
      BY <2>4 DEF SavePage
    <3>2. now = {0}
      BY <2>4
    <3>3. QED
      BY <2>1, <2>2, <2>3, <2>4, <3>1, <3>2
  <2>5. CASE n # 0
    BY <2>1, <2>2, <2>3, <2>5 DEF SavePage
  <2>6. QED
    BY <2>4, <2>5
<1>2. /\ disk[u] \in Disk
      /\ now \subseteq Whole
      /\ [disk[u] EXCEPT !.partial = now] \in Disk
      /\ [disk[u] EXCEPT !.partial = now].partial = now
      /\ [disk[u] EXCEPT !.partial = now].dir = disk[u].dir
  <2>1. disk[u] \in Disk
    BY <1>1 DEF DeviceTypeOK
  <2>2. now \subseteq Whole
    BY <1>1, <2>1 DEF Disk
  <2> HIDE DEF now
  <2>3. QED
    BY <2>1, <2>2 DEF Disk
<1>3. [unit |-> u, next |-> n + 1] \in Save
  BY <1>1 DEF Save
<1>4. disk' \in [Saved -> Disk] /\ saver' \in [Savers -> Save]
  BY <1>1, <1>2, <1>3 DEF DeviceTypeOK
<1>5. /\ disk'[u].partial = now
      /\ \A w \in Saved : /\ disk'[w].dir = disk[w].dir
                          /\ w # u => disk'[w] = disk[w]
      /\ saver'[s] = [unit |-> u, next |-> n + 1]
      /\ \A t \in Savers : t # s => saver'[t] = saver[t]
  BY <1>1, <1>2 DEF DeviceTypeOK
<1>6. (u \notin doubled) => 0 .. n \subseteq now
  <2>1. CASE n = 0
    BY <2>1
  <2>2. CASE n # 0
    <3>1. u \notin doubled => 0 .. n - 1 \subseteq disk[u].partial
      <4>1. disk[u].partial # {}
        BY <1>1, <2>2
      <4>2. QED
        BY <1>1, <2>2, <4>1 DEF StagedSoFar
    <3>2. QED
      BY <1>1, <2>2, <3>1
  <2>3. QED
    BY <2>1, <2>2
<1>7. DeviceTypeOK'
  BY <1>1, <1>4 DEF DeviceTypeOK
<1>8. RestsAtZero'
  BY <1>1, <1>5 DEF RestsAtZero
<1>9. OverlapIsDoubled'
  BY <1>1, <1>5 DEF OverlapIsDoubled
<1>10. StagedSoFar'
  <2> SUFFICES ASSUME NEW t \in Savers, saver'[t].unit \in Saved \ doubled,
                      saver'[t].next # 0, disk'[saver'[t].unit].partial # {}
               PROVE  0 .. saver'[t].next - 1 \subseteq disk'[saver'[t].unit].partial
    BY <1>1 DEF StagedSoFar
  <2>1. CASE t = s
    <3>1. saver'[t].next - 1 = n /\ saver'[t].unit = u
      BY <1>1, <1>5, <2>1
    <3>2. QED
      BY <1>1, <1>5, <1>6, <3>1
  <2>2. CASE t # s
    <3>1. saver'[t] = saver[t] /\ saver[t].unit # u
      BY <1>1, <1>5, <2>2 DEF OverlapIsDoubled
    <3>2. disk'[saver[t].unit] = disk[saver[t].unit]
      BY <1>5, <3>1
    <3>3. QED
      BY <3>1, <3>2 DEF StagedSoFar
  <2>3. QED
    BY <2>1, <2>2
<1>11. MarkedIsStored'
  BY <1>1, <1>5 DEF MarkedIsStored, DeviceTypeOK
<1>12. QED
  BY <1>7, <1>8, <1>9, <1>10, <1>11

(* A finished save: what it published is whole, or two saves met.           *)
LEMMA FinishKeeps ==
    ASSUME DeviceIndInv, NEW s \in Savers, Finish(s) \/ FinishUncleared(s)
    PROVE  DeviceIndInv'
<1> DEFINE u == saver[s].unit
<1> USE DEF DeviceIndInv
<1>1. PICK after \in {Published(disk[u]), Landed(BeforeLanding(disk[u]))} : FinishWith(s, after)
  BY DEF Finish, FinishUncleared
<1>2. /\ u \in Saved /\ saver[s].next > PageCount /\ disk[u].partial # {}
      /\ disk' = [disk EXCEPT ![u] = after]
      /\ marks' = marks \cup {u}
      /\ Vanish(u)
      /\ saver' = [saver EXCEPT ![s] = NoSave]
      /\ UNCHANGED <<pullQueue, view, walk, loop, fading, doubled, cut, deviceWishes>>
  BY <1>1 DEF FinishWith, EndSave
<1>3. /\ disk[u] \in Disk
      /\ u \notin doubled => disk[u].partial = Whole
  BY <1>2, PastTheEndIsWhole
<1>4. after \in Disk /\ (u \notin doubled => after.dir = Whole)
  BY <1>3, PublicationTypes, LandingIsWhole
<1>5. /\ disk'[u] = after
      /\ \A w \in Saved : w # u => disk'[w] = disk[w]
      /\ saver'[s] = NoSave
      /\ \A t \in Savers : t # s => saver'[t] = saver[t]
  BY <1>2 DEF DeviceTypeOK
<1>6. DeviceTypeOK'
  <2>1. NoSave \in Save
    BY DEF NoSave, Save
  <2>2. disk' \in [Saved -> Disk] /\ saver' \in [Savers -> Save]
    BY <1>2, <1>4, <2>1 DEF DeviceTypeOK
  <2>3. deviceFaults' \in 0 .. MaxDeviceFaults
    BY DEF Finish, FinishUncleared, DeviceFault, DeviceTypeOK
  <2>4. QED
    BY <1>2, <2>2, <2>3 DEF DeviceTypeOK, Vanish
<1>7. RestsAtZero' /\ OverlapIsDoubled'
  BY <1>2, <1>5 DEF RestsAtZero, OverlapIsDoubled, NoSave
<1>8. StagedSoFar'
  <2> SUFFICES ASSUME NEW t \in Savers, saver'[t].unit \in Saved \ doubled,
                      saver'[t].next # 0, disk'[saver'[t].unit].partial # {}
               PROVE  0 .. saver'[t].next - 1 \subseteq disk'[saver'[t].unit].partial
    BY <1>2 DEF StagedSoFar
  <2>1. t # s /\ saver'[t] = saver[t]
    BY <1>5 DEF NoSave
  <2>2. saver[t].unit # u
    BY <1>2, <2>1 DEF OverlapIsDoubled
  <2>3. disk'[saver[t].unit] = disk[saver[t].unit]
    BY <1>5, <2>1, <2>2
  <2>4. QED
    BY <2>1, <2>3 DEF StagedSoFar
<1>9. MarkedIsStored'
  BY <1>2, <1>4, <1>5 DEF MarkedIsStored, DeviceTypeOK
<1>10. QED
  BY <1>6, <1>7, <1>8, <1>9

(* What a reload or a kill leaves: nobody is at work, and every marked      *)
(* chapter whose removal was not cut is whole.                              *)
LEMMA ForgottenKeeps ==
    ASSUME DeviceIndInv, Forget, DeviceFault,
           disk' \in [Saved -> Disk], marks' = marks,
           cut \subseteq cut', cut' \subseteq Saved,
           \A u \in marks \ (doubled \cup cut') : disk'[u].dir = Whole
    PROVE  DeviceIndInv'
<1> USE DEF DeviceIndInv
<1>1. NoSave \in Save /\ NotWalking \in [on : BOOLEAN, views : [Saved -> View]]
  BY DEF NoSave, Save, NotWalking, View
<1>2. DeviceTypeOK'
  BY <1>1 DEF DeviceTypeOK, Forget, DeviceFault
<1>3. \A s \in Savers : saver'[s].unit = "none" /\ saver'[s].next = 0
  BY DEF Forget, NoSave
<1>4. RestsAtZero' /\ OverlapIsDoubled' /\ StagedSoFar'
  BY <1>3 DEF RestsAtZero, OverlapIsDoubled, StagedSoFar
<1>5. MarkedIsStored'
  BY DEF MarkedIsStored, Forget
<1>6. QED
  BY <1>2, <1>4, <1>5

LEMMA ReloadKeeps ==
    ASSUME DeviceIndInv, Reload
    PROVE  DeviceIndInv'
<1> USE DEF DeviceIndInv
<1>1. Forget /\ DeviceFault
  BY DEF Reload
<1>2. CASE UNCHANGED <<disk, marks, cut>>
  BY <1>1, <1>2, ForgottenKeeps DEF DeviceTypeOK, MarkedIsStored
<1>3. CASE \E s \in Savers : /\ saver[s].next > PageCount
                             /\ disk[saver[s].unit].partial # {}
                             /\ disk' = [disk EXCEPT ![saver[s].unit] = Published(@)]
                             /\ UNCHANGED <<marks, cut>>
  <2>1. PICK s \in Savers : /\ saver[s].next > PageCount
                            /\ disk[saver[s].unit].partial # {}
                            /\ disk' = [disk EXCEPT ![saver[s].unit] =
                                           Published(disk[saver[s].unit])]
                            /\ UNCHANGED <<marks, cut>>
    BY <1>3
  <2> DEFINE u == saver[s].unit
  <2>2. /\ u \in Saved /\ disk[u] \in Disk
        /\ u \notin doubled => disk[u].partial = Whole
    BY <2>1, PastTheEndIsWhole
  <2>3. Published(disk[u]) \in Disk /\ (u \notin doubled => Published(disk[u]).dir = Whole)
    BY <2>2, PublicationTypes, LandingIsWhole
  <2>4. disk' \in [Saved -> Disk] /\ cut' \subseteq Saved
    BY <2>1, <2>2, <2>3 DEF DeviceTypeOK
  <2>5. \A w \in marks \ (doubled \cup cut') : disk'[w].dir = Whole
    BY <2>1, <2>2, <2>3 DEF DeviceTypeOK, MarkedIsStored
  <2>6. QED
    BY <1>1, <2>1, <2>4, <2>5, ForgottenKeeps
<1>4. CASE /\ UNCHANGED marks
           /\ \E u \in marks : disk' = [disk EXCEPT ![u].dir = {}] /\ cut' = cut \cup {u}
  <2>1. PICK u \in marks : disk' = [disk EXCEPT ![u].dir = {}] /\ cut' = cut \cup {u}
    BY <1>4
  <2>2. u \in Saved /\ disk[u] \in Disk /\ [disk[u] EXCEPT !.dir = {}] \in Disk
    BY SMTT(30) DEF DeviceTypeOK, Disk
  <2>3. disk' \in [Saved -> Disk] /\ cut' \subseteq Saved
    BY <2>1, <2>2 DEF DeviceTypeOK
  <2>4. \A w \in marks \ (doubled \cup cut') : disk'[w].dir = Whole
    BY <2>1, <2>2 DEF DeviceTypeOK, MarkedIsStored
  <2>5. QED
    BY <1>1, <1>4, <2>1, <2>3, <2>4, ForgottenKeeps
<1>5. QED
  BY <1>2, <1>3, <1>4 DEF Reload

LEMMA KillKeeps ==
    ASSUME DeviceIndInv, Kill
    PROVE  DeviceIndInv'
<1> USE DEF DeviceIndInv
<1>1. Forget /\ DeviceFault /\ marks' = marks
  BY DEF Kill
<1>2. ASSUME NEW disks \in [Saved -> Disk]
      PROVE  AtStart(disks) \in [Saved -> Disk]
  BY <1>2, PublicationTypes DEF AtStart
<1>3. CASE disk' = AtStart(disk) /\ UNCHANGED cut
  <2>1. disk \in [Saved -> Disk] /\ cut' \subseteq Saved /\ marks \subseteq Saved
    BY <1>3 DEF DeviceTypeOK
  <2>2. disk' \in [Saved -> Disk]
    BY <1>2, <1>3, <2>1
  <2>3. \A w \in marks \ (doubled \cup cut') : disk'[w].dir = Whole
    BY <1>3, <2>1, WholeSurvivesStart DEF AtStart, MarkedIsStored
  <2>4. QED
    BY <1>1, <1>3, <2>1, <2>2, <2>3, ForgottenKeeps
<1>4. CASE /\ UNCHANGED cut
           /\ \E s \in Savers :
                 LET u == saver[s].unit
                 IN  /\ saver[s].next > PageCount
                     /\ disk[u].partial # {}
                     /\ \E d \in CutShort(disk[u]) :
                           disk' = AtStart([disk EXCEPT ![u] = d])
  <2>1. PICK s \in Savers :
            /\ saver[s].next > PageCount
            /\ disk[saver[s].unit].partial # {}
            /\ \E d \in CutShort(disk[saver[s].unit]) :
                  disk' = AtStart([disk EXCEPT ![saver[s].unit] = d])
    BY <1>4
  <2> DEFINE u == saver[s].unit
  <2>2. PICK d \in CutShort(disk[u]) : disk' = AtStart([disk EXCEPT ![u] = d])
    BY <2>1
  <2>3. /\ u \in Saved /\ disk[u] \in Disk
        /\ u \notin doubled => disk[u].partial = Whole
    BY <2>1, PastTheEndIsWhole
  <2>4. /\ d \in Disk
        /\ (disk[u].partial = Whole /\ disk[u].dir = Whole) => Recovered(d).dir = Whole
    BY <2>3, CutShortIsWhole
  <2>5. disk \in [Saved -> Disk] /\ cut' \subseteq Saved /\ marks \subseteq Saved
    BY <1>4 DEF DeviceTypeOK
  <2>6. [disk EXCEPT ![u] = d] \in [Saved -> Disk]
    BY <2>3, <2>4, <2>5
  <2>7. disk' \in [Saved -> Disk]
    BY <1>2, <2>2, <2>6
  <2>8. ASSUME NEW w \in marks \ (doubled \cup cut')
        PROVE  disk'[w].dir = Whole
    <3>1. w \in Saved /\ disk[w] \in Disk /\ disk[w].dir = Whole
      BY <1>4, <2>5 DEF MarkedIsStored
    <3>2. disk'[w] = Recovered([disk EXCEPT ![u] = d][w])
      BY <2>2, <3>1 DEF AtStart
    <3>3. CASE w = u
      BY <2>3, <2>4, <2>5, <3>1, <3>2, <3>3
    <3>4. CASE w # u
      BY <2>5, <3>1, <3>2, <3>4, WholeSurvivesStart
    <3>5. QED
      BY <3>3, <3>4
  <2>9. QED
    BY <1>1, <1>4, <2>5, <2>7, <2>8, ForgottenKeeps
<1>5. CASE \E u \in marks : \E p \in Torn(disk[u].dir) :
             /\ disk' = AtStart([disk EXCEPT ![u].dir = p])
             /\ cut' = cut \cup {u}
  <2>0. PICK u \in marks : \E p \in Torn(disk[u].dir) :
             /\ disk' = AtStart([disk EXCEPT ![u] = [disk[u] EXCEPT !.dir = p]])
             /\ cut' = cut \cup {u}
    BY <1>5
  <2>1. PICK p \in Torn(disk[u].dir) :
             /\ disk' = AtStart([disk EXCEPT ![u] = [disk[u] EXCEPT !.dir = p]])
             /\ cut' = cut \cup {u}
    BY <2>0
  <2>2. disk \in [Saved -> Disk] /\ cut' \subseteq Saved /\ marks \subseteq Saved
    BY <2>1 DEF DeviceTypeOK
  <2>3. [disk[u] EXCEPT !.dir = p] \in Disk
    BY <2>1, <2>2 DEF Disk, Torn
  <2>4. disk' \in [Saved -> Disk]
    <3>1. [disk EXCEPT ![u] = [disk[u] EXCEPT !.dir = p]] \in [Saved -> Disk]
      BY <2>2, <2>3
    <3>2. QED
      BY <1>2, <2>1, <3>1
  <2>5. ASSUME NEW w \in marks \ (doubled \cup cut')
        PROVE  disk'[w].dir = Whole
    <3>1. w \in Saved /\ w # u /\ disk[w] \in Disk /\ disk[w].dir = Whole
      BY <2>1, <2>2 DEF MarkedIsStored
    <3>2. disk'[w] = Recovered(disk[w])
      BY <2>1, <2>2, <3>1 DEF AtStart
    <3>3. QED
      BY <3>1, <3>2, WholeSurvivesStart
  <2>6. QED
    BY <1>1, <2>1, <2>2, <2>4, <2>5, ForgottenKeeps
<1>6. QED
  BY <1>3, <1>4, <1>5 DEF Kill
-----------------------------------------------------------------------------
LEMMA DeviceStepKeeps == DeviceIndInv /\ [DeviceNext]_deviceVars => DeviceIndInv'
<1> SUFFICES ASSUME DeviceIndInv, [DeviceNext]_deviceVars PROVE DeviceIndInv'
  OBVIOUS
<1>1. CASE UNCHANGED deviceVars
  <2>1. DeviceTypeOK'
    BY <1>1 DEF deviceVars, DeviceIndInv, DeviceTypeOK
  <2>2. QED
    BY <1>1, <2>1, QuietKeeps DEF deviceVars
<1>2. CASE \E u \in Saved : Enqueue(u) \/ CancelSave(u) \/ ServerMoves(u)
                            \/ AskServer(u) \/ RemoveLocal(u)
  BY <1>2, WishesKeep, RemovalKeeps
<1>3. CASE \E units \in SUBSET Saved : DownloadLocal(units)
  BY <1>3, WholeLoopKeeps
<1>4. CASE LoopStep \/ WalkStep \/ FadeStep
  BY <1>4, LoopKeeps, WalkKeeps, FadeKeeps DEF LoopStep, WalkStep, FadeStep
<1>5. CASE \E s \in Savers : SaveStep(s) \/ SaveFailed(s) \/ FinishUncleared(s)
  BY <1>5, SavePageKeeps, FinishKeeps, SaveCancelledKeeps, FailuresKeep DEF SaveStep
<1>6. CASE Reload \/ Kill
  BY <1>6, ReloadKeeps, KillKeeps
<1>7. QED
  BY <1>1, <1>2, <1>3, <1>4, <1>5, <1>6 DEF DeviceNext

(* Every reachable state satisfies the strengthening.                       *)
THEOREM DeviceSpecIndInv == DeviceSpec => []DeviceIndInv
BY DeviceInitIndInv, DeviceStepKeeps, PTL DEF DeviceSpec

(* Queue, saves, directories and marks keep the kinds of values they are    *)
(* given.                                                                   *)
THEOREM DeviceTypeCorrect == DeviceSpec => []DeviceTypeOK
<1>1. DeviceIndInv => DeviceTypeOK
  BY DEF DeviceIndInv
<1>2. QED
  BY <1>1, DeviceSpecIndInv, PTL

(* A chapter shown as being on the device has all its pages there, for any  *)
(* number of kills, reloads and failing calls: the staging of a lone save   *)
(* is complete when it is published, and the whole copy is under the name   *)
(* or set aside with nothing under the name.                                *)
THEOREM StoredAsMarked == DeviceSpec => []MarkedIsStored
<1>1. DeviceIndInv => MarkedIsStored
  BY DEF DeviceIndInv
<1>2. QED
  BY <1>1, DeviceSpecIndInv, PTL
-----------------------------------------------------------------------------

StoreSet == [owner : Anyone, gen : 0 .. MaxSignIns + 1,
             cache : [Stages -> SUBSET Complete], named : [Stages -> Anyone],
             pointer : [People -> 0 .. MaxSaves], pending : [People -> 0 .. MaxSaves],
             runtime : SUBSET People, last : 0 .. MaxSaves]

(* What manifests and pending records name is the account's own, and not a  *)
(* name that is still to be given.                                          *)
NamesItsOwn(st) ==
    \A p \in People :
        /\ st.pointer[p] <= st.last /\ st.pending[p] <= st.last
        /\ st.pointer[p] # 0 => st.named[st.pointer[p]] = p
        /\ st.pending[p] # 0 => st.named[st.pending[p]] = p

(* A page is fetched for a stage. *)
FetchesForStage == \A t \in Tabs : save[t].at = "fetch" => save[t].stage \in Stages

(* Somebody acts: a task has an owner. *)
TasksAreOwned ==
    \A t \in Tabs : save[t].at # "rest" => save[t].who \in People

(* Generations are counted by sign-ins. *)
GenerationsCounted ==
    /\ store.gen <= signIns
    /\ session # store.owner => store.gen < signIns

SavedIndInv ==
    /\ SavedTypeOK
    /\ NamesItsOwn(store)
    /\ FetchesForStage
    /\ TasksAreOwned
    /\ GenerationsCounted
    /\ ManifestIsWhole
    /\ OthersPurged

HoldsAll(st, p) == st.pointer[p] # 0 => st.cache[st.pointer[p]] = Complete

PurgedIn(st, left) ==
    \A p \in People \ (left \cup {st.owner}) :
        /\ st.pointer[p] = 0 /\ st.pending[p] = 0 /\ p \notin st.runtime
        /\ \A i \in Stages : st.named[i] = p => st.cache[i] = {}

(* A command of account p, whole or cut: it gives at most one new name,     *)
(* empties caches of p only, and publishes only what is complete.           *)
CommandOf(p, st, next) ==
    /\ next \in StoreSet
    /\ next.owner = st.owner /\ next.gen = st.gen
    /\ next.runtime \subseteq st.runtime
    /\ st.last <= next.last
    /\ \A q \in People \ {p} : next.pointer[q] = st.pointer[q] /\ next.pending[q] = st.pending[q]
    /\ \A i \in Stages :
          /\ next.named[i] = st.named[i] \/ (i > st.last /\ next.named[i] = p)
          /\ next.cache[i] = st.cache[i] \/ (st.named[i] = p /\ next.cache[i] = {})
    /\ \/ next.pending[p] \in {0, st.pending[p]}
       \/ next.pending[p] = st.last + 1 /\ next.last = st.last + 1 /\ next.named[st.last + 1] = p
    /\ \/ next.pointer[p] \in {0, st.pointer[p]}
       \/ next.pointer[p] = st.pending[p] /\ st.cache[st.pending[p]] = Complete

(* A change of accounts, whole or cut.                                      *)
SwitchTo(who, old, st, next) ==
    /\ next \in StoreSet
    /\ next.owner = who /\ next.gen = st.gen + 1 /\ next.last = st.last
    /\ next.named = st.named
    /\ next.runtime \subseteq st.runtime
    /\ \A q \in People : next.pointer[q] = st.pointer[q] \/ (q = old /\ next.pointer[q] = 0)
    /\ \A q \in People : next.pending[q] = st.pending[q] \/ (q = old /\ next.pending[q] = 0)
    /\ \A i \in Stages : next.cache[i] = st.cache[i] \/ (st.named[i] = old /\ next.cache[i] = {})

Purged(p, st) ==
    /\ st.pointer[p] = 0 /\ st.pending[p] = 0 /\ p \notin st.runtime
    /\ \A i \in Stages : st.named[i] = p => st.cache[i] = {}
-----------------------------------------------------------------------------
USE SavedAssumption DEF Stages, Complete, Anyone

LEMMA SavedInitIndInv == SavedInit => SavedIndInv
<1> SUFFICES ASSUME SavedInit PROVE SavedIndInv
  OBVIOUS
<1>1. SavedTypeOK
  BY DEF SavedInit, SavedTypeOK, NoTask, AtPage
<1>2. NamesItsOwn(store) /\ ManifestIsWhole /\ OthersPurged /\ GenerationsCounted
  BY DEF SavedInit, NamesItsOwn, ManifestIsWhole, OthersPurged, GenerationsCounted
<1>3. FetchesForStage /\ TasksAreOwned
  BY DEF SavedInit, FetchesForStage, TasksAreOwned, NoTask, AtPage
<1>4. QED
  BY <1>1, <1>2, <1>3 DEF SavedIndInv

(* Emptying one cache. *)
LEMMA WithoutOne ==
    ASSUME NEW st \in StoreSet, NEW i \in 0 .. MaxSaves
    PROVE  /\ Without(st, i) \in StoreSet
           /\ Without(st, i).owner = st.owner /\ Without(st, i).gen = st.gen
           /\ Without(st, i).named = st.named /\ Without(st, i).pointer = st.pointer
           /\ Without(st, i).pending = st.pending /\ Without(st, i).runtime = st.runtime
           /\ Without(st, i).last = st.last
           /\ \A j \in Stages : Without(st, i).cache[j] = IF j = i THEN {} ELSE st.cache[j]
BY DEF Without, StoreSet

LEMMA BeginIsCommand ==
    ASSUME NEW st \in StoreSet, NEW p \in People, NamesItsOwn(st), st.last < MaxSaves,
           NEW i \in 1 .. Len(BeginSteps(st, p))
    PROVE  CommandOf(p, st, BeginSteps(st, p)[i])
<1> DEFINE cleared == Without(st, st.pending[p])
           fresh == st.last + 1
           begun == [cleared EXCEPT !.last = fresh, !.named[fresh] = p, !.pending[p] = fresh]
<1>1. st.pending[p] \in 0 .. MaxSaves /\ fresh \in Stages
  BY DEF StoreSet
<1>2. /\ cleared \in StoreSet
      /\ cleared.owner = st.owner /\ cleared.gen = st.gen
      /\ cleared.named = st.named /\ cleared.pointer = st.pointer
      /\ cleared.pending = st.pending /\ cleared.runtime = st.runtime
      /\ cleared.last = st.last
      /\ \A j \in Stages : cleared.cache[j] = IF j = st.pending[p] THEN {} ELSE st.cache[j]
  BY <1>1, WithoutOne
<1> HIDE DEF cleared
<1>3. CommandOf(p, st, cleared)
  <2>1. \A j \in Stages : \/ cleared.cache[j] = st.cache[j]
                          \/ st.named[j] = p /\ cleared.cache[j] = {}
    BY <1>1, <1>2 DEF NamesItsOwn
  <2>2. st.last <= cleared.last
    BY <1>2 DEF StoreSet
  <2>3. QED
    BY <1>2, <2>1, <2>2 DEF CommandOf
<1>4. /\ begun \in StoreSet
      /\ begun.owner = st.owner /\ begun.gen = st.gen
      /\ begun.pointer = st.pointer /\ begun.runtime = st.runtime
      /\ begun.last = fresh /\ begun.cache = cleared.cache
      /\ begun.named = [st.named EXCEPT ![fresh] = p]
      /\ begun.pending = [st.pending EXCEPT ![p] = fresh]
  <2>1. /\ [st.named EXCEPT ![fresh] = p] \in [Stages -> Anyone]
        /\ [st.pending EXCEPT ![p] = fresh] \in [People -> 0 .. MaxSaves]
        /\ fresh \in 0 .. MaxSaves
    BY <1>1 DEF StoreSet
  <2>2. begun = [cleared EXCEPT !.last = fresh, !.named = [st.named EXCEPT ![fresh] = p],
                                !.pending = [st.pending EXCEPT ![p] = fresh]]
    BY <1>2 DEF StoreSet
  <2> HIDE DEF begun, fresh
  <2>3. QED
    BY <1>2, <2>1, <2>2 DEF StoreSet
<1> HIDE DEF begun
<1>5. CommandOf(p, st, begun)
  <2>1. \A q \in People \ {p} : begun.pointer[q] = st.pointer[q] /\ begun.pending[q] = st.pending[q]
    BY <1>1, <1>2, <1>4 DEF StoreSet
  <2>2. \A j \in Stages : begun.named[j] = st.named[j] \/ (j > st.last /\ begun.named[j] = p)
    BY <1>1, <1>2, <1>4 DEF StoreSet
  <2>3. \A j \in Stages : begun.cache[j] = st.cache[j] \/ (st.named[j] = p /\ begun.cache[j] = {})
    BY <1>1, <1>2, <1>4 DEF NamesItsOwn
  <2>4. /\ begun.pending[p] = fresh /\ begun.named[fresh] = p
        /\ begun.pointer[p] = st.pointer[p]
    BY <1>1, <1>4 DEF StoreSet
  <2>5. st.last <= begun.last
    BY <1>4 DEF StoreSet
  <2>6. QED
    BY <1>4, <2>1, <2>2, <2>3, <2>4, <2>5 DEF CommandOf
<1>6. BeginSteps(st, p) = <<cleared, begun>>
  BY DEF BeginSteps, cleared, begun
<1>7. QED
  BY <1>3, <1>5, <1>6

LEMMA CancelIsCommand ==
    ASSUME NEW st \in StoreSet, NEW p \in People, NamesItsOwn(st),
           NEW i \in 1 .. Len(CancelSteps(st, p))
    PROVE  CommandOf(p, st, CancelSteps(st, p)[i])
<1> DEFINE cleared == Without(st, st.pending[p])
           cancelled == [cleared EXCEPT !.pending[p] = 0]
<1>1. st.pending[p] \in 0 .. MaxSaves
  BY DEF StoreSet
<1>2. /\ cleared \in StoreSet
      /\ cleared.owner = st.owner /\ cleared.gen = st.gen
      /\ cleared.named = st.named /\ cleared.pointer = st.pointer
      /\ cleared.pending = st.pending /\ cleared.runtime = st.runtime
      /\ cleared.last = st.last
      /\ \A j \in Stages : cleared.cache[j] = IF j = st.pending[p] THEN {} ELSE st.cache[j]
  BY <1>1, WithoutOne
<1> HIDE DEF cleared
<1>3. CommandOf(p, st, cleared)
  BY <1>1, <1>2, SMTT(30) DEF CommandOf, NamesItsOwn, StoreSet
<1>4. /\ cancelled \in StoreSet
      /\ cancelled.owner = st.owner /\ cancelled.gen = st.gen
      /\ cancelled.pointer = st.pointer /\ cancelled.runtime = st.runtime
      /\ cancelled.last = st.last /\ cancelled.cache = cleared.cache
      /\ cancelled.named = st.named
      /\ cancelled.pending = [st.pending EXCEPT ![p] = 0]
  <2>1. [st.pending EXCEPT ![p] = 0] \in [People -> 0 .. MaxSaves]
    BY DEF StoreSet
  <2>2. cancelled = [cleared EXCEPT !.pending = [st.pending EXCEPT ![p] = 0]]
    BY <1>2 DEF StoreSet
  <2> HIDE DEF cancelled
  <2>3. QED
    BY <1>2, <2>1, <2>2 DEF StoreSet
<1> HIDE DEF cancelled
<1>5. CommandOf(p, st, cancelled)
  BY <1>1, <1>2, <1>4, SMTT(30) DEF CommandOf, NamesItsOwn, StoreSet
<1>6. CancelSteps(st, p) = <<cleared, cancelled>>
  BY DEF CancelSteps, cleared, cancelled
<1>7. QED
  BY <1>3, <1>5, <1>6

LEMMA FinishIsCommand ==
    ASSUME NEW st \in StoreSet, NEW p \in People, NamesItsOwn(st),
           st.pending[p] # 0, st.cache[st.pending[p]] = Complete
    PROVE  /\ \A i \in 1 .. Len(FinishSteps(st, p)) : CommandOf(p, st, FinishSteps(st, p)[i])
           /\ CommandOf(p, st, Done(FinishSteps(st, p)))
           /\ HoldsAll(Done(FinishSteps(st, p)), p)
<1> DEFINE published == [st EXCEPT !.pointer[p] = st.pending[p]]
           done == [published EXCEPT !.pending[p] = 0]
           last == IF st.pointer[p] \in {0, st.pending[p]} THEN done
                   ELSE Without(done, st.pointer[p])
<1>1. st.pending[p] \in Stages /\ st.pointer[p] \in 0 .. MaxSaves
  BY DEF StoreSet
<1>2. /\ published \in StoreSet
      /\ published.owner = st.owner /\ published.gen = st.gen
      /\ published.cache = st.cache /\ published.named = st.named
      /\ published.runtime = st.runtime /\ published.last = st.last
      /\ published.pending = st.pending
      /\ published.pointer = [st.pointer EXCEPT ![p] = st.pending[p]]
  BY <1>1 DEF StoreSet
<1> HIDE DEF published
<1>3. CommandOf(p, st, published)
  BY <1>1, <1>2 DEF CommandOf, StoreSet
<1>4. /\ done \in StoreSet
      /\ done.owner = st.owner /\ done.gen = st.gen
      /\ done.cache = st.cache /\ done.named = st.named
      /\ done.runtime = st.runtime /\ done.last = st.last
      /\ done.pending = [st.pending EXCEPT ![p] = 0]
      /\ done.pointer = [st.pointer EXCEPT ![p] = st.pending[p]]
  <2>1. [st.pending EXCEPT ![p] = 0] \in [People -> 0 .. MaxSaves]
    BY DEF StoreSet
  <2>2. done = [published EXCEPT !.pending = [st.pending EXCEPT ![p] = 0]]
    BY <1>2 DEF StoreSet
  <2> HIDE DEF done
  <2>3. QED
    BY <1>2, <2>1, <2>2 DEF StoreSet
<1> HIDE DEF done
<1>5. CommandOf(p, st, done) /\ HoldsAll(done, p)
  BY <1>1, <1>4, SMTT(30) DEF CommandOf, StoreSet, HoldsAll
<1>6. CommandOf(p, st, last) /\ HoldsAll(last, p)
  <2>1. CASE st.pointer[p] \in {0, st.pending[p]}
    BY <1>5, <2>1
  <2>2. CASE st.pointer[p] \notin {0, st.pending[p]}
    <3> DEFINE old == Without(done, st.pointer[p])
    <3>1. /\ old \in StoreSet
          /\ old.owner = st.owner /\ old.gen = st.gen
          /\ old.named = st.named /\ old.runtime = st.runtime /\ old.last = st.last
          /\ old.pending = done.pending /\ old.pointer = done.pointer
          /\ \A j \in Stages : old.cache[j] = IF j = st.pointer[p] THEN {} ELSE st.cache[j]
      <4>1. /\ old \in StoreSet
            /\ old.owner = done.owner /\ old.gen = done.gen
            /\ old.named = done.named /\ old.runtime = done.runtime /\ old.last = done.last
            /\ old.pending = done.pending /\ old.pointer = done.pointer
            /\ \A j \in Stages : old.cache[j] = IF j = st.pointer[p] THEN {} ELSE done.cache[j]
        BY <1>1, <1>4, WithoutOne, ZenonT(90)
      <4> HIDE DEF old, last
      <4>2. QED
        BY <1>4, <4>1
    <3>2. last = old
      BY <2>2
    <3> HIDE DEF old, last
    <3>3. CommandOf(p, st, old)
      <4>1. \A q \in People \ {p} :
               old.pointer[q] = st.pointer[q] /\ old.pending[q] = st.pending[q]
        BY <1>4, <3>1 DEF StoreSet
      <4>2. \A i \in Stages : old.cache[i] = st.cache[i] \/ (st.named[i] = p /\ old.cache[i] = {})
        BY <3>1 DEF NamesItsOwn
      <4>3. /\ old.pending[p] = 0 /\ old.pointer[p] = st.pending[p]
            /\ st.last <= old.last
        BY <1>4, <3>1 DEF StoreSet
      <4>4. QED
        BY <3>1, <4>1, <4>2, <4>3 DEF CommandOf
    <3>4. HoldsAll(old, p)
      BY <1>1, <1>4, <2>2, <3>1 DEF HoldsAll, StoreSet
    <3>5. QED
      BY <3>2, <3>3, <3>4
  <2>3. QED
    BY <2>1, <2>2
<1> HIDE DEF last
<1>7. FinishSteps(st, p) = <<published, done, last>>
  BY DEF FinishSteps, published, done, last
<1>8. QED
  BY <1>3, <1>5, <1>6, <1>7 DEF Done

LEMMA DeleteIsCommand ==
    ASSUME NEW st \in StoreSet, NEW p \in People, NamesItsOwn(st)
    PROVE  /\ \A i \in 1 .. Len(DeleteSteps(st, p)) : CommandOf(p, st, DeleteSteps(st, p)[i])
           /\ CommandOf(p, st, Done(DeleteSteps(st, p)))
           /\ HoldsAll(Done(DeleteSteps(st, p)), p)
<1> DEFINE unlisted == [st EXCEPT !.pointer[p] = 0]
           gone == Without(unlisted, st.pointer[p])
           last == [gone EXCEPT !.runtime = st.runtime \ {p}]
<1>1. st.pointer[p] \in 0 .. MaxSaves
  BY DEF StoreSet
<1>2. /\ unlisted \in StoreSet
      /\ unlisted.owner = st.owner /\ unlisted.gen = st.gen
      /\ unlisted.cache = st.cache /\ unlisted.named = st.named
      /\ unlisted.runtime = st.runtime /\ unlisted.last = st.last
      /\ unlisted.pending = st.pending
      /\ unlisted.pointer = [st.pointer EXCEPT ![p] = 0]
  <2>1. [st.pointer EXCEPT ![p] = 0] \in [People -> 0 .. MaxSaves]
    BY DEF StoreSet
  <2>2. unlisted = [st EXCEPT !.pointer = [st.pointer EXCEPT ![p] = 0]]
    BY DEF StoreSet
  <2> HIDE DEF unlisted
  <2>3. QED
    BY <2>1, <2>2 DEF StoreSet
<1> HIDE DEF unlisted
<1>3. CommandOf(p, st, unlisted)
  BY <1>1, <1>2 DEF CommandOf, StoreSet
<1>4. /\ gone \in StoreSet
      /\ gone.owner = st.owner /\ gone.gen = st.gen
      /\ gone.named = st.named /\ gone.runtime = st.runtime /\ gone.last = st.last
      /\ gone.pending = st.pending /\ gone.pointer = unlisted.pointer
      /\ \A j \in Stages : gone.cache[j] = IF j = st.pointer[p] THEN {} ELSE st.cache[j]
  <2>1. /\ gone \in StoreSet
        /\ gone.owner = unlisted.owner /\ gone.gen = unlisted.gen
        /\ gone.named = unlisted.named /\ gone.runtime = unlisted.runtime
        /\ gone.last = unlisted.last
        /\ gone.pending = unlisted.pending /\ gone.pointer = unlisted.pointer
        /\ \A j \in Stages :
              gone.cache[j] = IF j = st.pointer[p] THEN {} ELSE unlisted.cache[j]
    BY <1>1, <1>2, WithoutOne, ZenonT(90)
  <2> HIDE DEF gone
  <2>2. QED
    BY <1>2, <2>1
<1> HIDE DEF gone
<1>5. CommandOf(p, st, gone)
  <2>1. \A q \in People \ {p} : gone.pointer[q] = st.pointer[q] /\ gone.pending[q] = st.pending[q]
    BY <1>1, <1>2, <1>4 DEF StoreSet
  <2>2. \A i \in Stages : gone.named[i] = st.named[i] \/ (i > st.last /\ gone.named[i] = p)
    BY <1>1, <1>2, <1>4 DEF StoreSet
  <2>3. \A i \in Stages : gone.cache[i] = st.cache[i] \/ (st.named[i] = p /\ gone.cache[i] = {})
    BY <1>1, <1>2, <1>4 DEF NamesItsOwn
  <2>4. gone.pending[p] = st.pending[p] /\ gone.pointer[p] = 0 /\ st.last <= gone.last
    BY <1>2, <1>4 DEF StoreSet
  <2>5. QED
    BY <1>4, <2>1, <2>2, <2>3, <2>4 DEF CommandOf
<1>6. /\ last \in StoreSet
      /\ last.owner = st.owner /\ last.gen = st.gen
      /\ last.named = st.named /\ last.runtime = st.runtime \ {p} /\ last.last = st.last
      /\ last.pending = st.pending /\ last.pointer = unlisted.pointer
      /\ last.cache = gone.cache
  BY <1>1, <1>4 DEF StoreSet
<1> HIDE DEF last
<1>7. CommandOf(p, st, last) /\ HoldsAll(last, p)
  <2>1. last.pointer[p] = 0
    BY <1>2, <1>6 DEF StoreSet
  <2>2. last.runtime \subseteq st.runtime
    BY <1>6
  <2>3. QED
    BY <1>4, <1>5, <1>6, <2>1, <2>2 DEF CommandOf, HoldsAll
<1>8. DeleteSteps(st, p) = <<unlisted, gone, last>>
  BY DEF DeleteSteps, unlisted, gone, last
<1>9. QED
  BY <1>3, <1>5, <1>7, <1>8 DEF Done
-----------------------------------------------------------------------------
(* A command of the account the worker serves keeps what the others have,   *)
(* and their having nothing.                                               *)
LEMMA CommandKeeps ==
    ASSUME NEW st \in StoreSet, NEW next, NEW p \in People, NamesItsOwn(st),
           CommandOf(p, st, next)
    PROVE  /\ NamesItsOwn(next)
           /\ \A q \in People \ {p} : HoldsAll(st, q) => HoldsAll(next, q)
           /\ \A left \in SUBSET People :
                 st.owner = p /\ PurgedIn(st, left) => PurgedIn(next, left)
<1>1. ASSUME NEW q \in People \ {p}
      PROVE  /\ next.pointer[q] = st.pointer[q] /\ next.pending[q] = st.pending[q]
             /\ st.pointer[q] \in 0 .. MaxSaves /\ st.pending[q] \in 0 .. MaxSaves
             /\ \A i \in {st.pointer[q], st.pending[q]} :
                   i # 0 => next.named[i] = q /\ next.cache[i] = st.cache[i]
  <2>1. /\ st.pointer[q] \in 0 .. MaxSaves /\ st.pending[q] \in 0 .. MaxSaves
        /\ st.last \in 0 .. MaxSaves
    BY DEF StoreSet
  <2>2. ASSUME NEW i \in {st.pointer[q], st.pending[q]}, i # 0
        PROVE  next.named[i] = q /\ next.cache[i] = st.cache[i]
    <3>1. i \in Stages /\ i <= st.last /\ st.named[i] = q
      BY <2>1, <2>2 DEF NamesItsOwn
    <3>2. ~(i > st.last)
      BY <2>1, <3>1
    <3>3. QED
      BY <3>1, <3>2 DEF CommandOf
  <2>3. QED
    BY <2>1, <2>2 DEF CommandOf
<1>2. NamesItsOwn(next)
  <2>1. st.last \in Nat /\ next.last \in Nat /\ st.last <= next.last
    BY DEF CommandOf, StoreSet
  <2>2. ASSUME NEW q \in People \ {p}
        PROVE  /\ next.pointer[q] <= next.last /\ next.pending[q] <= next.last
               /\ next.pointer[q] # 0 => next.named[next.pointer[q]] = q
               /\ next.pending[q] # 0 => next.named[next.pending[q]] = q
    BY <1>1, <2>1, <2>2 DEF NamesItsOwn
  <2>3. ASSUME NEW i \in {st.pointer[p], st.pending[p]}, i # 0
        PROVE  next.named[i] = p /\ i <= next.last
    <3>1. i \in Stages /\ i <= st.last /\ st.named[i] = p
      BY <2>3, SMTT(30) DEF NamesItsOwn, StoreSet
    <3>2. QED
      BY <2>1, <3>1 DEF CommandOf
  <2>4. next.pointer[p] # 0 => next.named[next.pointer[p]] = p /\ next.pointer[p] <= next.last
    BY <2>3 DEF CommandOf
  <2>5. next.pending[p] # 0 => next.named[next.pending[p]] = p /\ next.pending[p] <= next.last
    BY <2>1, <2>3 DEF CommandOf
  <2>6. next.pointer[p] <= next.last /\ next.pending[p] <= next.last
    BY <2>1, <2>4, <2>5
  <2>7. QED
    <3>1. SUFFICES ASSUME NEW q \in People
                   PROVE  /\ next.pointer[q] <= next.last /\ next.pending[q] <= next.last
                          /\ next.pointer[q] # 0 => next.named[next.pointer[q]] = q
                          /\ next.pending[q] # 0 => next.named[next.pending[q]] = q
      BY DEF NamesItsOwn
    <3>2. CASE q = p
      BY <2>4, <2>5, <2>6, <3>2
    <3>3. CASE q # p
      BY <2>2, <3>3
    <3>4. QED
      BY <3>2, <3>3
<1>3. ASSUME NEW q \in People \ {p}, HoldsAll(st, q) PROVE HoldsAll(next, q)
  BY <1>1, <1>3 DEF HoldsAll
<1>4. ASSUME NEW left \in SUBSET People, st.owner = p, PurgedIn(st, left)
      PROVE  PurgedIn(next, left)
  <2>1. SUFFICES ASSUME NEW q \in People \ (left \cup {p})
                 PROVE  /\ next.pointer[q] = 0 /\ next.pending[q] = 0 /\ q \notin next.runtime
                        /\ \A i \in Stages : next.named[i] = q => next.cache[i] = {}
    BY <1>4 DEF CommandOf, PurgedIn
  <2>2. /\ st.pointer[q] = 0 /\ st.pending[q] = 0 /\ q \notin st.runtime
        /\ \A i \in Stages : st.named[i] = q => st.cache[i] = {}
    BY <1>4 DEF PurgedIn
  <2>3. \A i \in Stages : next.named[i] = q => next.cache[i] = {}
    BY <2>2 DEF CommandOf
  <2>4. QED
    BY <1>1, <2>2, <2>3 DEF CommandOf
<1>5. QED
  BY <1>2, <1>3, <1>4

(* Whoever lost the cache of a manifest is on record.                       *)
LEMMA HolesAreKnown ==
    ASSUME SavedTypeOK, NEW next, NEW p \in People, NamesItsOwn(store), ManifestIsWhole,
           CommandOf(p, store, next)
    PROVE  /\ Holes(p, next) \subseteq People
           /\ \A q \in People \ (Holes(p, next) \cup leftBehind) : HoldsAll(next, q)
<1>1. store \in StoreSet
  BY DEF SavedTypeOK, StoreSet
<1>2. Holes(p, next) \subseteq People /\ reused \subseteq Holes(p, next)
  BY DEF SavedTypeOK, Holes
<1>3. ASSUME NEW q \in People \ (Holes(p, next) \cup leftBehind) PROVE HoldsAll(next, q)
  <2>1. HoldsAll(store, q)
    BY <1>2 DEF ManifestIsWhole, CopyWhole, HoldsAll
  <2>2. CASE q # p
    BY <1>1, <2>1, <2>2, CommandKeeps
  <2>3. CASE q = p /\ next.pointer[p] # 0
    <3> DEFINE i == next.pointer[p]
    <3>1. i \in Stages /\ store.cache[i] = Complete
      BY <1>1, <2>1, <2>3 DEF CommandOf, StoreSet, HoldsAll
    <3>2. next.cache[i] = store.cache[i] \/ next.cache[i] = {}
      BY <3>1 DEF CommandOf
    <3>3. 0 \in Complete
      OBVIOUS
    <3>4. next.cache[i] # {}
      BY <2>3, <3>1, <3>3 DEF Holes
    <3>5. QED
      BY <2>3, <3>1, <3>2, <3>4 DEF HoldsAll
  <2>4. CASE q = p /\ next.pointer[p] = 0
    BY <2>4 DEF HoldsAll
  <2>5. QED
    BY <2>2, <2>3, <2>4
<1>4. QED
  BY <1>2, <1>3
-----------------------------------------------------------------------------
(* A purge, whole or cut, touches the old account's only. *)
LEMMA SwitchIsSwitch ==
    ASSUME NEW st \in StoreSet, NEW who \in Anyone, st.gen \in 0 .. MaxSignIns,
           NamesItsOwn(st)
    PROVE  /\ \A i \in 1 .. Len(SwitchSteps(st, who)) :
                 SwitchTo(who, st.owner, st, SwitchSteps(st, who)[i])
           /\ SwitchTo(who, st.owner, st, Done(SwitchSteps(st, who)))
           /\ st.owner # Nobody => Purged(st.owner, Done(SwitchSteps(st, who)))
           /\ st.owner # Nobody => Len(SwitchSteps(st, who)) = 3
<1> DEFINE owned == OwnedBy(st, who)
           old == st.owner
           swept == [i \in Stages |-> IF st.named[i] = old THEN {} ELSE st.cache[i]]
           emptied == [owned EXCEPT !.runtime = owned.runtime \ {old},
                          !.cache = [j \in Stages |-> IF owned.named[j] = old THEN {}
                                                      ELSE owned.cache[j]]]
           purged == [emptied EXCEPT !.pointer[old] = 0, !.pending[old] = 0]
<1>0. old \in Anyone
  BY DEF StoreSet
<1>1. /\ owned \in StoreSet
      /\ owned.owner = who /\ owned.gen = st.gen + 1
      /\ owned.cache = st.cache /\ owned.named = st.named
      /\ owned.pointer = st.pointer /\ owned.pending = st.pending
      /\ owned.runtime = st.runtime /\ owned.last = st.last
  <2>1. st.gen + 1 \in 0 .. MaxSignIns + 1
    OBVIOUS
  <2>2. QED
    BY <2>1 DEF OwnedBy, StoreSet
<1> HIDE DEF owned
<1>2. SwitchTo(who, old, st, owned)
  BY <1>1 DEF SwitchTo
<1>3. CASE old = Nobody
  <2>1. SwitchSteps(st, who) = <<owned>>
    BY <1>3 DEF SwitchSteps, owned
  <2>2. QED
    BY <1>2, <1>3, <2>1 DEF Done
<1>4. CASE old # Nobody
  <2>0. old \in People
    BY <1>0, <1>4
  <2>1. /\ emptied \in StoreSet
        /\ emptied.owner = who /\ emptied.gen = st.gen + 1
        /\ emptied.named = st.named /\ emptied.last = st.last
        /\ emptied.pointer = st.pointer /\ emptied.pending = st.pending
        /\ emptied.runtime = st.runtime \ {old} /\ emptied.cache = swept
    <3>1. swept \in [Stages -> SUBSET Complete]
      BY DEF StoreSet
    <3>2. emptied = [owned EXCEPT !.runtime = st.runtime \ {old}, !.cache = swept]
      BY <1>1
    <3> HIDE DEF emptied, swept
    <3>3. QED
      BY <1>1, <3>1, <3>2 DEF StoreSet
  <2>2. \A i \in Stages : swept[i] = IF st.named[i] = old THEN {} ELSE st.cache[i]
    OBVIOUS
  <2> HIDE DEF emptied, swept
  <2>3. SwitchTo(who, old, st, emptied)
    BY <2>1, <2>2 DEF SwitchTo
  <2>4. /\ purged \in StoreSet
        /\ purged.owner = who /\ purged.gen = st.gen + 1
        /\ purged.named = st.named /\ purged.last = st.last
        /\ purged.runtime = st.runtime \ {old} /\ purged.cache = swept
        /\ purged.pointer = [st.pointer EXCEPT ![old] = 0]
        /\ purged.pending = [st.pending EXCEPT ![old] = 0]
    <3>1. /\ [st.pointer EXCEPT ![old] = 0] \in [People -> 0 .. MaxSaves]
          /\ [st.pending EXCEPT ![old] = 0] \in [People -> 0 .. MaxSaves]
      <4> HIDE DEF old
      <4>1. QED
        BY <2>0 DEF StoreSet
    <3>2. purged = [emptied EXCEPT !.pointer = [st.pointer EXCEPT ![old] = 0],
                                   !.pending = [st.pending EXCEPT ![old] = 0]]
      BY <2>1 DEF StoreSet
    <3> HIDE DEF purged
    <3>3. QED
      BY <2>1, <3>1, <3>2 DEF StoreSet
  <2> HIDE DEF purged
  <2>5. SwitchTo(who, old, st, purged)
    BY <2>0, <2>2, <2>4, SMTT(30) DEF SwitchTo, StoreSet
  <2>6. Purged(old, purged)
    BY <2>0, <2>2, <2>4 DEF Purged, StoreSet
  <2>7. SwitchSteps(st, who) = <<owned, emptied, purged>>
    BY <1>4 DEF SwitchSteps, PurgeSteps, owned, emptied, purged
  <2>8. QED
    BY <1>2, <2>3, <2>5, <2>6, <2>7 DEF Done
<1>5. QED
  BY <1>3, <1>4

LEMMA SwitchKeeps ==
    ASSUME NEW st \in StoreSet, NEW next, NEW who \in Anyone, NamesItsOwn(st),
           SwitchTo(who, st.owner, st, next)
    PROVE  /\ NamesItsOwn(next)
           /\ \A q \in People \ {st.owner} : HoldsAll(st, q) => HoldsAll(next, q)
           /\ \A left \in SUBSET People :
                 PurgedIn(st, left) => PurgedIn(next, left \cup {st.owner})
<1>1. NamesItsOwn(next)
  <2>1. SUFFICES ASSUME NEW q \in People
                 PROVE  /\ next.pointer[q] <= next.last /\ next.pending[q] <= next.last
                        /\ next.pointer[q] # 0 => next.named[next.pointer[q]] = q
                        /\ next.pending[q] # 0 => next.named[next.pending[q]] = q
    BY DEF NamesItsOwn
  <2>2. /\ next.last = st.last /\ next.named = st.named /\ st.last \in Nat
        /\ next.pointer[q] \in {0, st.pointer[q]} /\ next.pending[q] \in {0, st.pending[q]}
    BY SMTT(30) DEF SwitchTo, StoreSet
  <2>3. QED
    BY <2>2 DEF NamesItsOwn
<1>2. ASSUME NEW q \in People \ {st.owner}, HoldsAll(st, q) PROVE HoldsAll(next, q)
  <2>1. next.pointer[q] = st.pointer[q] /\ st.pointer[q] \in 0 .. MaxSaves
    BY DEF SwitchTo, StoreSet
  <2>2. st.pointer[q] # 0 => st.named[st.pointer[q]] = q
    BY DEF NamesItsOwn
  <2>3. QED
    BY <1>2, <2>1, <2>2 DEF SwitchTo, HoldsAll
<1>3. ASSUME NEW left \in SUBSET People, PurgedIn(st, left)
      PROVE  PurgedIn(next, left \cup {st.owner})
  <2>1. SUFFICES ASSUME NEW q \in People \ (left \cup {st.owner})
                 PROVE  /\ next.pointer[q] = 0 /\ next.pending[q] = 0 /\ q \notin next.runtime
                        /\ \A i \in Stages : next.named[i] = q => next.cache[i] = {}
    BY DEF PurgedIn
  <2>2. /\ st.pointer[q] = 0 /\ st.pending[q] = 0 /\ q \notin st.runtime
        /\ \A i \in Stages : st.named[i] = q => st.cache[i] = {}
    BY <1>3 DEF PurgedIn
  <2>3. \A i \in Stages : next.named[i] = q => next.cache[i] = {}
    BY <2>2 DEF SwitchTo
  <2>4. QED
    BY <2>2, <2>3 DEF SwitchTo
<1>4. QED
  BY <1>1, <1>2, <1>3
-----------------------------------------------------------------------------
(* What holds of the storage. *)
StorageHolds ==
    /\ store \in StoreSet
    /\ NamesItsOwn(store)
    /\ reused \subseteq People /\ leftBehind \subseteq People
    /\ \A p \in People \ (reused \cup leftBehind) : HoldsAll(store, p)
    /\ PurgedIn(store, leftBehind)

(* The worker's account changes only to the one of the session. *)
OwnerMoves ==
    \/ store'.owner = store.owner /\ store'.gen = store.gen
    \/ store'.owner = session /\ session # store.owner /\ store'.gen = store.gen + 1

LEMMA StorageOfInv ==
    ASSUME SavedIndInv
    PROVE  StorageHolds
BY DEF SavedIndInv, SavedTypeOK, StorageHolds, StoreSet, ManifestIsWhole, CopyWhole, HoldsAll,
       OthersPurged, PurgedIn

(* After a command of the account the worker serves.                        *)
LEMMA CommandStep ==
    ASSUME SavedIndInv, NEW p \in People, store.owner = p, CommandOf(p, store, store'),
           leftBehind' = leftBehind,
           \/ reused' = Holes(p, store')
           \/ reused' = reused \ {p} /\ HoldsAll(store', p)
    PROVE  StorageHolds' /\ OwnerMoves
<1>1. StorageHolds /\ SavedTypeOK /\ ManifestIsWhole
  BY StorageOfInv DEF SavedIndInv
<1>2. store \in StoreSet /\ NamesItsOwn(store) /\ PurgedIn(store, leftBehind)
      /\ reused \subseteq People /\ leftBehind \subseteq People
  BY <1>1 DEF StorageHolds
<1>3. /\ NamesItsOwn(store')
      /\ \A q \in People \ {p} : HoldsAll(store, q) => HoldsAll(store', q)
      /\ PurgedIn(store', leftBehind)
  BY <1>2, CommandKeeps
<1>4. store' \in StoreSet
  BY DEF CommandOf
<1>5. /\ reused' \subseteq People
      /\ \A q \in People \ (reused' \cup leftBehind) : HoldsAll(store', q)
  <2>1. CASE reused' = Holes(p, store')
    BY <1>1, <1>2, <2>1, HolesAreKnown
  <2>2. CASE reused' = reused \ {p} /\ HoldsAll(store', p)
    BY <1>1, <1>2, <1>3, <2>2 DEF StorageHolds
  <2>3. QED
    BY <2>1, <2>2
<1>6. QED
  BY <1>2, <1>3, <1>4, <1>5 DEF StorageHolds, NamesItsOwn, HoldsAll, PurgedIn, CommandOf, OwnerMoves

LEMMA ActiveOwner ==
    ASSUME NEW t \in Tabs, Active(t)
    PROVE  scope[t] \in People /\ store.owner = scope[t]
BY DEF Active

LEMMA StartStores ==
    ASSUME SavedIndInv, NEW t \in Tabs, StartSaving(t)
    PROVE  StorageHolds' /\ OwnerMoves
<1>1. StorageHolds /\ scope[t] \in People /\ store.owner = scope[t]
  BY StorageOfInv, ActiveOwner DEF StartSaving
<1>2. 2 \in 1 .. Len(BeginSteps(store, scope[t])) /\ Len(BeginSteps(store, scope[t])) = 2
  BY DEF BeginSteps
<1>3. CommandOf(scope[t], store, store')
  BY <1>1, <1>2, BeginIsCommand DEF StartSaving, StorageHolds, Done
<1>4. QED
  BY <1>1, <1>3, CommandStep DEF StartSaving

LEMMA FinishStores ==
    ASSUME SavedIndInv, NEW t \in Tabs, FinishSaving(t)
    PROVE  StorageHolds' /\ OwnerMoves
<1>1. StorageHolds /\ scope[t] \in People /\ store.owner = scope[t]
  BY StorageOfInv, ActiveOwner DEF FinishSaving, Finishable
<1>2. CommandOf(scope[t], store, store') /\ HoldsAll(store', scope[t])
  BY <1>1, FinishIsCommand DEF FinishSaving, Finishable, Ready, StorageHolds
<1>3. QED
  BY <1>1, <1>2, CommandStep DEF FinishSaving

LEMMA CancelStores ==
    ASSUME SavedIndInv, NEW t \in Tabs, CancelSaving(t)
    PROVE  StorageHolds' /\ OwnerMoves
<1>1. StorageHolds
  BY StorageOfInv
<1>2. CASE Active(t)
  <2>1. scope[t] \in People /\ store.owner = scope[t]
    BY <1>2, ActiveOwner
  <2>2. 2 \in 1 .. Len(CancelSteps(store, scope[t])) /\ Len(CancelSteps(store, scope[t])) = 2
    BY DEF CancelSteps
  <2>3. CommandOf(scope[t], store, store')
    BY <1>1, <1>2, <2>1, <2>2, CancelIsCommand DEF CancelSaving, StorageHolds, Done
  <2>4. QED
    BY <1>2, <2>1, <2>3, CommandStep DEF CancelSaving
<1>3. CASE ~Active(t)
  BY <1>1, <1>3 DEF CancelSaving, StorageHolds, NamesItsOwn, HoldsAll, PurgedIn, OwnerMoves
<1>4. QED
  BY <1>2, <1>3

LEMMA DeleteStores ==
    ASSUME SavedIndInv, NEW t \in Tabs, DeleteSaved(t)
    PROVE  StorageHolds' /\ OwnerMoves
<1>1. StorageHolds /\ scope[t] \in People /\ store.owner = scope[t]
  BY StorageOfInv, ActiveOwner DEF DeleteSaved
<1>2. CommandOf(scope[t], store, store') /\ HoldsAll(store', scope[t])
  BY <1>1, DeleteIsCommand DEF DeleteSaved, StorageHolds
<1>3. QED
  BY <1>1, <1>2, CommandStep DEF DeleteSaved

(* A page is put into the cache of the pending save of the account served. *)
LEMMA PutPageStores ==
    ASSUME SavedIndInv, NEW t \in Tabs, PutPage(t)
    PROVE  StorageHolds' /\ OwnerMoves
<1> DEFINE s == save[t]
<1>1. StorageHolds /\ s.stage \in Stages /\ s.who \in People /\ s.n \in Complete
  BY StorageOfInv DEF SavedIndInv, FetchesForStage, TasksAreOwned, PutPage, SavedTypeOK
<1>2. /\ store.owner = s.who /\ store.pending[s.who] = s.stage
      /\ reused' = reused /\ leftBehind' = leftBehind
  BY DEF PutPage, Staged, Fence
<1>3. /\ store' \in StoreSet
      /\ store'.owner = store.owner /\ store'.gen = store.gen /\ store'.last = store.last
      /\ store'.named = store.named
      /\ store'.pointer = store.pointer /\ store'.pending = store.pending
      /\ store'.runtime \subseteq store.runtime
      /\ store'.cache = [store.cache EXCEPT ![s.stage] = @ \cup {0, s.n}]
  <2>1. PICK full \in BOOLEAN :
           store' = [store EXCEPT !.cache[s.stage] = @ \cup {0, s.n},
                       !.runtime = IF full THEN @ \ {s.who} ELSE @]
    BY DEF PutPage
  <2>2. [store.cache EXCEPT ![s.stage] = @ \cup {0, s.n}] \in [Stages -> SUBSET Complete]
    BY <1>1, SMTT(30) DEF StorageHolds, StoreSet
  <2>3. store' = [store EXCEPT !.cache = [store.cache EXCEPT ![s.stage] = @ \cup {0, s.n}],
                               !.runtime = IF full THEN store.runtime \ {s.who}
                                           ELSE store.runtime]
    BY <1>1, <2>1 DEF StorageHolds, StoreSet
  <2> HIDE DEF s
  <2>4. QED
    BY <1>1, <2>2, <2>3 DEF StorageHolds, StoreSet
<1>4. ASSUME NEW i \in Stages, i # s.stage \/ store.cache[i] = Complete
      PROVE  store'.cache[i] = store.cache[i]
  BY <1>1, <1>3, <1>4 DEF StorageHolds, StoreSet
<1>5. \A p \in People \ (reused' \cup leftBehind') : HoldsAll(store', p)
  <2>1. SUFFICES ASSUME NEW p \in People \ (reused \cup leftBehind), store.pointer[p] # 0
                 PROVE  store'.cache[store.pointer[p]] = Complete
    BY <1>2, <1>3 DEF HoldsAll
  <2>2. store.pointer[p] \in Stages /\ store.cache[store.pointer[p]] = Complete
    BY <1>1, <2>1 DEF StorageHolds, StoreSet, HoldsAll
  <2>3. QED
    BY <1>4, <2>2
<1>6. PurgedIn(store', leftBehind')
  <2>1. store.named[s.stage] = s.who
    BY <1>1, <1>2 DEF StorageHolds, NamesItsOwn
  <2>2. QED
    BY <1>1, <1>2, <1>3, <1>4, <2>1 DEF StorageHolds, PurgedIn
<1>7. NamesItsOwn(store')
  BY <1>1, <1>3 DEF StorageHolds, NamesItsOwn
<1>8. QED
  BY <1>1, <1>2, <1>3, <1>5, <1>6, <1>7
     DEF StorageHolds, NamesItsOwn, HoldsAll, PurgedIn, OwnerMoves

(* The runtime cache changes alone. *)
LEMMA RuntimeStores ==
    ASSUME SavedIndInv, reused' = reused, leftBehind' = leftBehind,
           NEW S \in SUBSET People, store' = [store EXCEPT !.runtime = S],
           S \subseteq store.runtime \cup {store.owner}
    PROVE  StorageHolds' /\ OwnerMoves
<1>1. StorageHolds
  BY StorageOfInv
<1>2. /\ store' \in StoreSet
      /\ store'.owner = store.owner /\ store'.gen = store.gen /\ store'.last = store.last
      /\ store'.named = store.named /\ store'.cache = store.cache
      /\ store'.pointer = store.pointer /\ store'.pending = store.pending
      /\ store'.runtime = S
  BY <1>1 DEF StorageHolds, StoreSet
<1>3. QED
  BY <1>1, <1>2 DEF StorageHolds, NamesItsOwn, HoldsAll, PurgedIn, OwnerMoves

(* A tab is loaded; a change of accounts purges the old one's.              *)
LEMMA LoadStores ==
    ASSUME SavedIndInv, NEW t \in Tabs, NEW online \in BOOLEAN, LoadTab(t, online)
    PROVE  StorageHolds' /\ OwnerMoves
<1> DEFINE who == IF online THEN session ELSE localOwner
<1>1. /\ StorageHolds /\ who \in Anyone
      /\ reused' = {p \in reused : store'.pointer[p] # 0}
  BY StorageOfInv DEF SavedIndInv, SavedTypeOK, LoadTab
<1>2. CASE online /\ who # store.owner
  <2>1. store.gen \in 0 .. MaxSignIns
    BY <1>2 DEF SavedIndInv, SavedTypeOK, GenerationsCounted
  <2>2. store' = Done(SwitchSteps(store, who))
    BY <1>2 DEF LoadTab
  <2>3. SwitchTo(who, store.owner, store, store')
        /\ (store.owner # Nobody => Purged(store.owner, store'))
    <3> HIDE DEF who
    <3>1. QED
      BY <1>1, <2>1, <2>2, SwitchIsSwitch DEF StorageHolds
  <2>4. store' # store /\ leftBehind' = leftBehind \ {store.owner}
    <3>1. store' # store
      BY <1>2, <2>3 DEF SwitchTo
    <3>2. QED
      BY <3>1 DEF LoadTab
  <2>5. /\ NamesItsOwn(store')
        /\ \A q \in People \ {store.owner} : HoldsAll(store, q) => HoldsAll(store', q)
        /\ PurgedIn(store', leftBehind \cup {store.owner})
    <3> HIDE DEF who
    <3>1. QED
      BY <1>1, <2>3, SwitchKeeps DEF StorageHolds
  <2>6. PurgedIn(store', leftBehind')
    BY <1>1, <2>3, <2>4, <2>5 DEF PurgedIn, Purged, StorageHolds, StoreSet
  <2>7. \A p \in People \ (reused' \cup leftBehind') : HoldsAll(store', p)
    <3>1. SUFFICES ASSUME NEW p \in People \ (reused' \cup leftBehind'),
                          store'.pointer[p] # 0
                   PROVE  HoldsAll(store', p)
      BY DEF HoldsAll
    <3>2. p \notin reused
      BY <1>1, <3>1
    <3>3. CASE p = store.owner
      BY <2>3, <3>1, <3>3 DEF Purged
    <3>4. CASE p # store.owner
      BY <1>1, <2>4, <2>5, <3>2, <3>4 DEF StorageHolds
    <3>5. QED
      BY <3>3, <3>4
  <2>8. store' \in StoreSet
    BY <2>3 DEF SwitchTo
  <2>9. reused' \subseteq People /\ leftBehind' \subseteq People
    BY <1>1, <2>4 DEF StorageHolds
  <2>10. OwnerMoves
    BY <1>2, <2>3 DEF SwitchTo, OwnerMoves
  <2>11. QED
    BY <2>5, <2>6, <2>7, <2>8, <2>9, <2>10 DEF StorageHolds, NamesItsOwn, HoldsAll, PurgedIn
<1>3. CASE ~(online /\ who # store.owner)
  <2>1. store' = store /\ leftBehind' = leftBehind
    BY <1>3 DEF LoadTab
  <2>2. QED
    BY <1>1, <2>1 DEF StorageHolds, NamesItsOwn, HoldsAll, PurgedIn, OwnerMoves
<1>4. QED
  BY <1>2, <1>3

(* The worker is stopped, perhaps within a command or a purge. *)
LEMMA StopStores ==
    ASSUME SavedIndInv, StopWorker
    PROVE  StorageHolds' /\ OwnerMoves
<1>1. StorageHolds
  BY StorageOfInv
<1>2. CASE UNCHANGED <<store, reused, leftBehind>>
  BY <1>1, <1>2 DEF StorageHolds, NamesItsOwn, HoldsAll, PurgedIn, OwnerMoves
<1>3. ASSUME NEW t \in Tabs, Active(t), leftBehind' = leftBehind,
             NEW steps, NEW i \in 1 .. Len(steps),
             store' = steps[i], reused' = Holes(scope[t], steps[i]),
             \/ steps = <<store>>
             \/ steps = BeginSteps(store, scope[t]) /\ store.last < MaxSaves
             \/ steps = CancelSteps(store, scope[t])
             \/ steps = FinishSteps(store, scope[t]) /\ Finishable(t)
             \/ steps = DeleteSteps(store, scope[t])
      PROVE  StorageHolds' /\ OwnerMoves
  <2>1. scope[t] \in People /\ store.owner = scope[t]
    BY <1>3, ActiveOwner
  <2>2. CASE steps = <<store>>
    <3>1. store' = store
      BY <1>3, <2>2
    <3>2. Holes(scope[t], store) = reused
      BY DEF Holes
    <3>3. QED
      BY <1>1, <1>3, <3>1, <3>2 DEF StorageHolds, NamesItsOwn, HoldsAll, PurgedIn, OwnerMoves
  <2>3. CASE steps # <<store>>
    <3>1. CommandOf(scope[t], store, steps[i])
      BY <1>1, <1>3, <2>1, <2>3, BeginIsCommand, CancelIsCommand, FinishIsCommand,
         DeleteIsCommand DEF StorageHolds, Finishable, Ready
    <3>2. QED
      BY <1>3, <2>1, <3>1, CommandStep
  <2>4. QED
    BY <2>2, <2>3
<1>4. ASSUME session # store.owner, store.owner # Nobody, NEW i \in 1 .. 2,
             store' = SwitchSteps(store, session)[i],
             leftBehind' = leftBehind \cup {store.owner}, reused' = reused
      PROVE  StorageHolds' /\ OwnerMoves
  <2>1. store.gen \in 0 .. MaxSignIns /\ session \in Anyone
    BY <1>4 DEF SavedIndInv, SavedTypeOK, GenerationsCounted
  <2>2. SwitchTo(session, store.owner, store, store')
    BY <1>1, <1>4, <2>1, SwitchIsSwitch DEF StorageHolds
  <2>3. /\ NamesItsOwn(store')
        /\ \A q \in People \ {store.owner} : HoldsAll(store, q) => HoldsAll(store', q)
        /\ PurgedIn(store', leftBehind \cup {store.owner})
    BY <1>1, <2>1, <2>2, SwitchKeeps DEF StorageHolds
  <2>4. store' \in StoreSet /\ leftBehind' \subseteq People
    BY <1>1, <1>4, <2>2 DEF SwitchTo, StorageHolds, StoreSet
  <2>5. \A p \in People \ (reused' \cup leftBehind') : HoldsAll(store', p)
    BY <1>1, <1>4, <2>3 DEF StorageHolds
  <2>6. QED
    BY <1>1, <1>4, <2>2, <2>3, <2>4, <2>5
       DEF StorageHolds, NamesItsOwn, HoldsAll, PurgedIn, SwitchTo, OwnerMoves
<1>5. CASE /\ \E t \in Tabs : Active(t) /\
                \E steps \in {IF save[t] = NoTask /\ store.last < MaxSaves
                              THEN BeginSteps(store, scope[t]) ELSE <<store>>,
                              IF save[t].at = "cancel" THEN CancelSteps(store, scope[t])
                              ELSE <<store>>,
                              IF Finishable(t) THEN FinishSteps(store, scope[t]) ELSE <<store>>,
                              DeleteSteps(store, scope[t])} :
                   \E i \in 1 .. Len(steps) :
                      store' = steps[i] /\ reused' = Holes(scope[t], steps[i])
           /\ UNCHANGED leftBehind
  BY <1>3, <1>5
<1>6. QED
  BY <1>2, <1>4, <1>5 DEF StopWorker
-----------------------------------------------------------------------------
(* What holds of the storage, through every step. *)
LEMMA StorageStep == SavedIndInv /\ [SavedNext]_pageVars => StorageHolds' /\ OwnerMoves
<1> SUFFICES ASSUME SavedIndInv, [SavedNext]_pageVars PROVE StorageHolds' /\ OwnerMoves
  OBVIOUS
<1>0. StorageHolds
  BY StorageOfInv
<1>1. CASE UNCHANGED <<store, reused, leftBehind>>
  BY <1>0, <1>1 DEF StorageHolds, NamesItsOwn, HoldsAll, PurgedIn, OwnerMoves
<1>2. ASSUME NEW t \in Tabs, FetchPage(t) \/ StopSaving(t) \/ ReadThrough(t)
      PROVE  StorageHolds' /\ OwnerMoves
  BY <1>1, <1>2 DEF FetchPage, StopSaving, ReadThrough
<1>3. ASSUME NEW t \in Tabs, PutRuntime(t)
      PROVE  StorageHolds' /\ OwnerMoves
  <2>1. CASE Fence(read[t][1], read[t][2])
    <3> DEFINE S == store.runtime \cup {read[t][1]}
    <3>1. store' = [store EXCEPT !.runtime = S]
      BY <1>0, <1>3, <2>1 DEF PutRuntime, StorageHolds, StoreSet
    <3>2. read[t][1] = store.owner /\ read[t][1] \in People
      BY <1>3, <2>1 DEF Fence, PutRuntime, SavedIndInv, SavedTypeOK
    <3>3. S \in SUBSET People /\ S \subseteq store.runtime \cup {store.owner}
      BY <1>0, <3>2 DEF StorageHolds, StoreSet
    <3>4. reused' = reused /\ leftBehind' = leftBehind
      BY <1>3 DEF PutRuntime
    <3> HIDE DEF S
    <3>5. QED
      BY <3>1, <3>3, <3>4, RuntimeStores
  <2>2. CASE ~Fence(read[t][1], read[t][2])
    BY <1>1, <1>3, <2>2 DEF PutRuntime
  <2>3. QED
    BY <2>1, <2>2
<1>4. CASE ClearRuntime
  <2>1. PICK p \in store.runtime : store' = [store EXCEPT !.runtime = @ \ {p}]
    BY <1>4 DEF ClearRuntime
  <2> DEFINE S == store.runtime \ {p}
  <2>2. store' = [store EXCEPT !.runtime = S]
    BY <2>1
  <2>3. S \in SUBSET People /\ S \subseteq store.runtime \cup {store.owner}
    BY <1>0 DEF StorageHolds, StoreSet
  <2>4. reused' = reused /\ leftBehind' = leftBehind
    BY <1>4 DEF ClearRuntime
  <2> HIDE DEF S
  <2>5. QED
    BY <2>2, <2>3, <2>4, RuntimeStores
<1>5. ASSUME NEW who \in Anyone, ChangeSession(who)
      PROVE  StorageHolds' /\ OwnerMoves
  BY <1>1, <1>5 DEF ChangeSession
<1>6. CASE UNCHANGED pageVars
  BY <1>1, <1>6 DEF pageVars
<1>7. QED
  BY <1>2, <1>3, <1>4, <1>5, <1>6, StartStores, PutPageStores, FinishStores, CancelStores,
     DeleteStores, LoadStores, StopStores DEF SavedNext
-----------------------------------------------------------------------------
SaveSet == [at : {"rest", "page", "fetch", "finish", "cancel"}, who : Anyone,
            n : 0 .. SavedLength, gen : 0 .. MaxSignIns + 1, stage : 0 .. MaxSaves]

(* What holds of the saves of the tabs. *)
TasksHold ==
    /\ save \in [Tabs -> SaveSet]
    /\ FetchesForStage
    /\ TasksAreOwned

LEMMA SetTask ==
    ASSUME TasksHold, NEW t \in Tabs, NEW task \in SaveSet, save' = [save EXCEPT ![t] = task],
           task.at = "fetch" => task.stage \in Stages,
           task.at # "rest" => task.who \in People
    PROVE  TasksHold'
BY DEF TasksHold, FetchesForStage, TasksAreOwned

LEMMA TaskAt ==
    ASSUME NEW at \in {"rest", "page", "fetch", "finish", "cancel"}, NEW who \in Anyone,
           NEW n \in 0 .. SavedLength, NEW gen \in 0 .. MaxSignIns + 1, NEW i \in 0 .. MaxSaves
    PROVE  /\ AtPage(who, n, gen, i, at) \in SaveSet
           /\ AtPage(who, n, gen, i, at).at = at /\ AtPage(who, n, gen, i, at).who = who
           /\ AtPage(who, n, gen, i, at).stage = i
BY DEF AtPage, SaveSet

LEMMA NoTaskIsTask == NoTask \in SaveSet /\ NoTask.at = "rest"
<1>1. 0 \in 0 .. SavedLength /\ 0 \in 0 .. MaxSignIns + 1 /\ 0 \in 0 .. MaxSaves
  OBVIOUS
<1>2. QED
  BY <1>1, TaskAt DEF NoTask

LEMMA TasksStep == SavedIndInv /\ [SavedNext]_pageVars => TasksHold'
<1> SUFFICES ASSUME SavedIndInv, [SavedNext]_pageVars PROVE TasksHold'
  OBVIOUS
<1>0. TasksHold /\ store \in StoreSet
  BY StorageOfInv DEF SavedIndInv, SavedTypeOK, TasksHold, SaveSet, StorageHolds
<1>a. /\ 0 \in 0 .. SavedLength /\ 1 \in 0 .. SavedLength
      /\ 0 \in 0 .. MaxSignIns + 1 /\ 0 \in 0 .. MaxSaves
  OBVIOUS
<1>1. CASE UNCHANGED save
  BY <1>0, <1>1 DEF TasksHold, FetchesForStage, TasksAreOwned
<1>2. ASSUME NEW t \in Tabs, save' = [save EXCEPT ![t] = NoTask]
      PROVE  TasksHold'
  BY <1>0, <1>2, NoTaskIsTask, SetTask
<1>3. ASSUME NEW t \in Tabs, StartSaving(t)
      PROVE  TasksHold'
  <2>1. scope[t] \in People
    BY <1>3, ActiveOwner DEF StartSaving
  <2> DEFINE task == AtPage(scope[t], 1, 0, 0, "page")
  <2>2. task \in SaveSet /\ task.at = "page" /\ task.who = scope[t]
    BY <1>a, <2>1, TaskAt
  <2>3. save' = [save EXCEPT ![t] = task]
    BY <1>3 DEF StartSaving
  <2> HIDE DEF task
  <2>4. QED
    BY <1>0, <2>1, <2>2, <2>3, SetTask
<1>4. ASSUME NEW t \in Tabs, FetchPage(t)
      PROVE  TasksHold'
  <2>1. scope[t] \in People
    BY <1>4, ActiveOwner DEF FetchPage
  <2>2. /\ save[t].n \in 0 .. SavedLength /\ save[t].who \in People
        /\ store.gen \in 0 .. MaxSignIns + 1
        /\ store.pending[scope[t]] \in 0 .. MaxSaves /\ store.pending[scope[t]] \in Stages
    BY <1>0, <1>4, <2>1 DEF FetchPage, TasksHold, SaveSet, TasksAreOwned, StoreSet
  <2> DEFINE task == AtPage(save[t].who, save[t].n, store.gen, store.pending[scope[t]], "fetch")
  <2>3. task \in SaveSet /\ task.who = save[t].who /\ task.stage = store.pending[scope[t]]
    <3>1. save[t].who \in Anyone
      BY <2>2
    <3>2. /\ AtPage(save[t].who, save[t].n, store.gen, store.pending[scope[t]], "fetch") \in SaveSet
          /\ AtPage(save[t].who, save[t].n, store.gen, store.pending[scope[t]], "fetch").who
                 = save[t].who
          /\ AtPage(save[t].who, save[t].n, store.gen, store.pending[scope[t]], "fetch").stage
                 = store.pending[scope[t]]
      BY ONLY <2>2, <3>1, TaskAt
    <3>3. QED
      BY ONLY <3>2 DEF task
  <2>4. save' = [save EXCEPT ![t] = task]
    BY <1>4 DEF FetchPage
  <2> HIDE DEF task
  <2>5. QED
    BY <1>0, <2>2, <2>3, <2>4, SetTask
<1>5. ASSUME NEW t \in Tabs, PutPage(t)
      PROVE  TasksHold'
  <2>1. save[t].who \in People /\ save[t].n \in 0 .. SavedLength
    BY <1>0, <1>5 DEF PutPage, TasksHold, TasksAreOwned, SaveSet
  <2>2. save[t].n # SavedLength => save[t].n + 1 \in 0 .. SavedLength
    BY <2>1
  <2> DEFINE last == AtPage(save[t].who, 0, 0, 0, "finish")
             task == AtPage(save[t].who, save[t].n + 1, 0, 0, "page")
  <2>3. last \in SaveSet /\ last.at = "finish" /\ last.who \in People
    BY <1>a, <2>1, TaskAt
  <2>4. save[t].n # SavedLength => task \in SaveSet /\ task.at = "page" /\ task.who \in People
    BY <1>a, <2>1, <2>2, TaskAt
  <2>5. save' = [save EXCEPT ![t] = IF save[t].n = SavedLength THEN last ELSE task]
    BY <1>5 DEF PutPage
  <2> HIDE DEF last, task
  <2>6. CASE save[t].n = SavedLength
    BY <1>0, <2>3, <2>5, <2>6, SetTask
  <2>7. CASE save[t].n # SavedLength
    BY <1>0, <2>4, <2>5, <2>7, SetTask
  <2>8. QED
    BY <2>6, <2>7
<1>6. ASSUME NEW t \in Tabs, StopSaving(t)
      PROVE  TasksHold'
  <2>1. save' = [save EXCEPT ![t].at = "cancel"] /\ save[t].at # "rest"
    BY <1>6 DEF StopSaving
  <2>2. QED
    BY <1>0, <2>1 DEF TasksHold, SaveSet, FetchesForStage, TasksAreOwned
<1>7. CASE StopWorker
  <2>1. save' = [t \in Tabs |-> IF save[t].at = "fetch" THEN [save[t] EXCEPT !.at = "cancel"]
                                ELSE save[t]]
    BY <1>7 DEF StopWorker
  <2>2. QED
    BY <1>0, <2>1 DEF TasksHold, SaveSet, FetchesForStage, TasksAreOwned
<1>8. ASSUME NEW t \in Tabs, FinishSaving(t) \/ CancelSaving(t) \/
                             (\E online \in BOOLEAN : LoadTab(t, online))
      PROVE  TasksHold'
  BY <1>2, <1>8 DEF FinishSaving, CancelSaving, LoadTab
<1>9. QED
  <2>1. ASSUME NEW t \in Tabs, DeleteSaved(t) \/ ReadThrough(t) \/ PutRuntime(t)
        PROVE  TasksHold'
    BY <1>1, <2>1 DEF DeleteSaved, ReadThrough, PutRuntime
  <2>2. CASE ClearRuntime \/ (\E who \in Anyone : ChangeSession(who)) \/ UNCHANGED pageVars
    BY <1>1, <2>2 DEF ClearRuntime, ChangeSession, pageVars
  <2>3. QED
    BY <1>3, <1>4, <1>5, <1>6, <1>7, <1>8, <2>1, <2>2 DEF SavedNext
-----------------------------------------------------------------------------
(* The rest of the types. *)
RestTyped ==
    /\ session \in Anyone /\ localOwner \in Anyone
    /\ scope \in [Tabs -> Anyone] /\ clients \in [Tabs -> Anyone]
    /\ read \in [Tabs -> {<<>>} \cup (People \X (0 .. MaxSignIns + 1))]
    /\ signIns \in 0 .. MaxSignIns /\ workerFaults \in 0 .. MaxWorkerFaults

LEMMA RestTypeStep == SavedIndInv /\ [SavedNext]_pageVars => RestTyped'
<1> SUFFICES ASSUME SavedIndInv, [SavedNext]_pageVars PROVE RestTyped'
  OBVIOUS
<1>0. RestTyped /\ store.gen \in 0 .. MaxSignIns + 1
  BY DEF SavedIndInv, SavedTypeOK, RestTyped
<1>b. ASSUME WorkerFault PROVE workerFaults' \in 0 .. MaxWorkerFaults
  BY <1>0, <1>b DEF WorkerFault, RestTyped
<1>1. ASSUME NEW t \in Tabs, StartSaving(t) \/ FetchPage(t) \/ FinishSaving(t)
                             \/ CancelSaving(t) \/ DeleteSaved(t)
      PROVE  RestTyped'
  BY <1>0, <1>1 DEF StartSaving, FetchPage, FinishSaving, CancelSaving, DeleteSaved,
                    workerMemory, RestTyped
<1>2. ASSUME NEW t \in Tabs, PutPage(t) \/ StopSaving(t)
      PROVE  RestTyped'
  <2>1. WorkerFault \/ workerFaults' = workerFaults
    BY <1>2 DEF PutPage, StopSaving
  <2>2. workerFaults' \in 0 .. MaxWorkerFaults
    BY <1>0, <1>b, <2>1 DEF RestTyped
  <2>3. UNCHANGED <<session, localOwner, scope, clients, read, signIns>>
    BY <1>2 DEF PutPage, StopSaving, workerMemory
  <2>4. QED
    BY <1>0, <2>2, <2>3 DEF RestTyped
<1>3. ASSUME NEW t \in Tabs, ReadThrough(t)
      PROVE  RestTyped'
  <2>1. scope[t] \in People
    BY <1>3, ActiveOwner DEF ReadThrough
  <2>2. QED
    BY <1>0, <1>3, <2>1 DEF ReadThrough, RestTyped
<1>4. ASSUME NEW t \in Tabs, PutRuntime(t)
      PROVE  RestTyped'
  BY <1>0, <1>4 DEF PutRuntime, RestTyped
<1>5. ASSUME NEW t \in Tabs, NEW online \in BOOLEAN, LoadTab(t, online)
      PROVE  RestTyped'
  BY <1>0, <1>5 DEF LoadTab, RestTyped
<1>6. CASE ClearRuntime
  BY <1>0, <1>6 DEF ClearRuntime, workerMemory, RestTyped
<1>7. ASSUME NEW who \in Anyone, ChangeSession(who)
      PROVE  RestTyped'
  BY <1>0, <1>7 DEF ChangeSession, workerMemory, RestTyped
<1>8. CASE StopWorker
  <2>1. workerFaults' \in 0 .. MaxWorkerFaults
    BY <1>b, <1>8 DEF StopWorker
  <2>2. /\ clients' = [t \in Tabs |-> Nobody] /\ read' = [t \in Tabs |-> <<>>]
        /\ UNCHANGED <<session, localOwner, scope, signIns>>
    BY <1>8, SMTT(30) DEF StopWorker
  <2>3. QED
    BY <1>0, <2>1, <2>2 DEF RestTyped
<1>9. CASE UNCHANGED pageVars
  BY <1>0, <1>9, SMTT(30) DEF pageVars, workerMemory, RestTyped
<1>10. QED
  BY <1>1, <1>2, <1>3, <1>4, <1>5, <1>6, <1>7, <1>8, <1>9 DEF SavedNext

(* Every change of accounts was preceded by a sign-in. *)
LEMMA GenerationsStep == SavedIndInv /\ [SavedNext]_pageVars => GenerationsCounted'
<1> SUFFICES ASSUME SavedIndInv, [SavedNext]_pageVars PROVE GenerationsCounted'
  OBVIOUS
<1>0. GenerationsCounted /\ OwnerMoves /\ store.gen \in Nat /\ signIns \in Nat
  BY StorageStep DEF SavedIndInv, SavedTypeOK
<1>1. CASE UNCHANGED <<session, signIns>>
  BY <1>0, <1>1 DEF GenerationsCounted, OwnerMoves
<1>2. ASSUME NEW who \in Anyone, ChangeSession(who)
      PROVE  GenerationsCounted'
  BY <1>0, <1>2 DEF ChangeSession, GenerationsCounted
<1>3. QED
  BY <1>1, <1>2 DEF SavedNext, StartSaving, FetchPage, PutPage, FinishSaving, StopSaving,
     CancelSaving, DeleteSaved, ReadThrough, PutRuntime, LoadTab, ClearRuntime, StopWorker,
     pageVars
-----------------------------------------------------------------------------
(* The inductive invariant of the saved pages. *)
THEOREM SavedSpecIndInv == SavedSpec => []SavedIndInv
<1>1. SavedIndInv /\ [SavedNext]_pageVars => SavedIndInv'
  <2> SUFFICES ASSUME SavedIndInv, [SavedNext]_pageVars PROVE SavedIndInv'
    OBVIOUS
  <2>1. StorageHolds' /\ TasksHold' /\ RestTyped' /\ GenerationsCounted'
    BY StorageStep, TasksStep, RestTypeStep, GenerationsStep
  <2>2. SavedTypeOK'
    BY <2>1 DEF StorageHolds, TasksHold, RestTyped, SavedTypeOK, StoreSet, SaveSet
  <2>3. ManifestIsWhole' /\ OthersPurged'
    BY <2>1 DEF StorageHolds, ManifestIsWhole, CopyWhole, HoldsAll, OthersPurged, PurgedIn
  <2>4. QED
    BY <2>1, <2>2, <2>3 DEF StorageHolds, TasksHold, SavedIndInv
<1>2. QED
  BY <1>1, SavedInitIndInv, PTL DEF SavedSpec

(* Every reachable state of the worker's storage, of the tabs and of their  *)
(* saves has the declared types.                                            *)
THEOREM SavedTypeCorrect == SavedSpec => []SavedTypeOK
<1>1. SavedIndInv => SavedTypeOK
  BY DEF SavedIndInv
<1>2. QED
  BY <1>1, SavedSpecIndInv, PTL

(* A published manifest names a complete cache, unless a worker stopped     *)
(* within save-finish or within a purge had left records behind (sw.js).    *)
THEOREM ManifestsAreWhole == SavedSpec => []ManifestIsWhole
<1>1. SavedIndInv => ManifestIsWhole
  BY DEF SavedIndInv
<1>2. QED
  BY <1>1, SavedSpecIndInv, PTL

(* Nothing of an account stays stored but of the one the worker serves,     *)
(* unless its purge was cut (sw.js, setScope and assertScope).              *)
THEOREM OthersArePurged == SavedSpec => []OthersPurged
<1>1. SavedIndInv => OthersPurged
  BY DEF SavedIndInv
<1>2. QED
  BY <1>1, SavedSpecIndInv, PTL
-----------------------------------------------------------------------------
(* The worker is not stopped between the two writes of a finish, the        *)
(* manifest's and the removal of the pending record: what a step publishes  *)
(* is pending no longer.                                                    *)
FinishesWhole ==
    \A p \in People :
        store'.pointer[p] \notin {0, store.pointer[p]} => store'.pending[p] = 0

(* What is published is not what is being staged. *)
Apart(st, p) == st.pointer[p] # 0 => st.pending[p] # st.pointer[p]

StagedApart == reused = {} /\ \A p \in People : Apart(store, p)

(* A command keeps the pages of what is published after it. *)
Spares(p, st, next) ==
    (next.pointer[p] # 0 /\ next.cache[next.pointer[p]] = {}) => st.cache[next.pointer[p]] = {}

LEMMA BeginSpares ==
    ASSUME NEW st \in StoreSet, NEW p \in People, Apart(st, p), st.last < MaxSaves,
           NEW i \in 1 .. Len(BeginSteps(st, p))
    PROVE  Spares(p, st, BeginSteps(st, p)[i])
<1> DEFINE cleared == Without(st, st.pending[p])
           fresh == st.last + 1
           begun == [cleared EXCEPT !.last = fresh, !.named[fresh] = p, !.pending[p] = fresh]
<1>1. st.pending[p] \in 0 .. MaxSaves /\ st.pointer[p] \in 0 .. MaxSaves
  BY DEF StoreSet
<1>2. /\ cleared \in StoreSet /\ cleared.pointer = st.pointer
      /\ \A j \in Stages : cleared.cache[j] = IF j = st.pending[p] THEN {} ELSE st.cache[j]
  BY <1>1, WithoutOne
<1> HIDE DEF cleared
<1>3. begun.pointer = cleared.pointer /\ begun.cache = cleared.cache
  BY <1>2 DEF StoreSet
<1> HIDE DEF begun
<1>4. Spares(p, st, cleared) /\ Spares(p, st, begun)
  BY <1>1, <1>2, <1>3 DEF Spares, Apart
<1>5. BeginSteps(st, p) = <<cleared, begun>>
  BY DEF BeginSteps, cleared, begun
<1>6. QED
  BY <1>4, <1>5

LEMMA CancelSpares ==
    ASSUME NEW st \in StoreSet, NEW p \in People, Apart(st, p),
           NEW i \in 1 .. Len(CancelSteps(st, p))
    PROVE  Spares(p, st, CancelSteps(st, p)[i])
<1> DEFINE cleared == Without(st, st.pending[p])
           cancelled == [cleared EXCEPT !.pending[p] = 0]
<1>1. st.pending[p] \in 0 .. MaxSaves /\ st.pointer[p] \in 0 .. MaxSaves
  BY DEF StoreSet
<1>2. /\ cleared \in StoreSet /\ cleared.pointer = st.pointer
      /\ \A j \in Stages : cleared.cache[j] = IF j = st.pending[p] THEN {} ELSE st.cache[j]
  BY <1>1, WithoutOne
<1> HIDE DEF cleared
<1>3. cancelled.pointer = cleared.pointer /\ cancelled.cache = cleared.cache
  BY <1>2 DEF StoreSet
<1> HIDE DEF cancelled
<1>4. Spares(p, st, cleared) /\ Spares(p, st, cancelled)
  BY <1>1, <1>2, <1>3 DEF Spares, Apart
<1>5. CancelSteps(st, p) = <<cleared, cancelled>>
  BY DEF CancelSteps, cleared, cancelled
<1>6. QED
  BY <1>4, <1>5

LEMMA FinishSpares ==
    ASSUME NEW st \in StoreSet, NEW p \in People, st.pending[p] # 0,
           NEW i \in 1 .. Len(FinishSteps(st, p))
    PROVE  Spares(p, st, FinishSteps(st, p)[i])
<1> DEFINE published == [st EXCEPT !.pointer[p] = st.pending[p]]
           done == [published EXCEPT !.pending[p] = 0]
           old == Without(done, st.pointer[p])
<1>1. st.pending[p] \in 0 .. MaxSaves /\ st.pointer[p] \in 0 .. MaxSaves
  BY DEF StoreSet
<1>2. /\ published \in StoreSet /\ published.cache = st.cache
      /\ published.pointer[p] = st.pending[p]
  BY <1>1 DEF StoreSet
<1> HIDE DEF published
<1>3. done \in StoreSet /\ done.cache = published.cache /\ done.pointer = published.pointer
  <2> DEFINE none == [published.pending EXCEPT ![p] = 0]
  <2>1. none \in [People -> 0 .. MaxSaves] /\ done = [published EXCEPT !.pending = none]
    BY <1>2 DEF StoreSet
  <2> HIDE DEF none, done
  <2>2. QED
    BY <1>2, <2>1 DEF StoreSet
<1> HIDE DEF done
<1>4. /\ old.pointer = done.pointer
      /\ \A j \in Stages : old.cache[j] = IF j = st.pointer[p] THEN {} ELSE done.cache[j]
  BY <1>1, <1>3, WithoutOne
<1> HIDE DEF old
<1>5. Spares(p, st, published) /\ Spares(p, st, done)
  BY <1>2, <1>3 DEF Spares
<1>6. st.pointer[p] \notin {0, st.pending[p]} => Spares(p, st, old)
  BY <1>1, <1>2, <1>3, <1>4 DEF Spares
<1>7. FinishSteps(st, p) = <<published, done,
                             IF st.pointer[p] \in {0, st.pending[p]} THEN done ELSE old>>
  BY DEF FinishSteps, published, done, old
<1>8. QED
  BY <1>5, <1>6, <1>7

LEMMA DeleteSpares ==
    ASSUME NEW st \in StoreSet, NEW p \in People,
           NEW i \in 1 .. Len(DeleteSteps(st, p))
    PROVE  Spares(p, st, DeleteSteps(st, p)[i])
<1> DEFINE unlisted == [st EXCEPT !.pointer[p] = 0]
           gone == Without(unlisted, st.pointer[p])
           last == [gone EXCEPT !.runtime = st.runtime \ {p}]
<1>1. st.pointer[p] \in 0 .. MaxSaves
  BY DEF StoreSet
<1>2. unlisted \in StoreSet /\ unlisted.pointer[p] = 0
  <2> DEFINE none == [st.pointer EXCEPT ![p] = 0]
  <2>1. /\ none \in [People -> 0 .. MaxSaves] /\ none[p] = 0
        /\ unlisted = [st EXCEPT !.pointer = none]
    BY DEF StoreSet
  <2> HIDE DEF none, unlisted
  <2>2. QED
    BY <2>1 DEF StoreSet
<1> HIDE DEF unlisted
<1>3. gone \in StoreSet /\ gone.pointer = unlisted.pointer
  BY <1>1, <1>2, WithoutOne
<1> HIDE DEF gone
<1>4. last.pointer = gone.pointer
  BY <1>3 DEF StoreSet
<1> HIDE DEF last
<1>5. Spares(p, st, unlisted) /\ Spares(p, st, gone) /\ Spares(p, st, last)
  BY <1>2, <1>3, <1>4 DEF Spares
<1>6. DeleteSteps(st, p) = <<unlisted, gone, last>>
  BY DEF DeleteSteps, unlisted, gone, last
<1>7. QED
  BY <1>5, <1>6

(* After a command that published only what it had completed. *)
LEMMA CommandApart ==
    ASSUME SavedIndInv, StagedApart, FinishesWhole, NEW p \in People,
           CommandOf(p, store, store'), Spares(p, store, store'),
           reused' \subseteq Holes(p, store')
    PROVE  StagedApart'
<1>1. store \in StoreSet /\ store' \in StoreSet /\ NamesItsOwn(store)
  BY StorageOfInv DEF StorageHolds, CommandOf
<1>2. reused' = {}
  BY DEF Holes, Spares, StagedApart
<1>3. ASSUME NEW q \in People PROVE Apart(store', q)
  <2>1. CASE q # p
    BY <1>3, <2>1 DEF CommandOf, StagedApart, Apart
  <2>2. CASE q = p /\ store'.pointer[p] \in {0, store.pointer[p]}
    <3>1. store.pointer[p] \in Nat /\ store.last \in Nat /\ store.pointer[p] <= store.last
      BY <1>1 DEF StoreSet, NamesItsOwn
    <3>2. store'.pending[p] \in {0, store.pending[p], store.last + 1}
      BY DEF CommandOf
    <3>3. QED
      BY <2>2, <3>1, <3>2 DEF StagedApart, Apart
  <2>3. CASE q = p /\ store'.pointer[p] \notin {0, store.pointer[p]}
    BY <2>3 DEF FinishesWhole, Apart
  <2>4. QED
    BY <2>1, <2>2, <2>3
<1>4. QED
  BY <1>2, <1>3 DEF StagedApart

(* What is published stays apart from what is staged, through every step.   *)
LEMMA ApartStep ==
    ASSUME SavedIndInv, StagedApart, FinishesWhole, [SavedNext]_pageVars
    PROVE  StagedApart'
<1>0. /\ StorageHolds /\ store \in StoreSet /\ NamesItsOwn(store)
      /\ store' \in StoreSet /\ reused = {}
  BY StorageOfInv, StorageStep DEF StorageHolds, StagedApart
<1>1. ASSUME \A p \in People : /\ store'.pointer[p] \in {0, store.pointer[p]}
                               /\ store'.pending[p] \in {0, store.pending[p]},
             reused' \subseteq reused
      PROVE  StagedApart'
  BY <1>0, <1>1 DEF StagedApart, Apart
<1>2. ASSUME NEW t \in Tabs, Active(t)
      PROVE  scope[t] \in People /\ Apart(store, scope[t])
  BY <1>2, ActiveOwner DEF StagedApart
<1>3. ASSUME NEW t \in Tabs, StartSaving(t)
      PROVE  StagedApart'
  <2>1. /\ Active(t) /\ store.last < MaxSaves /\ reused' = Holes(scope[t], store')
        /\ Len(BeginSteps(store, scope[t])) = 2 /\ store' = BeginSteps(store, scope[t])[2]
    BY <1>3 DEF StartSaving, Done, BeginSteps
  <2>2. QED
    BY <1>0, <1>2, <2>1, BeginIsCommand, BeginSpares, CommandApart
<1>4. ASSUME NEW t \in Tabs, FinishSaving(t)
      PROVE  StagedApart'
  <2>1. /\ Active(t) /\ Finishable(t) /\ reused' \subseteq Holes(scope[t], store')
        /\ Len(FinishSteps(store, scope[t])) = 3 /\ store' = FinishSteps(store, scope[t])[3]
    BY <1>4 DEF FinishSaving, Finishable, Done, FinishSteps, Holes
  <2>2. QED
    BY <1>0, <1>2, <2>1, FinishIsCommand, FinishSpares, CommandApart DEF Finishable, Ready
<1>5. ASSUME NEW t \in Tabs, CancelSaving(t)
      PROVE  StagedApart'
  <2>1. CASE Active(t)
    <3>1. /\ reused' = Holes(scope[t], store')
          /\ Len(CancelSteps(store, scope[t])) = 2 /\ store' = CancelSteps(store, scope[t])[2]
      BY <1>5, <2>1 DEF CancelSaving, Done, CancelSteps
    <3>2. QED
      BY <1>0, <1>2, <2>1, <3>1, CancelIsCommand, CancelSpares, CommandApart
  <2>2. CASE ~Active(t)
    BY <1>1, <1>5, <2>2 DEF CancelSaving
  <2>3. QED
    BY <2>1, <2>2
<1>6. ASSUME NEW t \in Tabs, DeleteSaved(t)
      PROVE  StagedApart'
  <2>1. /\ Active(t) /\ reused' \subseteq Holes(scope[t], store')
        /\ Len(DeleteSteps(store, scope[t])) = 3 /\ store' = DeleteSteps(store, scope[t])[3]
    BY <1>6 DEF DeleteSaved, Done, DeleteSteps, Holes
  <2>2. QED
    BY <1>0, <1>2, <2>1, DeleteIsCommand, DeleteSpares, CommandApart
<1>7. ASSUME NEW t \in Tabs, PutPage(t) \/ PutRuntime(t)
      PROVE  StagedApart'
  <2>1. store'.pointer = store.pointer /\ store'.pending = store.pending
    BY <1>0, <1>7 DEF PutPage, PutRuntime, StoreSet
  <2>2. reused' = reused
    BY <1>7 DEF PutPage, PutRuntime
  <2>3. QED
    BY <1>1, <2>1, <2>2
<1>8. CASE ClearRuntime
  <2>1. store'.pointer = store.pointer /\ store'.pending = store.pending
    BY <1>0, <1>8 DEF ClearRuntime, StoreSet
  <2>2. QED
    BY <1>1, <1>8, <2>1 DEF ClearRuntime
<1>9. ASSUME NEW t \in Tabs, FetchPage(t) \/ StopSaving(t) \/ ReadThrough(t)
      PROVE  StagedApart'
  BY <1>1, <1>9 DEF FetchPage, StopSaving, ReadThrough
<1>10. ASSUME NEW who \in Anyone, ChangeSession(who)
       PROVE  StagedApart'
  BY <1>1, <1>10 DEF ChangeSession
<1>11. ASSUME NEW who \in Anyone, SwitchTo(who, store.owner, store, store'),
              reused' \subseteq reused
       PROVE  StagedApart'
  BY <1>1, <1>11 DEF SwitchTo
<1>12. ASSUME session # store.owner
       PROVE  session \in Anyone /\ store.gen \in 0 .. MaxSignIns
  BY <1>12 DEF SavedIndInv, SavedTypeOK, GenerationsCounted
<1>13. ASSUME NEW t \in Tabs, NEW online \in BOOLEAN, LoadTab(t, online)
       PROVE  StagedApart'
  <2>1. reused' \subseteq reused
    BY <1>13 DEF LoadTab
  <2>2. CASE online /\ session # store.owner
    <3>1. store' = Done(SwitchSteps(store, session))
      BY <1>13, <2>2 DEF LoadTab
    <3>2. SwitchTo(session, store.owner, store, store')
      BY <1>0, <1>12, <2>2, <3>1, SwitchIsSwitch
    <3>3. QED
      BY <1>11, <1>12, <2>1, <2>2, <3>2
  <2>3. CASE ~(online /\ session # store.owner)
    BY <1>1, <1>13, <2>1, <2>3 DEF LoadTab
  <2>4. QED
    BY <2>2, <2>3
<1>14. CASE StopWorker
  <2>1. CASE UNCHANGED <<store, reused, leftBehind>>
    BY <1>1, <2>1
  <2>2. ASSUME NEW t \in Tabs, Active(t),
               NEW steps, NEW i \in 1 .. Len(steps),
               store' = steps[i], reused' = Holes(scope[t], steps[i]),
               \/ steps = <<store>>
               \/ steps = BeginSteps(store, scope[t]) /\ store.last < MaxSaves
               \/ steps = CancelSteps(store, scope[t])
               \/ steps = FinishSteps(store, scope[t]) /\ Finishable(t)
               \/ steps = DeleteSteps(store, scope[t])
        PROVE  StagedApart'
    <3>1. scope[t] \in People /\ Apart(store, scope[t])
      BY <1>2, <2>2
    <3>2. CASE steps = <<store>>
      <4>1. store' = store /\ reused' = Holes(scope[t], store)
        BY <2>2, <3>2
      <4>2. QED
        BY <1>1, <4>1 DEF Holes
    <3>3. CASE steps # <<store>>
      <4>1. CommandOf(scope[t], store, steps[i])
        BY <1>0, <2>2, <3>1, <3>3, BeginIsCommand, CancelIsCommand, FinishIsCommand,
           DeleteIsCommand DEF Finishable, Ready
      <4>2. Spares(scope[t], store, steps[i])
        BY <1>0, <2>2, <3>1, <3>3, BeginSpares, CancelSpares, FinishSpares, DeleteSpares
           DEF Finishable
      <4>3. QED
        BY <2>2, <3>1, <4>1, <4>2, CommandApart
    <3>4. QED
      BY <3>2, <3>3
  <2>3. CASE /\ \E t \in Tabs : Active(t) /\
                  \E steps \in {IF save[t] = NoTask /\ store.last < MaxSaves
                                THEN BeginSteps(store, scope[t]) ELSE <<store>>,
                                IF save[t].at = "cancel" THEN CancelSteps(store, scope[t])
                                ELSE <<store>>,
                                IF Finishable(t) THEN FinishSteps(store, scope[t])
                                ELSE <<store>>,
                                DeleteSteps(store, scope[t])} :
                     \E i \in 1 .. Len(steps) :
                        store' = steps[i] /\ reused' = Holes(scope[t], steps[i])
             /\ UNCHANGED leftBehind
    BY <2>2, <2>3
  <2>4. ASSUME session # store.owner, store.owner # Nobody, NEW i \in 1 .. 2,
               store' = SwitchSteps(store, session)[i], reused' = reused
        PROVE  StagedApart'
    <3>1. SwitchTo(session, store.owner, store, store')
      BY <1>0, <1>12, <2>4, SwitchIsSwitch
    <3>2. QED
      BY <1>11, <1>12, <2>4, <3>1
  <2>5. QED
    BY <1>14, <2>1, <2>3, <2>4 DEF StopWorker
<1>15. CASE UNCHANGED pageVars
  BY <1>1, <1>15 DEF pageVars
<1>16. QED
  BY <1>3, <1>4, <1>5, <1>6, <1>7, <1>8, <1>9, <1>10, <1>13, <1>14, <1>15 DEF SavedNext

LEMMA SavedInitApart == SavedInit => StagedApart
BY DEF SavedInit, StagedApart, Apart

(* "A failed replacement never deletes the previously complete copy"        *)
(* (sw.js:189-190) holds of every failure, stop and race but one: a worker  *)
(* that is stopped between the two records that save-finish writes          *)
(* (sw.js:191-192).                                                         *)
THEOREM FinishedStaysUncut == SavedSpec /\ [][FinishesWhole]_pageVars => []FinishedStays
<1>1. SavedIndInv /\ StagedApart /\ [SavedNext]_pageVars /\ [FinishesWhole]_pageVars
      => StagedApart'
  <2>1. CASE UNCHANGED pageVars
    BY <2>1 DEF pageVars, StagedApart, Apart
  <2>2. CASE ~UNCHANGED pageVars
    BY <2>2, ApartStep
  <2>3. QED
    BY <2>1, <2>2
<1>2. StagedApart => FinishedStays
  BY DEF StagedApart, FinishedStays
<1>3. QED
  BY <1>1, <1>2, SavedInitApart, SavedSpecIndInv, PTL DEF SavedSpec

(* So then every manifest is whole, of all accounts but those whose purge   *)
(* was cut.                                                                 *)
THEOREM ManifestsWholeUncut ==
    SavedSpec /\ [][FinishesWhole]_pageVars
    => [](\A p \in People \ leftBehind : store.pointer[p] # 0 => CopyWhole(p))
<1>1. ManifestIsWhole /\ FinishedStays
      => \A p \in People \ leftBehind : store.pointer[p] # 0 => CopyWhole(p)
  BY DEF ManifestIsWhole, FinishedStays
<1>2. QED
  BY <1>1, ManifestsAreWhole, FinishedStaysUncut, PTL
=============================================================================
