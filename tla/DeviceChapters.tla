--------------------------- MODULE DeviceChapters ---------------------------
(***************************************************************************)
(* Chapters stored in the shell's data directory: saves staged page by     *)
(* page and published whole, the driver of the persistent pull queue and   *)
(* the page's own loop of saves, removals, and what a kill leaves.         *)
(***************************************************************************)
EXTENDS Naturals, FiniteSets, Sequences

CONSTANTS
    Saved,            \* chapters the reader may bring to the device
    PageCount,        \* pages of each
    MaxDeviceWishes,  \* bound: what the reader asks for
    MaxDeviceFaults   \* bound: kills, reloads, failed requests and disk calls

ASSUME DeviceAssumption ==
    /\ PageCount \in Nat \ {0}
    /\ MaxDeviceWishes \in Nat /\ MaxDeviceFaults \in Nat
    /\ "none" \notin Saved

(* Page 0 stands for the directory itself: {} is no directory. *)
Whole == 0 .. PageCount
Savers == {"driver", "page"}

VARIABLES
    disk,         \* for each chapter its directory, .partial- and .old one
    marks,        \* local storage: "on this device"
    pullQueue,    \* local storage: chapters to pull, oldest first
    view,         \* server: what its download queue says of each chapter
    walk,         \* the driver: that answer as it read it
    loop,         \* the page's loop of saves: the chapters still to come
    saver,        \* the save each of them is in
    local,        \* memory: the saves shown
    cancelling,   \* memory: those asked to stop
    fading,       \* failed saves whose entry a timer will remove
    doubled,      \* history: chapters two saves worked on at once
    cut,          \* history: chapters whose removal a kill or reload cut
    deviceWishes, deviceFaults

memory == <<walk, loop, saver, local, cancelling, fading>>
deviceVars == <<disk, marks, pullQueue, view, walk, loop, saver, local, cancelling,
                fading, doubled, cut, deviceWishes, deviceFaults>>

View == {"pending", "failed", "unavailable", "other"}
Disk == [dir : SUBSET Whole, partial : SUBSET Whole, old : SUBSET Whole]
Save == [unit : Saved \cup {"none"}, next : 0 .. PageCount + 1]
NoSave == [unit |-> "none", next |-> 0]
NotWalking == [on |-> FALSE, views |-> [u \in Saved |-> "pending"]]

DeviceTypeOK ==
    /\ disk \in [Saved -> Disk]
    /\ marks \subseteq Saved
    /\ pullQueue \in Seq(Saved)
    /\ view \in [Saved -> View]
    /\ walk \in [on : BOOLEAN, views : [Saved -> View]]
    /\ loop \subseteq Saved
    /\ saver \in [Savers -> Save]
    /\ local \subseteq Saved /\ cancelling \subseteq local /\ fading \subseteq Saved
    /\ doubled \subseteq Saved /\ cut \subseteq Saved
    /\ deviceWishes \in 0 .. MaxDeviceWishes
    /\ deviceFaults \in 0 .. MaxDeviceFaults

DeviceInit ==
    /\ disk = [u \in Saved |-> [dir |-> {}, partial |-> {}, old |-> {}]]
    /\ marks = {}
    /\ pullQueue = <<>>
    /\ view = [u \in Saved |-> "pending"]
    /\ walk = NotWalking
    /\ loop = {}
    /\ saver = [s \in Savers |-> NoSave]
    /\ local = {} /\ cancelling = {} /\ fading = {}
    /\ doubled = {} /\ cut = {}
    /\ deviceWishes = 0 /\ deviceFaults = 0

DeviceWish ==
    /\ deviceWishes < MaxDeviceWishes
    /\ deviceWishes' = deviceWishes + 1

DeviceFault ==
    /\ deviceFaults < MaxDeviceFaults
    /\ deviceFaults' = deviceFaults + 1
-----------------------------------------------------------------------------
(* publish_chapter, one file-system call after another. *)
Recovered(d) ==
    IF d.old # {} /\ d.dir = {} THEN [d EXCEPT !.dir = d.old, !.old = {}] ELSE d
Cleared(d) == [d EXCEPT !.old = {}]

(* Mutant of SetAside: the good copy goes before the new one is there. *)
SetAsideNowhere(d) == [d EXCEPT !.dir = {}]

SetAside(d) ==
    IF d.dir # {} THEN [d EXCEPT !.old = d.dir, !.dir = {}] ELSE d
Landed(d) == [d EXCEPT !.dir = d.partial, !.partial = {}]

BeforeLanding(d) == SetAside(Cleared(Recovered(d)))
Published(d) == Cleared(Landed(BeforeLanding(d)))

(* What a kill in the middle of it leaves; a directory being deleted may    *)
(* have lost any of its pages.                                              *)
Torn(pages) == {p \in SUBSET pages : p # {} => 0 \in p}
CutShort(d) ==
    {Recovered(d), BeforeLanding(d)}
    \cup {[Recovered(d) EXCEPT !.old = p] : p \in Torn(Recovered(d).old)}
    \cup {[Landed(BeforeLanding(d)) EXCEPT !.old = p] :
             p \in Torn(BeforeLanding(d).old)}

(* recover_chapter_publications, when the application starts. *)
AtStart(disks) == [u \in Saved |-> Recovered(disks[u])]
-----------------------------------------------------------------------------
(* "Download both": chapters not on the device join the queue. *)
Enqueue(u) ==
    /\ DeviceWish
    /\ u \notin marks
    /\ \A i \in 1 .. Len(pullQueue) : pullQueue[i] # u
    /\ pullQueue' = Append(pullQueue, u)
    /\ UNCHANGED <<disk, marks, view, memory, doubled, cut, deviceFaults>>

(* "Save to this device": one after the other; what is on the server and    *)
(* not on the device is looked up only now.                                 *)
DownloadLocal(units) ==
    /\ DeviceWish
    /\ units # {} /\ units \cap marks = {}
    /\ loop = {} /\ saver["page"] = NoSave
    /\ loop' = units
    /\ UNCHANGED <<disk, marks, pullQueue, view, walk, saver, local, cancelling,
                   fading, doubled, cut, deviceFaults>>

CancelSave(u) ==
    /\ DeviceWish
    /\ u \in local \ cancelling
    /\ cancelling' = cancelling \cup {u}
    /\ UNCHANGED <<disk, marks, pullQueue, view, walk, loop, saver, local, fading,
                   doubled, cut, deviceFaults>>

(* The worker of the server finishes or gives up. *)
ServerMoves(u) ==
    /\ view[u] = "pending"
    /\ \E v \in View \ {"pending"} : view' = [view EXCEPT ![u] = v]
    /\ UNCHANGED <<disk, marks, pullQueue, memory, doubled, cut, deviceWishes, deviceFaults>>

AskServer(u) ==
    /\ DeviceWish
    /\ view[u] # "pending"
    /\ view' = [view EXCEPT ![u] = "pending"]
    /\ UNCHANGED <<disk, marks, pullQueue, memory, doubled, cut, deviceFaults>>

(* Mutant of ServerView: a chapter the source does not offer is waited for. *)
ServerViewWaiting(v) ==
    IF v \in {"pending", "unavailable"} THEN "Busy" ELSE IF v = "failed" THEN "Drop" ELSE "Ready"

(* server_views and view_of: Failed and Unavailable are both dropped. *)
ServerView(v) ==
    IF v = "pending" THEN "Busy"
    ELSE IF v \in {"failed", "unavailable"} THEN "Drop" ELSE "Ready"
-----------------------------------------------------------------------------
(* save_locally: the entry is new, whatever was there. *)
StartSave(s, u) ==
    /\ saver' = [saver EXCEPT ![s] = [unit |-> u, next |-> 0]]
    /\ local' = local \cup {u}
    /\ cancelling' = cancelling \ {u}
    /\ doubled' = IF \E t \in Savers : saver[t].unit = u THEN doubled \cup {u} ELSE doubled

EndSave(s) == saver' = [saver EXCEPT ![s] = NoSave]

(* Mutant of Vanish: the request to stop outlives the entry. *)
VanishAlone(u) == local' = local \ {u} /\ UNCHANGED cancelling

Vanish(u) == local' = local \ {u} /\ cancelling' = cancelling \ {u}

LoopNext(u) ==
    /\ u \in loop /\ saver["page"] = NoSave
    /\ loop' = loop \ {u}
    /\ StartSave("page", u)
    /\ UNCHANGED <<disk, marks, pullQueue, view, walk, fading, cut, deviceWishes,
                   deviceFaults>>

StartWalk ==
    /\ ~walk.on
    /\ pullQueue # <<>>
    /\ walk' = [on |-> TRUE, views |-> view]
    /\ UNCHANGED <<disk, marks, pullQueue, view, loop, saver, local, cancelling,
                   fading, doubled, cut, deviceWishes, deviceFaults>>

(* The walk goes on from its save with the answer it began with. *)
Walk ==
    LET u == Head(pullQueue)
        says == ServerView(walk.views[u])
        Stop == walk' = NotWalking /\ UNCHANGED <<pullQueue, saver, local, cancelling, doubled>>
    IN  /\ walk.on /\ saver["driver"] = NoSave
        /\ \/ pullQueue = <<>> /\ Stop
           \/ /\ pullQueue # <<>>
              /\ u \in marks \/ says = "Drop"
              /\ pullQueue' = Tail(pullQueue)
              /\ UNCHANGED <<walk, saver, local, cancelling, doubled>>
           \/ /\ pullQueue # <<>>
              /\ u \notin marks
              /\ says = "Busy" \/ (says = "Ready" /\ u \in local)
              /\ Stop
           \/ /\ pullQueue # <<>>
              /\ u \notin marks \cup local
              /\ says = "Ready"
              /\ pullQueue' = Tail(pullQueue)
              /\ StartSave("driver", u)
              /\ UNCHANGED walk
        /\ UNCHANGED <<disk, marks, view, loop, fading, cut, deviceWishes, deviceFaults>>
-----------------------------------------------------------------------------
(* A save that stops: its staging is removed, once it has begun. Cancelled  *)
(* it vanishes; failed it stays visible until the timer fires.              *)
Unstaged(s) ==
    disk' = IF saver[s].next = 0 THEN disk
            ELSE [disk EXCEPT ![saver[s].unit].partial = {}]

SaveCancelled(s) ==
    LET u == saver[s].unit
    IN  /\ u \in cancelling /\ saver[s].next # 0
        /\ EndSave(s) /\ Unstaged(s)
        /\ Vanish(u)
        /\ UNCHANGED <<marks, pullQueue, view, walk, loop, fading, doubled, cut,
                       deviceWishes, deviceFaults>>

Fails(s) ==
    LET u == saver[s].unit
    IN  /\ EndSave(s) /\ Unstaged(s)
        /\ local' = local \cup {u}
        /\ fading' = fading \cup {u}
        /\ UNCHANGED <<marks, pullQueue, view, walk, loop, cancelling, doubled, cut,
                       deviceWishes>>

SaveFailed(s) == saver[s].unit \in Saved /\ DeviceFault /\ Fails(s)

(* Its staging was taken away by another save. *)
StagingGone(s) ==
    /\ saver[s].next # 0
    /\ disk[saver[s].unit].partial = {}
    /\ Fails(s) /\ UNCHANGED deviceFaults

ForgetFailed(u) ==
    /\ u \in fading
    /\ fading' = fading \ {u}
    /\ Vanish(u)
    /\ UNCHANGED <<disk, marks, pullQueue, view, walk, loop, saver, doubled, cut,
                   deviceWishes, deviceFaults>>

(* Begin wipes the staging; each page is written into it. *)
SavePage(s) ==
    LET u == saver[s].unit
        n == saver[s].next
    IN  /\ u \in Saved
        /\ n <= PageCount
        /\ \/ n = 0 /\ disk' = [disk EXCEPT ![u].partial = {0}]
           \/ /\ n > 0 /\ u \notin cancelling
              /\ disk[u].partial # {}
              /\ disk' = [disk EXCEPT ![u].partial = disk[u].partial \cup {n}]
        /\ saver' = [saver EXCEPT ![s].next = n + 1]
        /\ UNCHANGED <<marks, pullQueue, view, walk, loop, local, cancelling, fading,
                       doubled, cut, deviceWishes, deviceFaults>>

(* Finish, and what follows its answer; the last deletion may fail.         *)
FinishWith(s, after) ==
    LET u == saver[s].unit
    IN  /\ u \in Saved \ cancelling
        /\ saver[s].next > PageCount
        /\ disk[u].partial # {}
        /\ disk' = [disk EXCEPT ![u] = after]
        /\ marks' = marks \cup {u}
        /\ Vanish(u)
        /\ EndSave(s)
        /\ UNCHANGED <<pullQueue, view, walk, loop, fading, doubled, cut, deviceWishes>>

Finish(s) == FinishWith(s, Published(disk[saver[s].unit])) /\ UNCHANGED deviceFaults
FinishUncleared(s) ==
    DeviceFault /\ FinishWith(s, Landed(BeforeLanding(disk[saver[s].unit])))

(* The files, then the mark. *)
RemoveLocal(u) ==
    /\ DeviceWish
    /\ u \in marks
    /\ disk[u].dir # {}
    /\ disk' = [disk EXCEPT ![u].dir = {}]
    /\ marks' = marks \ {u}
    /\ UNCHANGED <<pullQueue, view, memory, doubled, cut, deviceFaults>>
-----------------------------------------------------------------------------
Forget ==
    /\ walk' = NotWalking
    /\ loop' = {}
    /\ saver' = [s \in Savers |-> NoSave]
    /\ local' = {} /\ cancelling' = {} /\ fading' = {}
    /\ UNCHANGED <<pullQueue, view, doubled, deviceWishes>>

(* The page is loaded again: the commands it had sent are carried out.      *)
Reload ==
    /\ DeviceFault
    /\ \/ UNCHANGED <<disk, marks, cut>>
       \/ /\ UNCHANGED <<marks, cut>>
          /\ \E s \in Savers : /\ saver[s].next > PageCount
                               /\ disk[saver[s].unit].partial # {}
                               /\ disk' = [disk EXCEPT ![saver[s].unit] = Published(@)]
       \/ /\ UNCHANGED marks
          /\ \E u \in marks : disk' = [disk EXCEPT ![u].dir = {}] /\ cut' = cut \cup {u}
    /\ Forget

(* The application is killed, perhaps within a publication or a removal,    *)
(* and started again.                                                       *)
Kill ==
    /\ DeviceFault
    /\ UNCHANGED marks
    /\ \/ disk' = AtStart(disk) /\ UNCHANGED cut
       \/ /\ UNCHANGED cut
          /\ \E s \in Savers :
                LET u == saver[s].unit
                IN  /\ saver[s].next > PageCount
                    /\ disk[u].partial # {}
                    /\ \E d \in CutShort(disk[u]) :
                          disk' = AtStart([disk EXCEPT ![u] = d])
       \/ \E u \in marks : \E p \in Torn(disk[u].dir) :
             /\ disk' = AtStart([disk EXCEPT ![u].dir = p])
             /\ cut' = cut \cup {u}
    /\ Forget

SaveStep(s) == SavePage(s) \/ Finish(s) \/ SaveCancelled(s) \/ StagingGone(s)
LoopStep == \E u \in Saved : LoopNext(u)
WalkStep == StartWalk \/ Walk
FadeStep == \E u \in Saved : ForgetFailed(u)

DeviceNext ==
    \/ \E u \in Saved : Enqueue(u) \/ CancelSave(u) \/ ServerMoves(u) \/ AskServer(u) \/ RemoveLocal(u)
    \/ \E units \in SUBSET Saved : DownloadLocal(units)
    \/ LoopStep \/ WalkStep \/ FadeStep
    \/ \E s \in Savers : SaveStep(s) \/ SaveFailed(s) \/ FinishUncleared(s)
    \/ Reload \/ Kill

DeviceSpec == DeviceInit /\ [][DeviceNext]_deviceVars
-----------------------------------------------------------------------------
(* "A stored chapter is always complete", and stays: whatever a kill, a     *)
(* reload or a failing call cuts, all pages of a chapter shown as being on  *)
(* the device are there, under its name. Not when two saves of it overlap   *)
(* (the later one wipes the staging of the earlier), nor when its removal   *)
(* was cut before the mark went.                                            *)
MarkedIsStored ==
    \A u \in marks \ (doubled \cup cut) : disk[u].dir = Whole

(* The pull queue empties once the reader and the faults stop: no entry     *)
(* waits for ever behind another, behind a save that has died, or behind an *)
(* answer read too early.                                                   *)
PullsSettle == <>[](pullQueue = <<>>)
=============================================================================
