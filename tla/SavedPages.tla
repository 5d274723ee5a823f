----------------------------- MODULE SavedPages -----------------------------
(***************************************************************************)
(* The service worker's storage of one chapter: pages staged in a cache of *)
(* their own, a manifest that publishes them, a runtime cache beside it,   *)
(* both private to the account the worker serves; tabs that save and read  *)
(* through it, and what is left when the worker is stopped.                *)
(***************************************************************************)
EXTENDS Naturals, Sequences

CONSTANTS
    People,         \* accounts
    Tabs,           \* pages of the application
    SavedLength,    \* pages of the chapter
    MaxSaves,       \* bound: saves begun, each with a cache name of its own
    MaxSignIns,     \* bound: changes of the session cookie
    MaxWorkerFaults \* bound: stops of the worker, failed fetches, full storage

Stages == 1 .. MaxSaves
Complete == 0 .. SavedLength    \* 0 is the cache itself
Nobody == "nobody"

ASSUME SavedAssumption ==
    /\ SavedLength \in Nat \ {0} /\ MaxSaves \in Nat /\ MaxSignIns \in Nat
    /\ MaxWorkerFaults \in Nat /\ Nobody \notin People

VARIABLES
    store,      \* the Cache API: owner and generation, caches, manifests
    session,    \* the session cookie
    localOwner, \* local storage: the last identified owner
    scope,      \* each tab: the account it was loaded for
    clients,    \* worker memory: the scope each tab has announced
    save,       \* each tab: its save of the chapter
    read,       \* each tab: a response on its way into the runtime cache
    reused,     \* history: manifests whose cache a later operation deleted
    leftBehind, \* history: accounts whose purge was cut
    signIns, workerFaults

workerMemory == <<clients, read>>
pageVars == <<store, session, localOwner, scope, clients, save, read, reused,
              leftBehind, signIns, workerFaults>>

Anyone == People \cup {Nobody}
AtPage(who, n, gen, stage, at) ==
    [at |-> at, who |-> who, n |-> n, gen |-> gen, stage |-> stage]
NoTask == AtPage(Nobody, 0, 0, 0, "rest")

SavedTypeOK ==
    /\ store \in [owner : Anyone, gen : 0 .. MaxSignIns + 1,
                  cache : [Stages -> SUBSET Complete], named : [Stages -> Anyone],
                  pointer : [People -> 0 .. MaxSaves], pending : [People -> 0 .. MaxSaves],
                  runtime : SUBSET People, last : 0 .. MaxSaves]
    /\ session \in Anyone /\ localOwner \in Anyone
    /\ scope \in [Tabs -> Anyone] /\ clients \in [Tabs -> Anyone]
    /\ save \in [Tabs -> [at : {"rest", "page", "fetch", "finish", "cancel"}, who : Anyone,
                          n : 0 .. SavedLength, gen : 0 .. MaxSignIns + 1, stage : 0 .. MaxSaves]]
    /\ read \in [Tabs -> {<<>>} \cup (People \X (0 .. MaxSignIns + 1))]
    /\ reused \subseteq People /\ leftBehind \subseteq People
    /\ signIns \in 0 .. MaxSignIns /\ workerFaults \in 0 .. MaxWorkerFaults

SavedInit ==
    /\ store = [owner |-> Nobody, gen |-> 0, cache |-> [i \in Stages |-> {}],
                named |-> [i \in Stages |-> Nobody], pointer |-> [p \in People |-> 0],
                pending |-> [p \in People |-> 0], runtime |-> {}, last |-> 0]
    /\ session = Nobody /\ localOwner = Nobody
    /\ scope = [t \in Tabs |-> Nobody] /\ clients = [t \in Tabs |-> Nobody]
    /\ save = [t \in Tabs |-> NoTask]
    /\ read = [t \in Tabs |-> <<>>]
    /\ reused = {} /\ leftBehind = {}
    /\ signIns = 0 /\ workerFaults = 0

WorkerFault ==
    /\ workerFaults < MaxWorkerFaults
    /\ workerFaults' = workerFaults + 1
-----------------------------------------------------------------------------
(* The commands, as the states of storage each passes through; the worker's *)
(* lock makes a command one step unless the worker is stopped within it.    *)
Without(st, i) == [st EXCEPT !.cache = [j \in Stages |-> IF j = i THEN {} ELSE st.cache[j]]]

BeginSteps(st, p) ==
    LET cleared == Without(st, st.pending[p])
        fresh == st.last + 1
    IN  <<cleared, [cleared EXCEPT !.last = fresh, !.named[fresh] = p, !.pending[p] = fresh]>>

CancelSteps(st, p) ==
    LET cleared == Without(st, st.pending[p])
    IN  <<cleared, [cleared EXCEPT !.pending[p] = 0]>>

FinishSteps(st, p) ==
    LET published == [st EXCEPT !.pointer[p] = st.pending[p]]
        done == [published EXCEPT !.pending[p] = 0]
    IN  <<published, done,
          IF st.pointer[p] \in {0, st.pending[p]} THEN done ELSE Without(done, st.pointer[p])>>

DeleteSteps(st, p) ==
    LET unlisted == [st EXCEPT !.pointer[p] = 0]
        gone == Without(unlisted, st.pointer[p])
    IN  <<unlisted, gone, [gone EXCEPT !.runtime = st.runtime \ {p}]>>

(* The caches of the old account, then its manifests. *)
PurgeSteps(st, old) ==
    LET emptied == [st EXCEPT !.runtime = st.runtime \ {old},
                       !.cache = [j \in Stages |-> IF st.named[j] = old THEN {} ELSE st.cache[j]]]
    IN  <<st, emptied, [emptied EXCEPT !.pointer[old] = 0, !.pending[old] = 0]>>

OwnedBy(st, who) == [st EXCEPT !.owner = who, !.gen = st.gen + 1]

(* setScope: nothing is purged when nobody was signed in. *)
SwitchSteps(st, who) ==
    IF st.owner = Nobody THEN <<OwnedBy(st, who)>> ELSE PurgeSteps(OwnedBy(st, who), st.owner)

Done(steps) == steps[Len(steps)]
-----------------------------------------------------------------------------
Active(t) == scope[t] \in People /\ clients[t] = scope[t] /\ store.owner = scope[t]

(* Mutant of Fence: whoever asked. *)
FenceOpen(who, gen) == TRUE

(* assertScope, inside the lock: the account and the generation a late      *)
(* answer was asked for.                                                    *)
Fence(who, gen) == store.owner = who /\ store.gen = gen

(* Deleting the cache a manifest points to, other than by saved-delete. *)
Holes(p, next) ==
    IF next.pointer[p] # 0 /\ store.cache[next.pointer[p]] # {} /\ next.cache[next.pointer[p]] = {}
    THEN reused \cup {p} ELSE reused

(* begin, then the pages, then finish: save_chapter_with_progress.          *)
StartSaving(t) ==
    /\ save[t] = NoTask
    /\ Active(t)
    /\ store.last < MaxSaves
    /\ store' = Done(BeginSteps(store, scope[t]))
    /\ reused' = Holes(scope[t], store')
    /\ save' = [save EXCEPT ![t] = AtPage(scope[t], 1, 0, 0, "page")]
    /\ UNCHANGED <<session, localOwner, scope, workerMemory, leftBehind, signIns, workerFaults>>

(* save-page up to its fetch: the stage and the generation are noted.       *)
FetchPage(t) ==
    /\ save[t].at = "page"
    /\ Active(t) /\ store.pending[scope[t]] # 0
    /\ save' = [save EXCEPT ![t] =
          AtPage(save[t].who, save[t].n, store.gen, store.pending[scope[t]], "fetch")]
    /\ UNCHANGED <<store, session, localOwner, scope, workerMemory, reused, leftBehind,
                   signIns, workerFaults>>

Staged(t) ==
    /\ Fence(save[t].who, save[t].gen)
    /\ store.pending[save[t].who] = save[t].stage

(* ... and after it. A cache that is gone is created again; storage that is *)
(* full costs the runtime cache.                                            *)
PutPage(t) ==
    LET s == save[t]
    IN  /\ s.at = "fetch"
        /\ Staged(t)
        /\ \E full \in BOOLEAN :
              /\ IF full THEN WorkerFault ELSE UNCHANGED workerFaults
              /\ store' = [store EXCEPT !.cache[s.stage] = @ \cup {0, s.n},
                              !.runtime = IF full THEN @ \ {s.who} ELSE @]
        /\ save' = [save EXCEPT ![t] = IF s.n = SavedLength THEN AtPage(s.who, 0, 0, 0, "finish")
                                       ELSE AtPage(s.who, s.n + 1, 0, 0, "page")]
        /\ UNCHANGED <<session, localOwner, scope, workerMemory, reused, leftBehind, signIns>>

(* Mutant of Ready: the last page will do. *)
ReadyLast(p) == SavedLength \in store.cache[store.pending[p]]

(* save-finish looks for every page. *)
Ready(p) == store.cache[store.pending[p]] = Complete

Finishable(t) ==
    /\ save[t].at = "finish"
    /\ Active(t) /\ store.pending[scope[t]] # 0
    /\ Ready(scope[t])

FinishSaving(t) ==
    /\ Finishable(t)
    /\ store' = Done(FinishSteps(store, scope[t]))
    /\ reused' = reused \ {scope[t]}
    /\ save' = [save EXCEPT ![t] = NoTask]
    /\ UNCHANGED <<session, localOwner, scope, workerMemory, leftBehind, signIns, workerFaults>>

(* A command is refused, a fetch fails, or the reader stops the save. *)
StopSaving(t) ==
    /\ save[t].at \in {"page", "fetch", "finish"}
    /\ \/ WorkerFault
       \/ /\ UNCHANGED workerFaults
          /\ \/ save[t].at = "page" /\ ~(Active(t) /\ store.pending[scope[t]] # 0)
             \/ save[t].at = "fetch" /\ ~Staged(t)
             \/ save[t].at = "finish" /\ ~Finishable(t)
    /\ save' = [save EXCEPT ![t].at = "cancel"]
    /\ UNCHANGED <<store, session, localOwner, scope, workerMemory, reused, leftBehind, signIns>>

CancelSaving(t) ==
    /\ save[t].at = "cancel"
    /\ store' = IF Active(t) THEN Done(CancelSteps(store, scope[t])) ELSE store
    /\ reused' = IF Active(t) THEN Holes(scope[t], store') ELSE reused
    /\ save' = [save EXCEPT ![t] = NoTask]
    /\ UNCHANGED <<session, localOwner, scope, workerMemory, leftBehind, signIns, workerFaults>>

DeleteSaved(t) ==
    /\ Active(t) /\ store.pointer[scope[t]] # 0
    /\ store' = Done(DeleteSteps(store, scope[t]))
    /\ reused' = reused \ {scope[t]}
    /\ UNCHANGED <<session, localOwner, scope, workerMemory, save, leftBehind, signIns,
                   workerFaults>>
-----------------------------------------------------------------------------
(* privateRead, its response, and runtimePut after that. *)
ReadThrough(t) ==
    /\ Active(t) /\ read[t] = <<>>
    /\ read' = [read EXCEPT ![t] = <<scope[t], store.gen>>]
    /\ UNCHANGED <<store, session, localOwner, scope, clients, save, reused, leftBehind,
                   signIns, workerFaults>>

PutRuntime(t) ==
    /\ read[t] # <<>>
    /\ store' = IF Fence(read[t][1], read[t][2])
                THEN [store EXCEPT !.runtime = @ \cup {read[t][1]}] ELSE store
    /\ read' = [read EXCEPT ![t] = <<>>]
    /\ UNCHANGED <<session, localOwner, scope, clients, save, reused, leftBehind, signIns,
                   workerFaults>>

(* runtime-clear, or the browser evicts it. *)
ClearRuntime ==
    /\ store.runtime # {}
    /\ \E p \in store.runtime : store' = [store EXCEPT !.runtime = @ \ {p}]
    /\ UNCHANGED <<session, localOwner, scope, workerMemory, save, reused, leftBehind,
                   signIns, workerFaults>>
-----------------------------------------------------------------------------
(* Somebody signs in or out, in any tab. *)
ChangeSession(who) ==
    /\ signIns < MaxSignIns
    /\ who # session
    /\ signIns' = signIns + 1
    /\ session' = who
    /\ UNCHANGED <<store, localOwner, scope, workerMemory, save, reused, leftBehind, workerFaults>>

(* A tab is loaded: as the account the server says it is or, offline, as    *)
(* the last one known; set-scope verifies a change with the server.         *)
LoadTab(t, online) ==
    LET who == IF online THEN session ELSE localOwner
    IN  /\ localOwner' = who
        /\ scope' = [scope EXCEPT ![t] = who]
        /\ save' = [save EXCEPT ![t] = NoTask]
        /\ clients' = [clients EXCEPT ![t] = IF online \/ who = store.owner THEN who ELSE Nobody]
        /\ store' = IF online /\ who # store.owner THEN Done(SwitchSteps(store, who)) ELSE store
        /\ leftBehind' = IF store' = store THEN leftBehind ELSE leftBehind \ {store.owner}
        /\ reused' = {p \in reused : store'.pointer[p] # 0}
        /\ UNCHANGED <<session, read, signIns, workerFaults>>

(* The worker is stopped: when idle its memory is gone, within a command a  *)
(* prefix of its steps has been done.                                       *)
StopWorker ==
    /\ WorkerFault
    /\ clients' = [t \in Tabs |-> Nobody]
    /\ read' = [t \in Tabs |-> <<>>]
    /\ save' = [t \in Tabs |-> IF save[t].at = "fetch" THEN [save[t] EXCEPT !.at = "cancel"]
                               ELSE save[t]]
    /\ \/ UNCHANGED <<store, reused, leftBehind>>
       \/ /\ \E t \in Tabs : Active(t) /\
                \E steps \in {IF save[t] = NoTask /\ store.last < MaxSaves
                              THEN BeginSteps(store, scope[t]) ELSE <<store>>,
                              IF save[t].at = "cancel" THEN CancelSteps(store, scope[t])
                              ELSE <<store>>,
                              IF Finishable(t) THEN FinishSteps(store, scope[t]) ELSE <<store>>,
                              DeleteSteps(store, scope[t])} :
                   \E i \in 1 .. Len(steps) :
                      store' = steps[i] /\ reused' = Holes(scope[t], steps[i])
          /\ UNCHANGED leftBehind
       \/ /\ session # store.owner /\ store.owner # Nobody
          /\ \E i \in 1 .. 2 : store' = SwitchSteps(store, session)[i]
          /\ leftBehind' = leftBehind \cup {store.owner}
          /\ UNCHANGED reused
    /\ UNCHANGED <<session, localOwner, scope, signIns>>

SavedNext ==
    \/ \E t \in Tabs : \/ StartSaving(t) \/ FetchPage(t) \/ PutPage(t) \/ FinishSaving(t)
                       \/ StopSaving(t) \/ CancelSaving(t) \/ DeleteSaved(t)
                       \/ ReadThrough(t) \/ PutRuntime(t)
                       \/ \E online \in BOOLEAN : LoadTab(t, online)
    \/ ClearRuntime
    \/ \E who \in Anyone : ChangeSession(who)
    \/ StopWorker

SavedSpec == SavedInit /\ [][SavedNext]_pageVars
-----------------------------------------------------------------------------
CopyWhole(p) == store.cache[store.pointer[p]] = Complete

(* A manifest names a cache that holds every page, whichever tabs save the  *)
(* chapter at once, fail, switch accounts or delete it; except after the    *)
(* worker was stopped within a finish (FinishedStays) or within a purge.    *)
ManifestIsWhole ==
    \A p \in People \ (reused \cup leftBehind) : store.pointer[p] # 0 => CopyWhole(p)

(* "Late writes are fenced": nothing of an account is stored but of the     *)
(* worker's own, however late a page or a response arrives; except what a   *)
(* purge left behind that was cut.                                          *)
OthersPurged ==
    \A p \in People \ (leftBehind \cup {store.owner}) :
        /\ store.pointer[p] = 0 /\ store.pending[p] = 0 /\ p \notin store.runtime
        /\ \A i \in Stages : store.named[i] = p => store.cache[i] = {}

(* "A failed replacement never deletes the previously complete copy"        *)
(* (sw.js:189-190): a published manifest keeps its pages until it is        *)
(* replaced or deleted.                                                     *)
FinishedStays == reused = {}
=============================================================================
