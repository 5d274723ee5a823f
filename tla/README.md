# yomu: a formal model of its library, its reading progress and its offline copies

yomu is a self-hosted manga and book library: a Rust server (Axum, SQLite) that
scrapes sources, downloads chapters and keeps reading progress; a WebAssembly
client (Leptos) that runs in browsers and, inside a Tauri shell, on Android; and
a service worker that keeps chapters for reading offline. This directory holds
TLA+ modules of the parts of it in which several actors touch one piece of
state, the TLC configurations that check them, and TLAPS proofs about them.

Paths below are relative to the repository: `yomu-server/src/x.rs` stands for
`crates/yomu-server/src/x.rs`, and so on.

## 1. The system and its parts

```
 source sites <── selector sources ◄── updater / manual refresh ──► sync_units ──┐
      ▲                                                                         ▼
      └──────── download worker ◄── download_state of reading_units ◄────── SQLite
                     │                        ▲                               ▲
             page directories        request handlers (download,     progress_events,
             <data_dir>/<pub>/<unit> retry, dismiss, remove, delete)  read_units, users
                                                                              ▲
        browser tabs / shell WebView: reader ─► report ──────────────────────►│
              │  local storage: outboxes by account, owner ─► background drain ┘
              ├─ service worker: saved chapters        └─ shell: device store, pull driver
```

The columns of the table: what the part remembers, what is done to it, what is
hard about it, and what makes it right.

| Part (sources) | State | Operations | Hard | Right when |
|---|---|---|---|---|
| **Download queue and worker** (`yomu-server/src/downloader.rs`, `db/downloads.rs`, `api/downloads.rs`, `api/chapters.rs`) | `reading_units.download_state`; the directories `<unit>`, `<unit>.partial`, `<unit>.old`; a tokio `Notify` | download one or many, retry, dismiss, remove, delete a publication, auto-queue; the worker's poll, claim, fetch, publish, record; recovery at start | one worker and any number of handlers between any two of its awaits; two renames and a deletion that a crash may cut; missed wake-ups | a downloaded chapter is complete on disk; a good copy is never destroyed; nothing is stuck in `downloading`; nothing waits in a queue that sleeps |
| **Reading progress** (`yomu-ui/src/offline.rs`, `offline/sync.rs`, `pages/reader/*`; `api/progress.rs`, `db/progress.rs`) | `progress_events`; the outbox in local storage | report a page turn, queue it when that fails, drain in batches, halve a batch on 413 | requests and replies lost, answered late, repeated; several tabs on one outbox; batches too large; chapters gone meanwhile | no turn lost, none recorded twice, none reordered; the outbox empties |
| **Offline account ownership** (`yomu-web/offline-context.js`) | `yomu-owner`; the scope of each page; the session cookie | boot, verify, sign out, sign in, hear of another tab's change | another tab signs in as somebody else while a drain is under way | offline work goes to the account that did it |
| **Unit sync and updater** (`sync.rs`, `db/units.rs`, `updater.rs`) | rows of `reading_units`, marks and journal that point at them, page directories | re-key, upsert, reconcile in one transaction; then confirm, move directories, auto-queue | sources rename, split, double chapters; rows move at the commit, directories afterwards; the updater, a manual refresh and the worker at once | addresses unique, rows match the source, reading follows its chapter, downloaded content is never discarded |
| **Read marks** (`offline.rs`, `pages/manga.rs`, `db/read_marks.rs`) | `read_units`; a map of pending marks in local storage | mark, unmark, flush | the map keeps no order of writes, and the flush stops at a mark the server refuses | marks made offline arrive, the last one wins |
| **Shell device store** (`yomu-shell/src/lib.rs`, `offline.rs`) | chapter directories and their manifests on the device | stage, publish, recover, remove, re-key by fingerprint, save loop | a kill between two renames; two saves of one chapter | a published chapter is complete |
| **Service worker** (`yomu-web/sw.js`) | two caches, a generation, a pointer per chapter | save, commit, evict, serve | purge during a save; a worker killed between its puts | a chapter shown as saved can be read |
| **Accounts** (`db/users.rs`, `auth.rs`, `api/auth.rs`) | users, identities, sessions, the shared-history claim | sign-in, alias unification, claim | the order in which two identities of one person appear | one person, one account; the shared history is claimed once |
| **Local library scan** (`streamer/mod.rs`) | `publications.missing`, file fingerprints | scan, heal a rename | two scans at once | a file that moved keeps its reading |
| **Pull driver** (`yomu-ui/src/pull.rs`) | a queue of chapters to bring to the device | enqueue, wait for the server, save | answers about a list that has changed | every wanted chapter is saved or given up |
| **Live page cache** (`state.rs`, `api/chapters.rs`) | address lists of chapters read live | look up, resolve, store, drop | a list resolved before a drop is stored after it | a page asked for again is asked for under fresh addresses |
| **Comic reader** (`pages/reader/mod.rs`, `stages.rs`) | position and page of the paged track, the strip of chapters, loads under way | turn, land, scroll, extend, evict, switch, re-route | turns that land late; loads that answer into another strip | what is shown is what is reported; the strip skips and doubles nothing |
| **Catalog cache** (`catalog.rs`) | listing pages | refresh once | – | – |
| **Backup** (`db/backup.rs`, `api/backup.rs`) | a JSON file | export, restore as a merge | an export is five queries while the library changes | a restore brings the file back |
| **Update feed, notifier** (`db/updates.rs`, `notifier.rs`, `yomu-ui/src/notify.rs`) | the feed and each client's cursor | add, list | a crash between sync and feed | every find is announced at most once |
| **OIDC, proxy identity, media tokens** (`oidc.rs`, `proxy_identity.rs`, `media_token.rs`, `yomu-shell/src/auth.rs`) | pending logins, keys | start, callback, sign, check | two logins at once | a callback belongs to a login that was started |
| **Sources, book files, SQLite adapter, HTTP client, pages and layout, configuration, packaging** | none that several actors share | parsing, rendering, options | none that a model of interleavings reaches | – |

How the parts meet. The *database* is where all server parts meet: every
statement or transaction is atomic and durable, and between two of them anybody
else may run. The *page directories* are shared by the worker, the removal
handlers and the follow-ups of a refresh, with no lock: each relies on the
order of its own statements. `Notify` carries a single permit from handlers to
the worker. A *browser's local storage* is shared by its tabs, each of which
does a read-modify-write within one turn of its event loop; the session cookie
is shared too, and each request carries what it holds when it leaves. Tabs hear
of each other by storage events, which arrive later.

What could go wrong in all this, line by line, is the list of hazards in
`PROJECT.json`; the properties are aimed at it.

## 2. Modules

| Module | What it is |
|---|---|
| `ChapterShelf` | abstract: what the server promises about one chapter's copy |
| `DownloadQueue` | the queue, the worker, the directories, the handlers; implements `ChapterShelf` |
| `ProgressLog` | abstract: the append-only log of ADR-0002 |
| `ProgressSync` | reader, outbox, drain, sessions, journal; implements `ProgressLog` |
| `UnitSync` | a publication's rows under listings, refreshes and the worker |
| `ReadMarks` | marks, the map of pending ones, its flush |
| `DeviceChapters` | the shell's store, the saves into it, the pull queue and its driver |
| `SavedPages` | the service worker's caches of a chapter, under saves and account changes |
| `Accounts` | sign-ins statement by statement, the history claim, the start-up |
| `LibraryScan` | overlapping scans of the books directory |
| `ComicReader` | the paged track and the vertical strip |
| `LibraryBackup` | export and restore |
| `LivePages` | the cache of page addresses |
| `DownloadQueueMC`, `ProgressSyncMC`, `UnitSyncMC`, `PartsMC` | instances for TLC |
| `DownloadQueue_proofs`, `ProgressSync_proofs`, `UnitSync_proofs`, `Accounts_proofs` | theorems about the module each is named after |
| `SavedChapters_proofs` | theorems about `DeviceChapters` and `SavedPages` |
| `Reading_proofs` | theorems about `ComicReader` and `ReadMarks` |
| `Library_proofs` | theorems about `LibraryBackup`, `LibraryScan` and `LivePages` |
| `Parts_proofs` | theorems about `PartsMC`: that its parts behave as they do alone |

`PartsMC` puts the eight smaller protocols, which share no state, into one
behaviour space: an initial state chooses one of them, and the others stay as they
began. What TLC finds of a part is what it would find of that part alone; that the
whole adds no behaviour to a part is a theorem (`PartsAreThemselves`).

### DownloadQueue

`row` is `download_state` (with `unlisted` and `gone` for a chapter that has no
row yet or no longer); `dir`, `partial` and `old` are the three names a
chapter's directory can have, each absent, torn (some pages) or full; `wpc`,
`wunit`, `outcome` and `hadOld` are the worker's position and locals;
`notified` is the permit; `task`, `todo` and `removed` are the handlers.
`owed` is history: the chapters with a promoted copy that nothing has removed.

| Code | Actions |
|---|---|
| `downloader.rs` `run` | `Poll`, `Claim`, `Record`, `Discard`, `WakeByNotify`, `WakeByTimer`, `WorkerDbError` |
| `download_chapter` | `Resolve`, `AskSource`, `FetchDone`, `FetchFail`, `DropStale`, `Stage`, `Promote`, `Restore`, `DropOld` |
| `Db::queue` and its callers | `Download`, `DownloadMany`, `Retry`, `QueueUser`, `Discover`, `QueueAuto`, then `Notify` |
| dismiss, remove, delete | `Dismiss`; `Remove`, `ResetRow`, `RemoveFiles`; `Delete`, `Purge` |
| a client that goes away | `Abandon` |
| kill and start | `Restart` (`with_options` re-queues what was downloading) |

Faults come in four kinds, each with its own bound: a restart, a database
error, a file-system error, a dropped request. The contents of pages, the
progress display and the live-page cache are left out. `remove_dir_all` is one
step, except that a kill may leave one directory torn.

### ProgressSync

Two processes of different nature share local storage: the reader, whose
reports are independent of one another (`TurnPage`, `ServeReport`,
`ReportDone`, `ReportFailed`), and the drain of each page (`StartDrain`,
`Verify`, `Send`, `ServePush`, `Acknowledge`, `PushFailed`, `PushTimeout`).
Around them pages load and unload (`Boot`, `Reload`, `Notice`), people sign out
and in (`Revoke`, `SignOut`, `LeavePage`, `SignIn`), sessions end (`Expire`)
and chapters go (`RemoveUnit`, `RemovePublication`). A push the client has given
up is `stale`: it may be served later (`ServePush`) or never (`LosePush`).
An event's identity is the turn it belongs to and the way it went, for a turn
has one UUID when the server makes the event and another when the outbox does.
`commit` stands for the order of `seq`. The clock strictly increases.

`Position` is where a reader opens: the merge rule over the journal
(`yomu-domain/src/progress.rs`) and over what waits in the outbox (`offline.rs`,
`effective_position`). The backoff between drains and the limit of eight rounds are
left out; `auto_mark_read` is in `ReadMarks`. The service worker's fence (`sw.js:292-297` answers 409 to a write of a
page whose owner has changed) is not there either: it exists only where a
service worker controls the page, and the interval between the session cookie
of a new sign-in and that account's boot is open with it, too.

### UnitSync

`rows` maps ids to key, sign (what recognises a chapter at another address: its
number, or its title if it has none) and state. `Sync` is the transaction, made
of the three passes of the code: `Rekeyed`, `Upserted`, `Reconcile`. Then each
refresh goes through `Confirm` (the statements between the commit and the file
operations, each of which may end the refresh), `FileStep` (one file-system
call at a time) and `Queue`; `Drop` is a manual refresh whose client goes away.
The worker is that of `DownloadQueue` with the details taken out. `heir`, `last`
and `cut` are history: where a chapter that was read went, the listing merged
last, and the chapters whose handed-over pages may never arrive.

A listing is any map of keys to signs at any time, so the step that fetches it
is left out. Which of several copies with one twin is handed over depends on
the order of rows in an unordered SELECT: `Gifts` allows any. The order in which
the worker takes pending rows is left to `DownloadQueue`.

### ReadMarks

`queue` is the map in local storage; `mark` and `reply` are the marks made and what
their pages know of them; `flush` is each page's drain. `wish` and `crossed` are
history: what the reader last asked for, and the chapters for which two different
values were on their way at once. One of these cases came up in the proof of
`ShownAsMarked`: a flush takes its value off the map when it finds it there, also when
the value was replaced and put back since, while another page still replays the one
in between.

| Code | Actions |
|---|---|
| `manga.rs` `mark_ids` | `MakeMark`, `MarkFailed` (the mark goes into the map) |
| `Client::send` | `MarkTimeout`: the page gives up, the request may still be served |
| `POST /marks` | `Serve`, all or nothing, refused when a chapter is gone |
| `flush_marks` | `StartFlush`, `SendMarks` with halving on 413, `AcknowledgeMarks`, `FlushFailed` |
| `auto_mark_read` | `AutoMarkRead` |

### DeviceChapters

`disk` holds, for each chapter, the directory and its `.partial-` and `.old`
companions as sets of pages; `marks` and `pullQueue` are the two lists in local
storage; `walk`, `loop`, `saver`, `local`, `cancelling` are the memory of the page,
which a `Reload` or a `Kill` empties.

| Code | Actions |
|---|---|
| `pull.rs` | `StartWalk`, `Walk` over one answer of the server (`ServerView`) |
| `manga.rs` `download_both`, `download_local`, `save_locally`, `remove_local` | `Enqueue`, `DownloadLocal`, `LoopNext`, `CancelSave`, `ForgetFailed`, `RemoveLocal` |
| `save_chapter_with_progress` and the shell's commands | `SavePage`, `Finish`, `FinishUncleared`, `SaveCancelled`, `SaveFailed`, `StagingGone` |
| `publish_chapter`, cut by a kill, and `recover_chapter_publications` | `Kill`: any prefix of `Recovered`, `Cleared`, `SetAside`, `Landed`, `Cleared`, then `AtStart` |

Covers, manifests and the re-keying of stored chapters by fingerprint are left out.

### SavedPages

`store` is the Cache API: owner and generation, one cache for each save, the manifest
(`pointer`) and the pending record. A command of `sw.js` runs alone (the worker
queues them) but takes several writes, so each is a list of states (`BeginSteps`,
`FinishSteps`, `DeleteSteps`, `CancelSteps`, `SwitchSteps`): normally the last of
them is reached, and `StopWorker` leaves any earlier one. A page being fetched and a
response being put into the runtime cache are outside of the commands (`FetchPage`,
`PutPage`; `ReadThrough`, `PutRuntime`), guarded by `Fence` when they come back.
`LoadTab` is `offline-context.js` at a page load, `ChangeSession` the cookie.

### Accounts

`signIn` says at which statement of `upsert_oidc_user` each request is: `LookUp`,
`InsertUser` (which may lose to another request by either unique column),
`RegisterIdentity`, `LookForSole`, `Claim`. `Start`, `Unify` and `Open` are the
start-up: rejoining accounts an older build had split, then serving, with the
single-user transfer. `Stop` cuts everything anywhere. `journal` is the table, each row
with its number: the claim deletes the shared rows and inserts them anew for the
account, in their order (`ToAccount`). Session expiry, display
names and roles are left out; so is a person whose name equals the placeholder
the model uses for reading without an account.

### LibraryScan

`shelf` is the directory, `stored` the rows with a path, `scan` each scan's snapshots.
`Discover` walks the directory, `ListLocal` reads the rows, then `MatchFound` handles
one file at a time (`Known`, `Repoint`, `Insert`) and `FlagVanished` one row at a
time. Between any two of these the directory changes and the other scan runs.
`muddled` is history: titles whose file was moved under a scan, doubled or replaced.

### ComicReader

| Code | Actions |
|---|---|
| `request_turn`, the touch handlers | `RequestTurn`, `SpringBack` |
| `finish_snap`, `commit_pos`, the 400 ms timer | `TransitionEnd`, `TimerFires`, both through `Land` |
| page list and detail arriving | `PagesArrive`, `PagesFail`, `DetailArrives` |
| scroll handler, `load_next`, `load_prev` | `Scroll` (with evictions and loads), `LoadDone` |
| `toggle_mode`, the jump to a page, a new route | `ToggleMode`, `Jump`, `Reroute` |

Pixels and gestures are abstracted to where they end; preloading and zoom are out.

### LibraryBackup and LivePages

`ExportStep` reads one table; between two of them rows come and go. `Restore` is the
transaction: it skips ids that are there (`NewIn`), fails whole where a unique
column (`Clashes`) or a reference (`Orphaned`) does.

`LivePages` has the cache as a sequence, oldest entry first, and each request at
`look`, `resolve`, `put` or `fetch`. Addresses are numbered by how often the source
has renewed them. `Downloaded`, `RemoveDownload` and `DeleteLive` write the row and
`DropEntry` drops the entry afterwards, or not if that request goes away (`LoseDrop`).

## 3. What TLC checks

All bounds are CONSTANTS given in the .cfg files; a fault bound limits how often
a kind of fault happens in one behaviour.

| Run | Instance | Shows |
|---|---|---|
| `downloads_faults` (`DownloadQueueSafety.cfg`) | 1 chapter, 2 handlers (symmetric), one fault of each kind | `TypeOK`, `DownloadedIsComplete`, `GoodCopyNeverDestroyed`, `DownloadingIsActive`, `NoLostWakeup`, `NoOrphanFiles`, `AutoSkipsUnavailable`, and the refinement `ShelfSpec` |
| `downloads_drain` (`DownloadQueueDrain.cfg`) | 2 chapters of different rank, 1 handler, a restart and a dropped request, fairness | `QueueDrains` |
| `progress_tabs` (`ProgressSyncTabs.cfg`) | 1 account, 2 tabs (symmetric), 2 turns, 2 network faults, a reload, a removal | `NothingLost`, `ReplaysAreHarmless`, `StampedInOrder`, `ResumesAtLast`, and the refinement `LogSpec` |
| `progress_accounts` (`ProgressSyncAccounts.cfg`) | 2 accounts, 1 tab, a network fault, an expiry, a removal, a sign-out, fairness | `TypeOK`, `NeverUnderAnother`, `OutboxDrains` |
| `units_overlap` (`UnitSyncOverlap.cfg`) | 2 keys, 2 signs, 4 ids, 2 refreshes (symmetric), 3 listings, 1 request, 1 fault | `TypeOK`, `CopyOnDisk`, `DownloadsSurvive` |
| `units_listings` (`UnitSyncListings.cfg`) | 3 keys, 2 signs, 4 ids, 1 refresh, any 2 listings after any first one, 2 chapters read | `KeysAreUnique`, `MatchesSource`, `ReadingFollows` |
| `parts` (`Parts.cfg`) | each small protocol on its own instance (below), fairness | `PartsTypeOK`; for `ReadMarks` `ShownAsMarked`, `MarksDrain`; `DeviceChapters` `MarkedIsStored`, `PullsSettle`; `SavedPages` `ManifestIsWhole`, `OthersPurged`; `Accounts` `OneAccountEach`, `HistoryWhole`, `ClaimedAlone`; `LibraryScan` `OneRowPerBook`, `ScansSettle`; `ComicReader` `ShownIsReported`, `StripInOrder`, `TurnsLand`; `LibraryBackup` `RestoreBringsBack`; `LivePages` `RetriedIsFresh` |

Why the bounds are enough for the cases they are there for:

* *Downloads.* Chapters meet only in the queue's order and in the worker, which
  has one of them at a time; the hazards of the directories concern one
  chapter, and two handlers are needed for a removal to be overtaken by a
  request and a download. One fault of each kind gives all pairs of different
  faults, among them an I/O error in a swap and a kill in the next one.
  Two chapters are there for the order of the queue and its progress.
* *Progress.* Two events, a `Limit` of 2 and a `Capacity` of 1 make a batch too
  large once, halved once; two tabs can both hold a batch with the same event;
  two network faults give a lost reply whose request is served again and one
  more failure. `Capacity` 0 would stand for one event that is itself too large.
* *Units.* Two signs over three keys contain a rename, a swap, a split (two
  keys, one sign), a doubled chapter, and ambiguity on either side of a match.
  Two listings after an arbitrary first one let a chapter move twice.
  For overlaps, two keys and three listings let one refresh merge a row that
  another is still handing pages to.

The instances of `parts`:

| Module | Instance | Enough for |
|---|---|---|
| `ReadMarks` | 2 chapters, 1 page, bodies of 1 id, 2 marks, 1 fault | a mark over one that is queued or being replayed; a batch that must be halved |
| `DeviceChapters` | 2 chapters of 2 pages, 2 wishes, 1 fault | a save by the driver and one by the page, of one chapter or two; a kill at any step of a publication |
| `SavedPages` | 2 accounts, 2 tabs, 2 pages, 2 saves, 2 sign-ins, 1 fault | two saves of one chapter, a purge during one of them and a return of the first account |
| `Accounts` | 3 subjects of 2 people, 2 sign-ins at once, 2 readings, 2 starts | two subjects of one person racing; accounts split by an older build; a claim cut by a stop |
| `LibraryScan` | 2 paths, 2 titles, 2 scans, 2 moves, 1 fault | a rename under a scan and between two; a book that goes and comes back |
| `ComicReader` | 3 chapters (the second of 2 pages), 1 chapter kept on either side, 2 strips | a turn across a chapter's edge in both directions, an eviction, an answer for a strip that is gone; the code keeps 2 chapters on either side |
| `LibraryBackup` | 2 readers, 1 origin, 1 address, 2 rows of each table, 1 export, 2 restores | a row removed between two tables, a file restored twice, under another account, after everything was lost |
| `LivePages` | 2 chapters (one of a local file), 2 requests, a cache of 1, 1 renewal, 1 row written | an eviction, two requests resolving one chapter across a renewal, a late insertion after a drop |

Where the system may stop (no turns left, no listings left) the .cfg says
`CHECK_DEADLOCK FALSE`; the download queue never stops and is checked for
deadlock.

### Fairness

`DownloadQueue!Fairness`: the worker is a tokio task that runs until the
process ends, HTTP and database calls return, and the 60-second timer is part of
its `select!` (`downloader.rs:53-56`); handlers run to their end. Nobody has to
make a request and no fault has to happen. `QueueDrains` assumes that people
stop asking at some point: without that, a chapter of higher rank could be
overtaken for ever.

`ProgressSync!Fairness`: `sync::start` ticks every five seconds, so a drain that
can start does and what it awaits goes on; the server serves a push that is
waiting; a page that loads gets loaded, and a storage event or a sign-out that
has begun is carried through. `OutboxDrains` assumes that from some point on
some page of the browser works for the account and the browser is signed in as
that account.

`PartsMC`: the drain of each window ticks for ever and requests are answered or time
out (`MarksFairness`); a save goes on or fails, the driver's timer wakes it, the
server's queue gets to every chapter, which is what `QueueDrains` is about
(`DeviceFairness`); the periodic scan comes round and one that has begun goes on
(`ScanFairness`, with nothing assumed of manual scans beginning); a timeout that was
set elapses (`ReaderFairness`: nothing is assumed of `transitionend`).

### Disagreements between code and documentation

| Run | What it shows |
|---|---|
| `downloads_dismissed` | ARCHITECTURE.md says that chapters marked `pending` are picked up. Between the worker's SELECT and its UPDATE by id a chapter can be dismissed; it is downloaded all the same (`OnlyPendingIsTaken`). |
| `progress_switch` | ADR-0003 says offline work must not be replayed under another identity. A drain verifies the account, then sends with whatever session the browser holds; an expiry and a sign-in in another tab in between credit the batch to the other account (`NeverUnderAnother`). |
| `progress_comic` | ADR-0002 says events are stamped by the observing device at observation time. The comic reader takes the time when its report has failed, so turns whose failures come in another order resume at the earlier page (`StampedInOrder`). The book reader takes it before it asks. |
| `units_dropped` | The comment in `sync_units` says a row without a twin is dropped only when nothing is saved locally, so downloaded content is never discarded. A copy can be handed to a chapter that the worker is downloading; if that download fails, the row says `failed` with the pages there, and the next listing without it drops row and pages (`OnlyEmptyIsDropped`). |
| `pages_finish` | `sw.js` says a failed replacement never deletes the complete copy. `save-finish` writes the manifest first and deletes the pending record afterwards. A worker stopped between the two leaves a pending record that names the published cache, and the next save of the chapter begins by deleting it (`FinishedStays`). |

What else came up while reading, and is no run:

* `DropStale` deletes `.old` before the new copy is in place without asking
  whether it is the only one left, so three faults in a row can destroy a good
  copy: a restart that has a finished chapter fetched again, a fault that leaves the
  former copy staged aside, and one that keeps the next one from being promoted.
  `GoodCopyNeverDestroyed` holds up to two (`CopyOutlivesTwoFaults`).
* `remove_downloads` resets rows and then deletes directories. A chapter asked
  for again and downloaded in between loses its new files.
  `DownloadedIsComplete` says that this is the only way.
* A database error in `finish_download` leaves a row `downloading` until the
  next start; `DownloadingIsActive` and `QueueDrains` exclude it.
* An error after the commit of `sync_units` (or a client that goes away) returns
  before the directories are moved and before new chapters are queued; the next
  refresh knows these chapters already and does neither. `CopyOnDisk` names
  the chapters concerned (`cut`).
* A row that is pending or downloading and merges into a twin takes its request
  with it: the twin is not queued.
* *Marks.* A flush that meets a chapter the server has deleted fails, and does so each
  time: `MarksDrain` is stated for runs in which none is. An online mark does not
  clear an older pending one of the same chapter, which overrides it at the next
  flush (`crossed`).
* *Device store.* Two saves of one chapter use one staging directory; the later one
  wipes what the earlier wrote (`doubled`). A kill between the deletion of the files
  and of the mark leaves a chapter shown as stored, whose removal then fails with
  `NotFound` for ever (`cut`).
* *Service worker.* A purge that is cut finds the new owner at the next start and is
  not resumed (`leftBehind`).
* *Comic reader.* In the strip, scrolling sets `page` but not `pos`: after toggling
  back, the next turn starts from the old position and reports backwards. A count
  that arrives after its end of the strip was evicted is pushed all the same and
  leaves a gap, and two toggles with a load under way append a chapter twice
  (`overtaken`). A turn whose fallback fires when the strip has moved to another
  chapter is reported for the routed one (`strayed`). A route to the chapter
  the router is already at does not mount a new reader.
* *Backup.* The export is no snapshot: chapters of a publication added meanwhile make
  the whole file unrestorable (`late`). Restoring into an instance that holds the
  same file or title under another id fails whole, although the comment there says
  the merge is additive. Under another account, events whose ids the first one still
  holds are skipped.
* *Live pages.* A list resolved before a drop can be stored after it (`crossed`). A
  page that fails twice is then an error, and the page count of the chapter stays
  that of the old list until the entry is half an hour old.
* *Scan.* `streamer/mod.rs` calls itself never destructive; what a book's refresh does
  to its units is decided in `db/units.rs`, which merges and drops rows.

## 4. What TLAPS proves

Every theorem holds for all values of the constants that satisfy the named
assumptions, with no bound on the faults beyond the constant. Each safety property
that a passing run checks is stated by one. The five properties that a run finds
violated are each stated by one too, under a condition that its counterexample
breaks, so that what is wrong is known to lie in the step the condition names:

| Run | Property | Holds as long as | Theorem |
|---|---|---|---|
| `downloads_dismissed` | `OnlyPendingIsTaken` | the chapter in the worker's hand is not dismissed between the SELECT and the UPDATE | `OnlyPendingUndismissed` |
| `units_dropped` | `OnlyEmptyIsDropped` | no merge hands a copy to the chapter the worker is on, and no kill falls between promoting pages and recording them | `OnlyEmptyDroppedApart` |
| `pages_finish` | `FinishedStays` | no worker is stopped between the two records of `save-finish` | `FinishedStaysUncut` |
| `progress_comic` | `StampedInOrder` | nothing is read in the comic reader | `BooksAreStampedInOrder` |
| `progress_switch` | `NeverUnderAnother` | a browser in which somebody has read stays in that hand, or runs one page at a time | `OneHandKeepsWorkOwn`, `OfflineWorkIsOwn` |

**`DownloadQueue_proofs`**, from `PubAssumption`, `RankAssumption` and
`FaultAssumption`:

* `SpecIndInv`: `IndInv` is inductive. `DownloadedIsComplete` is not inductive by
  itself. The worker is the only one that makes a row `downloaded`, and it does so
  long after it has looked at anything, so one has to know at each of its steps
  what the directories hold (`StagedIsWhole`: the copy about to be promoted is
  full; `PromotedIsOwed`: at `record`, success means a full copy that is owed
  unless removed), that the row it is on can only have been reset or deleted
  meanwhile (`WorkerOnItsRow`), and that a purge only touches chapters whose row
  is gone (`PurgesOnlyGone`). The steps of handlers are summed up
  first in what they may do to a row (`HandlerRowStep`) and to a directory
  (`HandlerDiskStep`), so that each conjunct meets a handful of cases.
* `TypeCorrect`, `DownloadedComplete`, `DownloadingActive`: the invariants the
  runs check.
* `WakeupsAreKept` (`NoLostWakeup`): a handler that has queued a chapter is about to
  give the permit, and a permit is used up only by a worker that then polls.
* `OrphansAreDiscarded` (`NoOrphanFiles`): what is on disk of a deleted publication
  belongs to a purge still to come (`PurgesToCome`) or to the worker, which discards
  it when it finds no row (`GoneIsClean`).
* `SweepPassesOver` (`AutoSkipsUnavailable`).
* `CopyOutlivesTwoFaults` (`GoodCopyNeverDestroyed`), for any bounds on faults: while
  restarts and failing file operations number two at most (`Losses`), whatever the
  other faults. Without one of them a chapter with a copy is not downloaded again
  (`NotTwice`); after the first one the copy is staged aside at most between the two
  renames, and only a second one leaves it there (`CopyKept`); and what is about to be
  promoted is there in full (`StagedIsThere`). With three restarts, or two and a failing
  rename, in the bounds of `downloads_faults` TLC finds the copy lost.
* `TakesPendingOrDismissed`: what the worker claims is the one chapter it has looked
  up, pending or dismissed since, whatever the requests, faults and restarts;
  `OnlyPendingUndismissed` (`OnlyPendingIsTaken`), if no step dismisses the chapter in
  hand. Nothing else can happen to the row in between: it can only be queued again,
  reset or deleted (`HandlerRowStep`).
* `ImplementsShelf`: every behaviour is one of `ChapterShelf`'s under the mapping
  `ShelfOf`. Each update of rows is a legal move of the chapters it changes
  (`SetRowsShelf`).

**`ProgressSync_proofs`**, from the assumptions of `ProgressSync`:

* `SpecIndInv`: `NothingLost` follows from what is known at every stage of a
  turn: statuses belong to turns that happened (`TurnsCounted`), a turn whose
  report is open has a page that is still there to queue it (`ReportersRun`),
  an event is made once (`MadeOnce`) and served once (`ServedOnce`), an answer
  "ok" means that every event of the batch whose chapter exists is in the
  journal (`AnswersAreTrue`), and a page awaits one push at a time (`OnePush`).
* `TypeCorrect`, `NoTurnIsLost`, `EventsAreIdempotent` (`ReplaysAreHarmless`).
* `ImplementsLog`: the journal is the log of ADR-0002 through any interleaving
  of reports, pushes, late pushes and removals.
* `BooksAreStampedInOrder` (`StampedInOrder`) where nothing is read in the comic reader
  (`NobodyLate`): a queued event carries its turn's stamp, and stamps grow with the
  turns (`InTime`). `progress_comic` shows the assumption is needed.
* `OfflineWorkIsOwn`: with one page per browser (`OnePage`), the property that
  `progress_switch` violates with two of them: the window is between tabs, not
  within one.
* `OneHandKeepsWorkOwn`: with any number of pages it holds as long as no browser in
  which somebody has read gets a session of somebody else (`InOneHand`), whenever
  sessions end and whoever signs out. An outbox keeps what its account read in its
  browser (`Stored`), so what a request carries and the session it goes under are one
  account's, or the request is refused (`WorkIsOwn`). `StayingInKeepsWorkOwn`: so it is
  when nobody signs out and no session ends (`NobodyLeaves`), because every page then
  works for the account of its browser or for nobody yet (`SignedIn`).
* `BooksResumeInOneHand` (`ResumesAtLast`), under `InOneHand`, with nothing read in the
  comic reader and nobody signing out: sessions may end and be renewed, and a page that
  finds none works on offline. A turn that is over is kept under its reader's account
  (`NothingLost`, `Attended`, `WorkIsOwn`), no row says that a turn was seen before it
  was (`RowsInTime`), so of what is kept the latest is the last turn
  (`PositionIsLatest`). That a finite set of stamps has a latest comes from the
  least-number principle (`LeastNatural`). `BooksResumeAtLast` is the case of
  `progress_tabs`, where people stay signed in. The conditions are needed: in the
  bounds of `progress_comic` an earlier page is shown, in those of `progress_switch` a
  turn reported after a change of the session is the other account's, and what a page
  that is signing out still had to report is left in nobody's outbox.

**`UnitSync_proofs`**, from `BoundsAssumption` (keys and signs are any, and so is
the number of listings):

* `TypeCorrect`. Here the types say something: marks, and the histories of what
  was read, point at rows that exist, although three passes and cascading
  deletions move them.
* `AddressesAreUnique` (`KeysAreUnique`): each pass is described on any table of
  rows (`RekeyedRows`, `UpsertedRows`, `ReconciledRows`) and shown to keep a table
  without duplicate keys (`RekeyedUnambiguous`: a renamed row and its new key are
  each other's only match and no row had that key; `UpsertedUnambiguous`: new rows
  get the keys that no row has after the first pass). `SyncShape` puts them
  together; `RowsStep` says that nothing else touches keys or signs.
* `SourceIsMatched` (`MatchesSource`): after the upsert the table mirrors the listing
  (`UpsertedMirrors`), and the reconciliation keeps that (`SyncMatches`).
* `ReadingStaysTogether` (`ReadingFollows`) and `DownloadsAreKept`
  (`DownloadsSurvive`), from `SyncShape`, `MergedRows` and `FollowedRows`: a twin
  is listed, so it is neither merged nor dropped by the pass that merges into it.
* `CopiesStayOnDisk` (`CopyOnDisk`): the operations a refresh has still to do are
  where the pages of a row are to come from (`OpsInOrder`), and the worker's row is
  its own (`WorkerInOrder`); with that the copy follows every move, through
  refreshes that overlap.
* `OnlyEmptyDroppedApart` (`OnlyEmptyIsDropped`): pages on disk are those of a
  downloaded row, of the row the worker is about to record, or on their way between
  two rows (`SavedOnly`), away from the two windows of the table above. Each of them
  alone is enough for a counterexample: the run shows one; the other is a kill after
  the promotion, a restart that queues the chapter again and a next attempt that
  fails.

**`SavedChapters_proofs`**, from `DeviceAssumption` and `SavedAssumption`:

* `StoredAsMarked` (`MarkedIsStored`) with `DeviceTypeCorrect`. A lone save's staging
  holds every page before the one it is at (`StagedSoFar`), two saves of one chapter
  are known (`OverlapIsDoubled`), and at every point of a publication the whole copy is
  under its name, or aside with nothing under the name, from where the next start
  takes it.
* `ManifestsAreWhole` (`ManifestIsWhole`), `OthersArePurged` (`OthersPurged`),
  `SavedTypeCorrect`. What each command may change is stated once (`CommandOf`, an
  account's command touches only caches named for it) and shown of every prefix of its
  writes, so a stop needs no case of its own; a late page meets the fence or is for the
  pending cache of the account that is served (`FetchesForStage`).
* `FinishedStaysUncut` (`FinishedStays`): what is published and what is staged are
  different caches (`StagedApart`) unless a stop fell between the two records of a
  finish (`FinishesWhole`). `ManifestsWholeUncut` puts the two together: every manifest
  is then whole, without the exception that `ManifestIsWhole` makes for a copy deleted
  that way.

**`Accounts_proofs`**, from `SubjectsAssumption`: `OnePersonOneAccount`
(`OneAccountEach`) and `GivenToTheOnlyOne` (`ClaimedAlone`). A name has one row that
bears it bare (`RowsWhole`), where a sign-in stands tells which row it found
(`LeadsHome`), the start has rejoined what was split before anything is served
(`ServedUnified`), and an account seen alone is older than any made since
(`SoleStaysOldest`). The least of a set of ids comes from well-foundedness of the
naturals. `HistoryStaysWhole` (`HistoryWhole`): who owns a row follows from who read it
and whether the claim had been made (`Kept`), and rows that move keep their order
because they get new numbers in the order of the old ones (`InOrderRead`). The claim
looks at its row in the transaction that moves the events; without that look a second
account would take them over.

**`Reading_proofs`**, from `ReaderAssumption` and `MarksAssumption`:

* `ScreenIsReported` (`ShownIsReported`). A turn's place is checked when it begins;
  that the list of chapters and the counts it was checked against do not change before
  it lands is the invariant (`TrackInBounds`).
* `StripStaysInOrder` (`StripInOrder`): as long as no load has met an eviction or a
  switch of modes, chapters at neighbouring places of the strip are neighbours in the
  listing (`Unbroken`) and each load is for the chapter beyond its end (`LoadsAtEnds`).
  What an eviction leaves is a run of the same chapters (`RetainedRun`), which rests on
  a finite set of numbers having one of each rank (`EveryRank`).
* `MarksShown` (`ShownAsMarked`): of a chapter without two values on their way, any
  mark still unanswered carries the value given last (`OneValueMarked`), an older value
  of a flush is about only while the last is unanswered or in the queue
  (`OlderGoesUnder`), and what a flush is about to acknowledge the server has
  (`Replayed`).

**`Library_proofs`**, from `BackupAssumption`, `ScanAssumption` and `LiveAssumption`:

* `RestoresBringBack` (`RestoreBringsBack`). The export reads a table after those its
  rows refer to, and what disappears meanwhile was read before (`ReadCovers`), so a
  file no row was added behind is closed under its references (`Closed`).
* `BooksKeepTheirRow` (`OneRowPerBook`): a book that is not moved under a scan, doubled
  or replaced is where every scan under way found it (`ScansSeeShelf`), and nothing
  but itself is at its row's path (`RowsAtOwnBook`). A row that appeared since the scan
  read the table is where its book is (`NewRowsAtBook`); so the scan takes the row at
  the path, or the one whose file is missing, and adds none. `RowsKeyed`: identifiers
  and paths stay unique, whatever overlaps.
* `RetriedFresh` (`RetriedIsFresh`): what is in the cache, on its way into it or in a
  retrying request's hands is at least as young as what was valid when that request
  failed (`RetriesMeetFresh`).

**`Parts_proofs`**, from the assumptions of the eight modules:

* `PartsAreThemselves`: a behaviour of `PartsMC` is, of each part, a behaviour of that
  part. Each step is one part's own and leaves the variables of the others alone
  (`PartsTakeTurns`).
* `PartsTyped` (`PartsTypeOK`) and `PartsAreSafe`: so what is proved of the parts holds
  of the specification that the run `parts` checks, all its safety properties among it.

What stays with TLC: liveness under fairness (`QueueDrains`, `OutboxDrains`,
`MarksDrain`, `PullsSettle`, `ScansSettle`, `TurnsLand`) and everything about
`ENABLED`, which the prover does not do, and the five counterexamples of section 3.
`GoodCopyNeverDestroyed` is proved for at most two of the faults that can cost a copy,
`StampedInOrder` and `ResumesAtLast` for books alone; beyond that they are false. No
module has a RECURSIVE operator.

## 5. What is not modelled

Because nothing in it interleaves, or because TLC would have nothing to explore:
source selectors and dates, EPUB/PDF parsing, page layout and gestures,
configuration, packaging, migrations, the cryptography of tokens. They appear in the
models as nondeterministic answers. The catalog cache has one writer at a time for a
page it knows.

What a next step would take up:

1. The browser's list of saved chapters and its `reconcile`
   (`offline-context.js:88-95`), beside `SavedPages`: it reads the list, awaits the
   worker once per chapter and writes its copy back.
2. Re-keying of stored chapters by fingerprint in the shell (`lib.rs:332-406`), beside
   `DeviceChapters`, and its counterpart in a restore.
3. The client's page cache (`cache.rs`), the update feed and the notifier, the
   table of pending OIDC logins.
4. Equal times in `effective_position` (`offline.rs:242`) and cursors that are ahead
   of rows that unifying two accounts moves (`db/users.rs:163`).
5. A composition of the pull driver with `DownloadQueue` and `UnitSync` in place of
   the answers it meets in `DeviceChapters`: `units_dropped` shows that the promise of
   `ChapterShelf`, proved of the queue alone, does not survive a refresh.
