# Verification of vault-ui

vault-ui serves a Kanban board over Markdown vaults: it lists the task, goal and
topic pages of several folders, joins them with the Claude sessions that run for
them, writes frontmatter changes back through `vault-cli`, and pushes watcher
events to browsers over a websocket. The Go service under `src/pkg` is the
implementation; the Python backend under `src/src/vault_ui` is superseded
(`src/docs/go-cutover.md`).

This directory holds TLA+ models of the service's core, the TLC runs that check
them on small instances, and TLAPS proofs for every size. `PROJECT.json` maps
each definition to the lines it models and lists components, runs, mutants,
findings, hazards and theorems.

```
tlc -workers 2 -config TaskList.cfg MCTaskList     # one run
tlapm TaskListProofs.tla                           # one module's proofs
```

## 1. Inventory

| component | state | operations | called by / calls |
|---|---|---|---|
| page index (`pkg/pageindex`) | per folder: published pages, fingerprints, revision, change log, write marks, the running build and one queued follow-up | `ListPages`, `Refresh`, `RefreshFile`, `MarkDirty`, `MarkFileDirty`, `ForceReload`, `ChangedPagesSince`, `Rescan` | every board read; the watch handler; the queued writes; the rescan loop |
| page store (`pageindex/store.go`) | fingerprint and parsed page per file, on disk | `Load`, `Write` | the page index only |
| write queue (`pkg/queue`) | a FIFO, a running flag and a done channel per vault | `Enqueue`, `Consume`, `Done` | mutations enqueue; each consumer applies a write and its side effects |
| task-list snapshot (`board/snapshot.go`, `tasks.go`) | per vault: rows, the revision and session generation they stand for, a signal, the running build | `List`, `Signal` | the body cache; reads the page index, the session snapshot and the status cache |
| body cache (`board/taskbody.go`) | rendered bodies per query with signals and expiry | `Get` | `GET /api/tasks` |
| status cache (`pkg/statuscache`) | status and session-started marker per task | `LoadVault`, `Invalidate`, reads | rows, launch admission, watch handler, writes |
| watch handler (`pkg/watchrefresh`) | none | one event: refresh, invalidate, broadcast | watcher goroutines |
| mutations (`pkg/mutations`) | none of its own | Run, TakeOver, status/phase/flag/assign/session routes, reloads | queue, index, cache, registry, locks, `vault-cli` |
| launch registry (`pkg/launchregistry`) | per item: in flight or finished, taken over | `Begin`, `Finish`, `MarkTakenOver`, `EvictIfFinished` | Run, TakeOver, cleanup |
| session locks (`pkg/sessionlock`) | counted semaphore per item | `Lock`, release | set-session, bind, cleanup's rebind |
| cleanup sweep (`pkg/cleanup`) | none of its own | clear stale sessions, clear and re-clear markers, rebind empty ids, reconcile at start | timers; writes the vaults |
| session snapshot and state (`pkg/sessionsnapshot`, `pkg/sessionstate`) | live ids, whether they are known, generation, transcript index | `RefreshOnce`, reads; `Replace`, `MarkUnknown` | rows, cleanup |
| websocket hub (`pkg/websocket`) | clients with bounded queues | `Connect`, `Disconnect`, `Send`, `Broadcast`, `Pump` | watch handler, publisher |
| watcher supervisor (`pkg/watcher`) | the subprocess, a stopped flag | `Run`, `Stop` | nobody: `factory.CreateWatcher` runs vault-cli's watch operation in process |
| session resolver, pane resolver, classification, activity, hierarchy | small caches, or none | pure functions over files and process lists | rows, mutations, cleanup |
| configuration, handlers, wiring, metrics | none that matters here | | |

**How they interact.** A write is accepted into the queue (202), applied by the
vault's consumer, and then reported: status cache first, page-index mark second,
websocket frame last. A watcher event re-reads one file in the index, then
invalidates the cached status, then sends its frame. A browser that gets a frame
reads the list: the body cache drives the snapshot store of every selected vault,
which compares the index's revision and the session generation with those its rows
stand for, and rebuilds, patches or refreshes them on that request's goroutine.
Nothing but these revision numbers, generations and signals tells a cache that it
is stale.

**What is hard.** Everything above runs on its caller's goroutine; the mutexes are
held only between I/O calls. So each layer is a cache that is filled from sources
that move while it is filled, with single-flight builds whose owner can be cancelled,
waiters that inherit a build made for somebody else's request, per-file reads that
overtake listings, marks taken at the start of work that can fail, stored state that
survives a restart, and FIFOs that must drain at shutdown. The hazards in
`PROJECT.json` name the lines.

**What makes each component correct.**
page index: one build at a time, no lost mark, no older read over a newer one, a
change log that names every change; store: never claims a newer version than it
holds; write queue: one consumer per vault, in order, each once, stops when asked;
snapshot: rows at the current revision are current; body cache: a held body is what
rendering would give; launch lifecycle: a launch in flight keeps its marker, the marker
of an ended one goes away, and a 409 blames the right take-over; session locks: a mutex
per item although entries come and go; writers of an item: a bound session is not
overwritten, and an accepted write is applied or reported; websocket: a frame for every
client that stays, in order, after the refresh it announces, and no request that never
ends; session liveness: "cannot tell" is never "nothing is live", and the badge settles.

## 2. Modules

| module | models | proofs |
|---|---|---|
| `PageIndex` (`MCPageIndex`) | one key of the page index, with its store and a restart | `PageIndexProofs` |
| `WriteQueue` (`MCWriteQueue`) | the write queue | `WriteQueueProofs` |
| `TaskList` (`MCTaskList`) | the snapshot store of one vault, composed with the status cache, the watch handler, a queued write's side effects, the session generation, and the index as its callers see it | `TaskListProofs` |
| `TaskBody` (`MCTaskBody`) | the body cache and the projection, over the store as its callers see it | `TaskBodyProofs` |
| `Mutex` | abstract: one caller per key between Lock and release | |
| `SessionLock` | the registry of per-item locks; implements `Mutex` | `SessionLockProofs` |
| `ItemWrites` (extends `SessionLock`) | everybody who writes one item: queued routes, commands, a launch, peers, the cleanup sweep's session passes | `SessionLockProofs` |
| `Launch` | Run, TakeOver, termination, launch registry, starting marker, the sweep's marker passes, crashes | `LaunchProofs` |
| `Feed` | abstract: what a websocket client is promised | |
| `LiveUpdates` | watch handler, publisher, websocket hub and the goroutines of `/ws` requests; implements `Feed` | `LiveUpdatesProofs` |
| `SessionLiveness` | attention-store poll, session state, session snapshot, transcript listing, classification | `SessionLivenessProofs` |

Composition: `ItemWrites` extends `SessionLock`, and its queue is the FIFO that
`WriteQueue` shows it to be. `TaskList` sees the index as `PageIndex` behaves and the
watch handler as `LiveUpdates` has it. `ItemWrites` and `Launch` share the sweep: the
first has its passes over `claude_session_id`, the second those over
`claude_session_started`. `SessionLiveness` produces the generation that `TaskList`
consumes.

### PageIndex

A step is one critical section of the index mutex, or one I/O call between two. The
variables carry the names of the fields of `entry`; `pc`, `call`, `build` and `rd` are
the goroutines' positions in `ensure`, `execute` and a single-file read. A file is the
history of its states (`page`, `broken`, `gone`); its version is the length of that
history, its fingerprint is its version, and a parsed page is the version it was read
at. So "the page shows the write" is a comparison of numbers.

Abstractions: one key (keys share only the read sequence); a fingerprint moves with
every edit, so an edit within the clock's granularity that keeps the size is outside
the model; a listing reads its files one after another where `collect` runs a bounded
number of workers, and its results are applied in the critical section that merges
them; parsing yields a page or a broken file; the store is one bucket of entries whose
write succeeds or fails as a whole. `Edit`, `Crash` and the folder-level marks are the
environment. Goroutines are split by the call they make; a process makes any number of
calls within `MaxRequests` and `MaxEvents`.

### WriteQueue

A step is one critical section of the queue mutex or the return of an `Apply`.
Consumers are counted rather than named, so that two consumers of one vault would be
visible. `Hung` vaults have a write that need not return. `accepted`, `applied` and
`dropped` are history variables. The properties are about order, the done channels and
the shutdown, so what a write does is left out here and is part of `TaskList`.

### TaskList

`rows`, `pageRevision`, `sessionGeneration`, `signal` and `inflight` are the store's
entry. A row is its page's state, whether its session is live, and its blockers. A
build is four steps: start (the kind is chosen under the mutex), `ListPages`, `Derive`,
and `Publish` or `FailBuild`; the sources move between any two of them.

The index appears as `pages`, a change log and pending marks (`stale`). The model lets
`ListPages` return before a pending mark is resolved, because the
index does (`ReadYourWrites` under known deviations). That is more behaviour than the
code has when no rescan is under way, and the properties hold all the same.

Abstractions: a task's session id does not change (that a patch keeps the old
session's fields is a listed hazard); the session-started marker is left out; the
rows of one build are derived in one step; `external` records which tasks were edited
outside the board, and only `WrittenBlockersCurrent` reads it.

### TaskBody

One row stands for a vault's list; it is plain, deferred to an instant, or completed
at one, which are the cases `visibleRow` and `taskBodyBoundary` tell apart. The store is
its `List` and `Signal`: a list publishes the current row and moves the signal only
when the row differs. A failing build of the store is not repeated here (it serves its
previous rows; `TaskList` models that), a failing request is `FailGet`. The
least-recently-used order is a sequence instead of access counters.

### SessionLock, Mutex, ItemWrites

A step of `SessionLock` is one critical section of the registry mutex or one channel
operation. Entry objects are named (`Entries`), so that an evicted entry somebody still
waits on and its successor would be two; one that nobody refers to may be reused, as
after garbage collection. `MutexImplemented` is the refinement: a caller is inside from
its send on the channel to its receive.

`ItemWrites` has one task or goal. A queued write is accepted (the route's checks, 202),
dequeued, applied call by call, and reported. Every `vault-cli` call is a step that can
fail. Of the frontmatter it has session id, phase, status, owner, approval and which
writes' answers are in the file. `Approve` is external: it refuses what is not in the
inbox and writes phase and approval. Display names stand for ids that are not UUIDs; the
resolver's answer is any UUID or none. Peers edit the file by a git merge. The sweep lists
items, takes the live sessions, and works on what it listed, as `cleanup.go` does.
`by`, `since` and `approver` are history variables. The consumer and the sweep are two callers
of the lock (`LockUsers`), among whoever else locks this item or others.

### Launch

One task or goal, Run and Take-over requests, and the sweep. The marker is an age class:
absent, fresh (within `OrphanGrace` and `MarkerTTL`) or expired (past both). The cached
marker follows by `Observe`. A launch's session id is the number of its request;
`Transcripts` says which launches get as far as a transcript. `WorkOn` is the external
`vault-cli` call: it binds the id, runs the turn and returns or fails; a SIGTERM ends it.
A crash loses the registry and kills the launches, which are subprocesses. Failed calls,
crashes and merges share the budget `MaxFaults`.

### LiveUpdates and Feed

The hub's mutex makes each of its operations one step; sockets are closed after it, as in
the code (`unclosed`). A request has its three goroutines and the context that
`CancelOnFirstFinishWait` gives them. A write to a socket succeeds, or fails at once or by
its deadline. Pages are versions: an event's number is the version it brought, so "the
index has the change" is a comparison. `Feed` promises order and no gap from the
subscription on, and nothing about how far a client gets; the refinement maps a client to
"on" while it is registered.

### SessionLiveness

One session outside the vault's own project directory, which is where the listing is
needed (a transcript inside is found by a single stat). The world is whether the store
lists it live, its process, and its transcript (absent, idle, recently written). A board
read takes the three signals of the snapshot one after another, as `buildTaskRows` does,
then probes the transcript. Polls, scans and listings fail within `MaxFaults`; a
truncated listing is one whose request was cancelled. `Quieten` is the passing of
`LiveWindow`.

## 3. Runs

Passing runs (`CHECK_DEADLOCK FALSE` only where the bounds let everything finish):

| run | instance | shows |
|---|---|---|
| `page_index_writes` | 2 readers, 1 writer, folder marks and reloads, 2 versions | a mark is kept until its write is published; a reader that relies on exact file marks gets its write |
| `page_index_rescan` | reader, rescan, writer, cancellations, a failing read; fair | single flight, a refresh returns a listing of its own, every call returns |
| `page_index_folder` | 2 files that appear, break and vanish; rescan against a watcher event | fingerprints are honest and every published page has one, every change is attributed |
| `page_index_store` | rescan against watcher events over the store, a restart, 3 versions, failing loads, writes and listings | a listing never replaces a later read; after a restart nothing older than the restart is published; what is stored is honest |
| `write_queue` | 2 vaults, one hangs, 3 writes each; fair | the queue's six properties |
| `task_list` | 2 tasks, one blocking the other, 2 readers, writer, watch handler, a session scan, a failing build; fair | rows are current, board-written blockers are current, every call returns |
| `task_body` | 1 vault, 2 queries, 2 readers, cache of one body, clock 0..2, one change of the row | a held body is current, a response is no older than its request, the cap holds |
| `item_writes` | task or goal, consumer and sweep on one lock, 2 entries, 2 UUIDs and a display name, 2 writes or other inputs; fair | locked writers never overwrite each other's session, the sweep re-binds nothing that was taken all along, answers precede the approval, the registry implements `Mutex`, every accepted write is reported |
| `launch` | task or goal, 2 Run requests of which one gets a transcript, 1 take-over, cap 1, 1 fault; fair | the sweep gives back a marker it wiped, a Run blames only its own take-over, markers of ended launches go |
| `live_updates` | 2 browsers for 1 place, queues of 1 frame, 2 events, 1 ping; fair | the cap and single close, `Feed`, frames after refreshes, every request ends |
| `session_liveness` | 1 reader, 1 change of the world, 1 fault; fair | a kept listing misses nothing, "quiet" is backed by the store's last answer, the badge settles on the truth |

One run refutes a sentence of the repository (`launch_settles`, quoted in `PROJECT.json`):
a server that crashes after work-on wrote the session id and before claude wrote its
transcript leaves an item whose marker no pass of the next server clears. `launch` checks
the same convergence for all other items.

### Known deviations

The modules state further sentences of the code and docs that the code does not keep. No
run checks them; each can be reproduced with the cfg it names.

| property | instance | what happens |
|---|---|---|
| `PageIndex!ReadYourWrites` | `PageIndexRescan.cfg` with `MaxRequests = 3`, no fault | a rescan has taken a mark and not yet published; a reader is served the page from before the write (`pageindex_build.go:364`; `pageindex.go:331` says a reader sees its own write) |
| `PageIndex!MarkKept` | the same with `FaultKinds = {"list"}` | the rescan's listing fails and the marks it took are gone (`pageindex_build.go:469`; line 466 says the mark stays pending) |
| `PageIndex!RefreshListed` | the same with 2 interchangeable readers, `MaxRequests = 4`, no fault, and the constraint that nothing else happens while the first caller builds the key | a refresh that joined a queued per-file re-read returns without its listing when another request arrives (`pageindex_build.go:62`) |
| `PageIndex!RefreshListed` | `PageIndexStore.cfg` with 2 files, 2 watchers, `UseStore = FALSE`, `EditStates = {"page"}`, `MaxVersion = 2`, no fault, no crash | of two overlapping reads of one file the one that was numbered later saw it earlier; the refresh's listing compares with the newer page, keeps the file, and merges after the older page was put back (`pageindex_file.go:83`, `pageindex_build.go:657`) |
| `PageIndex!MarkKept` | `PageIndexRescan.cfg` with a watcher instead of the reader, `EditStates = {"page", "gone"}`, `MaxRequests = 3`, `MaxEvents = 1`, no fault | a listing drops a removed page without numbering the removal (`pageindex_build.go:694`), and a read that began before the removal puts the page back |
| `PageIndex!BaselineNotServed` | `PageIndexStore.cfg` with a reader and no watcher, `MaxRequests = 1` | a second hydration puts stored entries in place of the published snapshot (`pageindex_build.go:251`); a failed listing then leaves fingerprints nil while a watcher read is about to apply |
| `TaskList!BlockersCurrent` | `TaskList.cfg` | a read between the handler's refresh and its invalidation leaves a dependent's badge stale although its row is at the current revision (`watchrefresh/handler.go:118`) |
| `ItemWrites!RetentionInvariant` | `ItemWrites.cfg` | `repairDisplayName` and `clearItemSession` write from the listed id without lock or re-read: an id bound since is overwritten or cleared (`cleanup.go:375`, `:444`; the package comment at `:8` says never) |
| `SessionLiveness!QuietHeard` | `SessionLiveness.cfg` | before the first poll the empty set counts as known, and the snapshot's startup refresh can serve "quiet" |
| `SessionLiveness!VerdictSound` | `SessionLiveness.cfg` | `TranscriptMtime` caches, for the window, the verdict of a listing that a refresh overtook or a cancelled request cut short, which `indexedMtime` calls "bounded to a single lookup" |

Seen while modelling, without a property: the admission count is read long before the
launch is recorded, so concurrent starts can exceed the cap (`mutations/tasks.go:62`); of
two queued todo-to-planning requests the second is reported as a success without its
answers; the re-clear passes evict unconditionally (`cleanup.go:629`) and can delete the
record of a launch that has just begun; a take-over signals before it marks, so the launch
it ends may answer 500 instead of 409; the change frame of the session state is pushed
before the snapshot refreshes, so the reload it causes may show the old badge until the
browser's next poll.

`page_index_rescan` and `page_index_writes` pass beside the first three because their
`MaxRequests` of 2 and their set of goroutines exclude exactly the interleaving that the
deviation needs: a third request, a rescan beside a reader after a mark, or a listing
fault; the next two need a watcher beside the builds. What the runs show is that nothing
else goes wrong there, and the theorems of section 4 show it for every instance.

**Bounds.** Every property above is refuted by a mutant of the code on the same
instance, so the instance is large enough for the case to occur. Two readers give an
owner and a waiter; two versions give "before" and "after" a write (three where a
restart lies in between); two tasks give a blocker and a dependent; `MaxChangeLog` of 2
with up to four revisions lets a reader fall out of the window; the body cache's cap is
scaled from 64 to 1 with two queries, so that eviction happens; a clock of three instants
with a lookback of one hour lets a row come into view, fall due and age out. Two Run
requests and a take-over give a launch that is taken over and one that begins behind it;
one fault is one failed call, merge or crash at any point. A client cap of one, queues of
one frame and two events make a client fall behind and another one be refused. One board
read meets every step of the poll, the refresh and the listing; a second reader adds only
the duplicate listing that `indexedMtime` accepts and does not fit into a run.

**Fairness.** `WF(Step(p))` for goroutines inside a call: the scheduler runs them, every
I/O call returns or times out (`snapshotBuildTimeout`, the caller's context), and mutexes
are held for bounded sections. Nobody has to make a call, be cancelled, edit or fail.
The queue adds that the service calls `Consume` and that writes of vaults outside
`Hung` return. In `ItemWrites` and `Launch` requests under way, the consumer and the
sweep's loop go on, file events arrive, time passes and a terminated turn returns; a turn
may last for ever. `SF(SetLock)` says that a channel serves its waiting senders in turn.
In `LiveUpdates` fairness is per request, for its three goroutines
together, which is less than the scheduler gives; browsers owe nothing. In
`SessionLiveness` both loops run on timers and an open browser polls the board. `ListReturns` and `CallsReturn` are checked with finitely many revisions
and requests: a waiter that finds its rows stale again goes round the loop, and the code
does not bound how often.

**The instant the boundary overlooks.** `taskBodyBoundary` considers only instants
strictly after now, and `visibleRow` still shows a completed row at exactly
`completedAt + LookbackHours`. A body built in that very instant has no expiry.
`HeldBodyCurrent` and `ServedDuringCall` exempt bodies built then (`AgesOutAt`), and
nothing else.

## 4. Proofs

Theorems have the form `Spec => []P` for an invariant, `Spec => [][A]_vars` for an action
property, or `Spec => Abstract!Spec` for a refinement, for any values of the constants that
satisfy the module's named assumptions (distinct goroutines, `None` none of the values it
stands beside, natural bounds, and for the page index finitely many files, since its diff
compares how many names it has with how many it listed). Four theorems about the page index
have the form `Spec /\ [][H]_vars => []P`, where `H` says which steps do not happen. None uses fairness, and the bounds are constants, so nothing
depends on their size. Every proof has the same shape: an inductive invariant, one lemma per
action or group of actions that it survives, one that the initial states have it, and
theorems that read the properties off it.

- `PageIndexProofs`: `IndexTypes`, `IndexSingleFlight`, `HonestFingerprints`,
  `ChangesAttributed`. `Inv` is `TypeOK /\ RdFile /\ SingleFlight`: single flight has to speak
  of all goroutines at once (the owner of a slot is at a build position, a queued owner
  owns the follow-up, a waiter waits on one of the two), and `RdFile` says that a goroutine
  about to stat, read, apply or mark a file has one. `FingerprintHonest` looks at two
  places only, so `HonestInv` follows a fingerprint and its page through all of them: the
  single-file read (nothing is parsed before the fingerprint is taken), the listing's reads,
  the snapshot, the delta that waits for the store, the store, and back with a hydration.
  Each pair is `Good`, and stays so because a file only gains versions; a read that fails
  keeps the fingerprint without a page, which `ReadFailed` says. `ChangeAttributed` needs
  that: a listing reports a vanished page only if the page had a fingerprint. The rest is a
  lemma about `recordChangeLocked`, that its newest entry survives the trimming.

  `WarmEventsVisible` is about events of keys that have a snapshot. A read takes its number
  before it looks at the file, so a page recorded under a number owes the versions of all
  events that have returned, if no newer number was applied, and of those whose reads began
  by then (`Due`). `VisInv` says that every page pays: the snapshot, the reads of listings
  and events, and what a merge makes of them. An event that meets a key without a snapshot
  becomes a refresh (`ColdReturn`), and a refresh may return without its listing.

  `RefreshesListed`, `MarksKeptUntilShown` and `FileMarksServed` share one argument about
  builds. `Stakes(p, f)` are the pages that the running build relies on for a file, at each of
  its positions, and it `Honours` a version if all of them are as new. A listing honours every
  version at its start, a re-read honours what the snapshot shows or its marks make it read,
  and no step loses a version that is honoured (`HonoursStep`, for any version). At the
  release this is what is published. `SoloInv` supports it: only the running build reads, and
  its reads are the latest of their files. The three invariants on top say whose versions are
  honoured. `RefInv`: a refresh waits for a listing numbered no earlier than itself. `MarkInv`:
  a mark is there, or was made after the running build took its number, or the build honours
  the version it was made for, or the snapshot shows it. `ReaderInv`: a mark that is left is
  younger than the running build, so a reader that may join the build has seen no mark that
  the build does not honour. The hypotheses are the interleavings that break the properties
  in the code, each of which is a row of the known deviations: `WarmRead` (an event's read
  beside the builds), `Serve` of a refresh (it is let go at the head of `ensure`'s loop),
  `FailListing` (the marks a listing took are given up), and `ServedEarly` (a reader is served
  the snapshot while a listing is under way, which `pendingLocked` does not look for). Faults
  of reads, loads and writes to the store, restarts, cancelled callers and, for refreshes,
  failed listings are all allowed; a page that could not be read is excused (`ReadFailed`).
- `WriteQueueProofs`: `QueueOneConsumer`, `QueueDone`, `QueueOrder`, `QueueStopped`. The
  invariant joins the first three with `Phases`: the queue is closed only by `Consume`,
  after the cancellation and before it waits. Order needs that at most one write is in
  flight, which is `OneConsumer`; that nothing is left after the return needs that a
  closed queue accepts nothing and that pending writes have a consumer to drop them.
- `TaskListProofs`: `ListTypes`, `ListRowsCurrent`, `ListBlockersCurrent`. `RowsCurrent` says
  nothing about an entry that is behind, so it is not inductive. `IInv` adds what such an
  entry is worth: a row shows the published page unless the change log names its page after
  the entry's revision; the same holds of the listed pages and the derived rows of the build
  under way, relative to the revision it started from; a patch's changed set contains every
  page named between the entry's revision and the build's; a refresh starts from an
  entry at the build's revision. Publishing under the revision from the start of the build
  is what makes the step go through; the mutant with the revision at the end breaks it. For
  the blockers, `BlockersInv` lists what excuses a row that differs from the status cache: the
  blocking task is edited outside the board, a writer is between its write and its mark, or
  the log touches the task after the row's revision. The cache itself may differ from the
  file only before the writer's invalidation. The excuses never end before the row is
  rebuilt, since `taskWritten` invalidates first and marks second.
- `TaskBodyProofs`: `BodyTypes`, `HeldBodies`, `ServedBodies`. The invariant says of each held
  body that it renders, for every vault whose signal has not moved, the published row as of
  some moment since it was built, and expires no later than the row's next instant
  (`Renders`). So that a store keeps this, it says of a call under way which vaults it has
  driven, projected and read the boundary of, and that what it has of each is of the published
  row if the signal it noted is still the current one. That no signal number is ever used
  again (`Known`) is what lets a match of signals mean that nothing moved in between.
- `SessionLockProofs`: for the registry `LockTypes`, `LockEntryShared`, `LockImplementsMutex`.
  The invariant is `EntryShared` in parts: whoever is not out has the entry that the registry
  has for its key (`Attached`), two keys have two entries (`Apart`), an entry of the
  registry counts its users (`Counted`), and its channel is full exactly while its one
  holder is inside (`Token`). Mutual exclusion of two callers needs `Attached` to know that
  they use one channel, and `Attached` survives an eviction only because `Counted` says
  that the last user is the one that leaves; its cardinality argument needs finitely many
  callers and nothing else. The refinement then has one case per action: the send enters,
  the receive leaves, and no other step shows. For the writers of an item, composed with
  the registry: `ItemTypesKept`, `AnswersPrecedeApproval`, `BindingsKept`, `RebindsLook`,
  `WritersExclude`, under the hypothesis `LockUsers` that the consumer and the sweep are two
  of the lock's callers (the instance of `item_writes` satisfies it; other callers and other
  keys are free). `ItemInv` adds that whoever is in the critical section of the item holds
  its lock (`Locked`), that what the check under the lock found of a locked binding is still
  so at the write (`Checked`), and that what has held since the sweep's acquisition holds at
  its read (`Watched`). From `Attached` and `Token` the two are never both between read and
  write, which is why the check cannot be overtaken by the other.
- `LaunchProofs`: `LaunchTypes`, `SweepRestoresMarker`, `RunVerdicts`. `Claims` strengthens
  `VerdictHonest`: while the registry's take-over mark stands, every launch that is under
  way is one that was under way when a take-over set it; `Begin` clears the mark, which is
  why it cannot be about a later launch. `MarkerRestored` is inductive with the types: only
  `Begin` puts a launch in flight, and the sweep's restore reads the record after its clear.
- `LiveUpdatesProofs`: `HubBounds`, `FramesFollowRefresh`, `HubImplementsFeed`. `Registered` ties
  a request's goroutines to the registry, so that a queue is closed exactly when its client
  leaves; `Refreshed` says what lies behind each handler; `FramesLogged` that nobody has a frame
  that was not published, and `Published` that none is published twice. The refinement needs
  `Gapless`: a client's queue holds, pongs aside and in order, the frames of the log behind
  what its pump has taken, all of them as long as it is registered. A client that is
  dropped keeps a prefix, which is what `Feed` allows.
- `SessionLivenessProofs`: `SharedListings`, `QuietBadges`. `Heard` says that whoever has a
  store answer (the state, a refresh under way, the snapshot, a read) has the ids that came
  with it, although they are copied in separate steps; `ReadsSound` carries that, and the
  completeness of a listing that may still be kept, through a read.

**Only model-checked.** Liveness (`CallsReturn`, `WritesApplied`, `ConsumeReturns`,
`ListReturns`, `WriteAnswered`, `MarkerConverges`, `RequestEnds`, `BadgeSettles`) is beyond the
prover, which has no rules for fairness and `ENABLED`. Every invariant and every action
property of the runs is stated by a theorem. For `EventVisible`, `RefreshListed`, `MarkKept` and
`FileMarkServed` the theorem has a hypothesis: without one the last three fail on instances
larger than those of the runs, and `EventVisible` rests on `RefreshListed` for an event of a key
without a snapshot. `page_index_store` has such events, and `EventVisible` holds there.

## 5. What is not modelled

Goals, topics and vault listings keep no state between requests. Configuration, HTTP
decoding, routing, wiring and metrics are I/O or bookkeeping. The store's byte encoding
and its writer identity, the exact text of frames and responses, the parsing of process
lists and pane resolution are text handling without state. The session resolver's cache of
read transcripts is left out with the byte matching it serves; `ItemWrites` takes the
resolver's answer as an input. `pkg/watcher` is not constructed by the service. The
superseded Python backend and the topic routes are left out. That a patched row keeps the
session fields of the session its page named before (`board/tasks.go:536`) is listed as a
hazard without a property: the session id does not vary in `TaskList`, whose state is at
the limit of a run.

## 6. Plan

What is left, in this order:

1. The hypotheses of the page index theorems, one by one, should the code come to exclude
   them: a number taken with the fingerprint instead of before it, a numbered removal, marks
   that a failed listing puts back, and a reader that waits for a listing that took marks.
2. An abstract page cache (published pages, revision, attributed changes) that `PageIndex`
   implements by a refinement mapping, so that `TaskList`'s view of the index is a checked
   statement; the same for the snapshot store as `TaskBody` sees it.
3. Pure algorithms against reference definitions: hierarchy, activity date, the
   incremental transcript scan of the session resolver.
