------------------------------ MODULE TaskList ------------------------------
(***************************************************************************)
(* The task-list snapshot of one vault (pkg/board/snapshot.go, tasks.go):  *)
(* the rows every GET /api/tasks is answered from, rebuilt, patched or     *)
(* refreshed on the goroutine of the first reader that finds the page      *)
(* revision or the session generation moved.  The rows join three sources  *)
(* that move independently: the page index, the session snapshot, and the  *)
(* status cache (pkg/statuscache), which moves no revision of its own and  *)
(* is kept by the queued writes and by the watch handler (pkg/watchrefresh)*)
(*                                                                         *)
(* The page index is here what its callers see of it: published pages, a   *)
(* revision and a change log.  Module PageIndex models its inside.         *)
(***************************************************************************)
EXTENDS Integers, Sequences, FiniteSets

CONSTANTS Tasks,         \* the vault's task pages
          BlockedBy,     \* each task's blocked_by list
          Readers,       \* goroutines calling taskSnapshotStore.List
          Writers,       \* the vault's write consumer
          Handlers,      \* goroutines handling a debounced watcher event
          None,          \* no goroutine, no task
          MaxChangeLog,  \* revision advances the index can still attribute
          InitialPages,  \* bound: what the task files may be at the start
          LiveSets,      \* bound: the sets of live tasks a scan may find
          MaxRevision,   \* bound: revision advances
          MaxGeneration, \* bound: session snapshots
          MaxWrites,     \* bound: writes of pages, by the board or by others
          MaxFaults      \* bound: failing builds

ASSUME TaskListAssumption ==
  /\ BlockedBy \in [Tasks -> SUBSET Tasks]
  /\ None \notin Readers \cup Tasks
  /\ InitialPages \subseteq {"open", "completed", "absent"}
  /\ LiveSets \subseteq SUBSET Tasks
  /\ {MaxChangeLog, MaxRevision, MaxGeneration, MaxWrites, MaxFaults}
       \subseteq Nat

VARIABLES
  disk,                   \* each task file's state
  cache,                  \* statuscache: the status of each task, "absent" if none
  pages, log, stale,      \* page index: published pages, change log, pending marks
  live, generation,       \* session snapshot: tasks with a live session, its count
  rows, hasSnapshot, pageRevision, sessionGeneration, signal, inflight,
                          \* the store's entry for the vault
  pc, build,              \* per reader: position, the build it runs or waits on
  hpc, wpc,               \* per handler and writer: position and task
  events,                 \* files with an undelivered watcher event
  writes, faults,  \* used-up bounds
  external                \* history: tasks edited outside the board

sourceVars == <<disk, cache, pages, log, stale, live, generation>>
entryVars  == <<rows, hasSnapshot, pageRevision, sessionGeneration, signal>>
envVars    == <<hpc, wpc, events, writes, faults, external>>
vars == <<sourceVars, entryVars, inflight, pc, build, envVars>>

-----------------------------------------------------------------------------
(* Values *)

Statuses == {"open", "completed"}
Pages    == Statuses \cup {"absent"}
Row      == [page : Pages, live : BOOLEAN, blockers : SUBSET Tasks]
NoRow    == [page |-> "absent", live |-> FALSE, blockers |-> {}]
Kinds    == {"full", "patch", "refresh"}
NoBuild  == [kind |-> "full", startRevision |-> 0, startGeneration |-> 0, changed |-> {},
             items |-> [t \in Tasks |-> "absent"], rows |-> [t \in Tasks |-> NoRow],
             on |-> None]
NoWork   == [at |-> "idle", task |-> None]

-----------------------------------------------------------------------------
(* The page index as its callers see it *)

Revision == Len(log)

\* One revision advance, attributed to names when bounded.
Advance(names, bounded) ==
  /\ Revision < MaxRevision
  /\ log' = Append(log, [names |-> names, bounded |-> bounded])

\* ChangedPagesSince: not ok when the advances after rev are no longer all retained
\* or one of them is not bounded.
ChangedPagesSince(rev) ==
  LET after == rev + 1 .. Revision
      ok == Revision - rev <= MaxChangeLog /\ \A i \in after : log[i].bounded
  IN [ok |-> ok, names |-> IF ok THEN UNION {log[i].names : i \in after} ELSE {}]

\* A per-file re-read of a marked file publishes it, whoever triggered it.
ReadMarked(t) ==
  /\ t \in stale
  /\ Advance({t}, TRUE)
  /\ pages' = [pages EXCEPT ![t] = disk[t]]
  /\ stale' = stale \ {t}
  /\ UNCHANGED <<disk, cache, live, generation, entryVars, inflight, pc, build, envVars>>

\* A stat-diff, of a rescan or of a read after a folder-level mark.
Rescan ==
  LET moved == {t \in Tasks : pages[t] # disk[t]} \cup stale IN
  /\ moved # {}
  /\ Advance(moved, TRUE)
  /\ pages' = disk
  /\ stale' = {}
  /\ UNCHANGED <<disk, cache, live, generation, entryVars, inflight, pc, build, envVars>>

-----------------------------------------------------------------------------
(* Rows *)

\* uncompletedBlockers: a blocker counts until the status cache says completed.
UncompletedBlockers(t) == {b \in BlockedBy[t] : cache[b] # "completed"}

\* One row of buildTaskRows.
BuiltRow(t, page) ==
  IF page = "absent" THEN NoRow
  ELSE [page |-> page, live |-> t \in live, blockers |-> UncompletedBlockers(t)]

\* Mutant: a patch re-derives the changed rows and not their dependents' blockers.
RecomputedChangedOnly(t, changed) == t \in changed

\* patchTaskRows re-derives the blockers of the changed rows, and
\* recomputeDependentBlockers those of the rows blocked by a changed page.
Recomputed(t, changed) == t \in changed \/ BlockedBy[t] \cap changed # {}

\* One row of patchTaskRows: the session fields are carried over.
PatchedRow(t, b) ==
  LET page == IF t \in b.changed THEN b.items[t] ELSE rows[t].page IN
  IF page = "absent" THEN NoRow
  ELSE [rows[t] EXCEPT
          !.page = page,
          !.blockers = IF Recomputed(t, b.changed) THEN UncompletedBlockers(t) ELSE @]

\* One row of refreshTaskRows: the page fields and the blockers are carried over.
RefreshedRow(t) ==
  IF rows[t] = NoRow THEN NoRow ELSE [rows[t] EXCEPT !.live = t \in live]

\* What a build of its kind derives.
DerivedRow(t, b) ==
  CASE b.kind = "full"    -> BuiltRow(t, b.items[t])
    [] b.kind = "patch"   -> PatchedRow(t, b)
    [] b.kind = "refresh" -> RefreshedRow(t)

Derived(b) == [t \in Tasks |-> DerivedRow(t, b)]

-----------------------------------------------------------------------------
(* taskSnapshotStore.List *)

PageMoved    == ~hasSnapshot \/ Revision # pageRevision
SessionMoved == ~hasSnapshot \/ generation # sessionGeneration

\* The cheapest build that is honest about what moved.
BuildKind ==
  IF ~PageMoved THEN "refresh"
  ELSE IF ~SessionMoved /\ ChangedPagesSince(pageRevision).ok THEN "patch"
  ELSE "full"

\* The head of the loop: serve the published rows, ...
ServeRows(p) ==
  /\ pc[p] \in {"idle", "loop"}
  /\ ~PageMoved /\ ~SessionMoved
  /\ pc' = [pc EXCEPT ![p] = "idle"]
  /\ build' = [build EXCEPT ![p] = NoBuild]
  /\ UNCHANGED <<sourceVars, entryVars, inflight, envVars>>

\* ... or wait on the build under way, ...
JoinBuild(p) ==
  /\ pc[p] \in {"idle", "loop"}
  /\ PageMoved \/ SessionMoved
  /\ inflight # None
  /\ pc' = [pc EXCEPT ![p] = "wait"]
  /\ build' = [build EXCEPT ![p] = [NoBuild EXCEPT !.on = inflight]]
  /\ UNCHANGED <<sourceVars, entryVars, inflight, envVars>>

\* ... or start one.
StartBuild(p) ==
  /\ pc[p] \in {"idle", "loop"}
  /\ PageMoved \/ SessionMoved
  /\ inflight = None
  /\ inflight' = p
  /\ build' = [build EXCEPT ![p] = [NoBuild EXCEPT
                 !.kind = BuildKind, !.startRevision = Revision,
                 !.startGeneration = generation,
                 !.changed = IF BuildKind = "patch"
                               THEN ChangedPagesSince(pageRevision).names ELSE {}]]
  /\ pc' = [pc EXCEPT ![p] = IF BuildKind = "refresh" THEN "derive" ELSE "list"]
  /\ UNCHANGED <<sourceVars, entryVars, envVars>>

\* A waiter whose context is cancelled gives up.
CancelWait(p) ==
  /\ pc[p] = "wait"
  /\ pc' = [pc EXCEPT ![p] = "idle"]
  /\ build' = [build EXCEPT ![p] = NoBuild]
  /\ UNCHANGED <<sourceVars, entryVars, inflight, envVars>>

-----------------------------------------------------------------------------
(* runBuild *)

\* The build's ListPages.  A reader is served before the build that took a mark has
\* published it (see PageIndex, ReadYourWrites), so pending marks do not delay it.
\* A patch that finds a changed page without a held row becomes a full build, which
\* lists again.
ListPages(p) ==
  LET b == build[p]
      unheld == {t \in b.changed : pages[t] # "absent" /\ rows[t] = NoRow}
  IN
  /\ pc[p] = "list"
  /\ IF b.kind = "patch" /\ unheld # {}
       THEN /\ build' = [build EXCEPT ![p].kind = "full", ![p].changed = {}]
            /\ UNCHANGED pc
       ELSE /\ build' = [build EXCEPT ![p].items = pages]
            /\ pc' = [pc EXCEPT ![p] = "derive"]
  /\ UNCHANGED <<sourceVars, entryVars, inflight, envVars>>

\* The rows, from the listed pages, the held rows, the session snapshot and the
\* status cache as they are now.
Derive(p) ==
  /\ pc[p] = "derive"
  /\ build' = [build EXCEPT ![p].rows = Derived(build[p]),
                            ![p].items = NoBuild.items, ![p].changed = {}]
  /\ pc' = [pc EXCEPT ![p] = "publish"]
  /\ UNCHANGED <<sourceVars, entryVars, inflight, envVars>>

Woken(p, q, at) == IF q = p THEN "idle"
                   ELSE IF pc[q] = "wait" /\ build[q].on = p THEN at ELSE pc[q]

\* Mutant: the rows are published under the revision their own re-read will bring.
PublishedRevisionNext(b) == b.startRevision + 1

\* Mutant: the rows are published under the revision that is current at the end.
PublishedRevisionAtEnd(b) == Revision

\* The rows are published under the revision the build started from.
PublishedRevision(b) == b.startRevision

\* The build's last critical section; a waiter evaluates the loop again.
Publish(p) ==
  LET b == build[p] IN
  /\ pc[p] = "publish"
  /\ rows' = b.rows
  /\ signal' = IF ~hasSnapshot \/ rows # b.rows THEN signal + 1 ELSE signal
  /\ hasSnapshot' = TRUE
  /\ pageRevision' = PublishedRevision(b)
  /\ sessionGeneration' = b.startGeneration
  /\ inflight' = None
  /\ pc' = [q \in Readers |-> Woken(p, q, "loop")]
  /\ build' = [q \in Readers |-> IF Woken(p, q, "woken") = pc[q] /\ q # p
                                   THEN build[q] ELSE NoBuild]
  /\ UNCHANGED <<sourceVars, envVars>>

\* Mutant: a failed build stays registered.
AfterFailureKept == inflight

\* A failed build is deregistered like any other.
AfterFailure == None

\* A build fails or times out: the entry keeps its rows and stays dirty, and the
\* owner and its waiters answer with those rows, or with the error.
FailBuild(p) ==
  /\ pc[p] \in {"list", "derive"}
  /\ faults < MaxFaults
  /\ faults' = faults + 1
  /\ inflight' = AfterFailure
  /\ pc' = [q \in Readers |-> Woken(p, q, "idle")]
  /\ build' = [q \in Readers |-> IF Woken(p, q, "woken") = pc[q] /\ q # p
                                   THEN build[q] ELSE NoBuild]
  /\ UNCHANGED <<sourceVars, entryVars, hpc, wpc, events, writes, external>>

-----------------------------------------------------------------------------
(* What moves the sources *)

\* Cache.Invalidate: the item's status is re-read from disk.
Invalidate(t) == cache' = [cache EXCEPT ![t] = disk[t]]

\* A queued write of one task, enqueueWrite's write ...
WriteTask(w, t, s) ==
  /\ wpc[w].at = "idle"
  /\ writes < MaxWrites
  /\ disk[t] \notin {s, "absent"}
  /\ disk' = [disk EXCEPT ![t] = s]
  /\ events' = events \cup {t}
  /\ writes' = writes + 1
  /\ wpc' = [wpc EXCEPT ![w] = [at |-> "written", task |-> t]]
  /\ UNCHANGED <<cache, pages, log, stale, live, generation, entryVars, inflight, pc,
                 build, hpc, faults, external>>

\* ... and taskWritten, which invalidates the status first and marks the page next.
InvalidateWritten(w) ==
  /\ wpc[w].at = "written"
  /\ Invalidate(wpc[w].task)
  /\ wpc' = [wpc EXCEPT ![w].at = "invalidated"]
  /\ UNCHANGED <<disk, pages, log, stale, live, generation, entryVars, inflight, pc,
                 build, hpc, events, writes, faults, external>>

\* MarkFileDirty of an exact name, or its widening to the folder.
MarkWritten(w) ==
  /\ wpc[w].at = "invalidated"
  /\ LET t == wpc[w].task IN
     \/ pages[t] # "absent" /\ Advance({t}, TRUE)
     \/ pages[t] = "absent" /\ Advance({}, FALSE)
  /\ stale' = stale \cup {wpc[w].task}
  /\ wpc' = [wpc EXCEPT ![w] = NoWork]
  /\ UNCHANGED <<disk, cache, pages, live, generation, entryVars, inflight, pc, build,
                 hpc, events, writes, faults, external>>

\* Somebody creates or removes a page outside the board.
EditPage(t, s) ==
  /\ writes < MaxWrites
  /\ disk[t] # s
  /\ disk' = [disk EXCEPT ![t] = s]
  /\ events' = events \cup {t}
  /\ writes' = writes + 1
  /\ external' = external \cup {t}
  /\ UNCHANGED <<cache, pages, log, stale, live, generation, entryVars, inflight, pc,
                 build, hpc, wpc, faults>>

\* The watch handler re-reads the event's file (RefreshFile) ...
HandleEvent(h, t) ==
  /\ hpc[h].at = "idle" /\ t \in events
  /\ Advance({t}, TRUE)
  /\ pages' = [pages EXCEPT ![t] = disk[t]]
  /\ events' = events \ {t}
  /\ hpc' = [hpc EXCEPT ![h] = [at |-> "refreshed", task |-> t]]
  /\ UNCHANGED <<disk, cache, stale, live, generation, entryVars, inflight, pc, build,
                 wpc, writes, faults, external>>

\* ... and then invalidates the item's cached status.
InvalidateRefreshed(h) ==
  /\ hpc[h].at = "refreshed"
  /\ Invalidate(hpc[h].task)
  /\ hpc' = [hpc EXCEPT ![h] = NoWork]
  /\ UNCHANGED <<disk, pages, log, stale, live, generation, entryVars, inflight, pc,
                 build, wpc, events, writes, faults, external>>

\* RefreshOnce publishes a new session snapshot.
RefreshSessions(ids) ==
  /\ generation < MaxGeneration
  /\ generation' = generation + 1
  /\ live' = ids
  /\ UNCHANGED <<disk, cache, pages, log, stale, entryVars, inflight, pc, build, envVars>>

-----------------------------------------------------------------------------
\* The service has started: the index and the status cache are loaded.
Init ==
  /\ disk \in [Tasks -> InitialPages]
  /\ cache = disk /\ pages = disk
  /\ log = <<[names |-> {}, bounded |-> FALSE]>> /\ stale = {}
  /\ live = {} /\ generation = 0
  /\ rows = [t \in Tasks |-> NoRow] /\ hasSnapshot = FALSE
  /\ pageRevision = 0 /\ sessionGeneration = 0 /\ signal = 0
  /\ inflight = None
  /\ pc = [p \in Readers |-> "idle"] /\ build = [p \in Readers |-> NoBuild]
  /\ hpc = [h \in Handlers |-> NoWork] /\ wpc = [w \in Writers |-> NoWork]
  /\ events = {} /\ writes = 0 /\ faults = 0 /\ external = {}

\* The steps a reader inside List goes on to take.
Step(p) ==
  \/ pc[p] = "loop" /\ (ServeRows(p) \/ JoinBuild(p) \/ StartBuild(p))
  \/ ListPages(p) \/ Derive(p) \/ Publish(p)

BeginList(p) == pc[p] = "idle" /\ (JoinBuild(p) \/ StartBuild(p))

Sources ==
  \/ Rescan \/ \E t \in Tasks : ReadMarked(t)
  \/ \E w \in Writers, t \in Tasks, s \in Statuses : WriteTask(w, t, s)
  \/ \E w \in Writers : InvalidateWritten(w) \/ MarkWritten(w)
  \/ \E h \in Handlers : InvalidateRefreshed(h) \/ \E t \in Tasks : HandleEvent(h, t)
  \/ \E t \in Tasks, s \in Pages : EditPage(t, s)
  \/ \E ids \in LiveSets : RefreshSessions(ids)

Next == Sources \/ \E p \in Readers : BeginList(p) \/ Step(p) \/ FailBuild(p) \/ CancelWait(p)

\* A reader inside a call keeps running; nobody has to call, fail or be cancelled.
Fairness == \A p \in Readers : WF_vars(Step(p))

Spec == Init /\ [][Next]_vars
FairSpec == Spec /\ Fairness

-----------------------------------------------------------------------------
(* Properties *)

Works == {NoWork} \cup [at : {"written", "invalidated", "refreshed"}, task : Tasks]
Builds == [kind : Kinds, startRevision : Nat, startGeneration : Nat,
           changed : SUBSET Tasks, items : [Tasks -> Pages], rows : [Tasks -> Row],
           on : Readers \cup {None}]

\* Every variable has its type, and the entry never claims a revision or a generation
\* that has not been reached.
TypeOK ==
  /\ disk \in [Tasks -> Pages] /\ cache \in [Tasks -> Pages] /\ pages \in [Tasks -> Pages]
  /\ log \in Seq([names : SUBSET Tasks, bounded : BOOLEAN])
  /\ stale \subseteq Tasks /\ live \subseteq Tasks /\ generation \in Nat
  /\ rows \in [Tasks -> Row] /\ hasSnapshot \in BOOLEAN
  /\ pageRevision \in 0 .. Revision /\ sessionGeneration \in 0 .. generation
  /\ signal \in Nat /\ inflight \in Readers \cup {None}
  /\ pc \in [Readers -> {"idle", "loop", "wait", "list", "derive", "publish"}]
  /\ build \in [Readers -> Builds]
  /\ hpc \in [Handlers -> Works] /\ wpc \in [Writers -> Works]
  /\ events \subseteq Tasks /\ external \subseteq Tasks
  /\ writes \in Nat /\ faults \in Nat

\* Rows that List serves without a build show the published pages and the current
\* session snapshot, whichever mix of full builds, patches and refreshes made them
\* and whatever moved while those ran.
RowsCurrent ==
  ~PageMoved /\ ~SessionMoved =>
    \A t \in Tasks : /\ rows[t].page = pages[t]
                     /\ rows[t].page # "absent" => rows[t].live = (t \in live)

\* Nothing that was written is still on its way to the index and the cache.
Settled == /\ \A w \in Writers : wpc[w].at = "idle"
           /\ \A h \in Handlers : hpc[h].at = "idle"
           /\ events = {}

ShowsBlockers(t) ==
  rows[t].page # "absent" => rows[t].blockers = UncompletedBlockers(t)

\* Completing a blocking task clears its dependents' badges on the next read, however
\* the watcher reported the change.
BlockersCurrent ==
  ~PageMoved /\ ~SessionMoved /\ Settled => \A t \in Tasks : ShowsBlockers(t)

\* For a blocker that only the board writes it does, even before the watcher has
\* reported the write.
WrittenBlockersCurrent ==
  ~PageMoved /\ ~SessionMoved /\ (\A w \in Writers : wpc[w].at = "idle") =>
    \A t \in Tasks : BlockedBy[t] \cap external = {} => ShowsBlockers(t)

\* Every List returns, whether its build, or the one it waits on, succeeds or fails.
ListReturns == \A p \in Readers : pc[p] # "idle" ~> pc[p] = "idle"
=============================================================================
