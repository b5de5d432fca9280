--------------------------- MODULE TaskListProofs ---------------------------
(***************************************************************************)
(* The rows that List serves without a build are current, and so are the   *)
(* blockers they show, for any tasks, readers, writers and bounds.         *)
(*                                                                         *)
(* RowsCurrent speaks of an entry whose revision and generation have not   *)
(* moved.  It is inductive once it says what the entry is worth when they  *)
(* have: a row is the published page unless the change log names the page  *)
(* after the entry's revision, and the same holds of the build under way,  *)
(* with the revision it started from.                                      *)
(***************************************************************************)
EXTENDS TaskList, TLAPS

Changes == [names : SUBSET Tasks, bounded : BOOLEAN]

\* The change log names t after rev, or between rev and to.
Changed(lg, t, rev) == \E i \in 1 .. Len(lg) : i > rev /\ t \in lg[i].names
ChangedTo(lg, t, rev, to) ==
  \E i \in 1 .. Len(lg) : i > rev /\ i <= to /\ t \in lg[i].names

\* A page obtained since rev is still the published one, or named since.
Shows(lg, pgs, t, page, rev) == Changed(lg, t, rev) \/ page = pgs[t]
ShowsPages(lg, pgs, rs, rev) == \A t \in Tasks : Shows(lg, pgs, t, rs[t].page, rev)
ShowsLive(current, ids, rs, gen) ==
  gen = current => \A t \in Tasks : rs[t].page # "absent" => rs[t].live = (t \in ids)
Normal(rs) == \A t \in Tasks : rs[t].page = "absent" => rs[t] = NoRow

EntryInv ==
  /\ Normal(rows)
  /\ hasSnapshot => /\ ShowsPages(log, pages, rows, pageRevision)
                    /\ ShowsLive(generation, live, rows, sessionGeneration)

Building(p) == pc[p] \in {"list", "derive", "publish"}

OwnerInv(p) ==
  Building(p) => /\ inflight = p
                 /\ build[p].startRevision <= Len(log)
                 /\ build[p].startGeneration <= generation

ListInv(p) ==
  /\ pc[p] = "list" => build[p].kind # "refresh"
  /\ pc[p] \in {"list", "derive"} /\ build[p].kind = "patch" =>
       /\ hasSnapshot /\ sessionGeneration = build[p].startGeneration
       /\ \A t \in Tasks : ChangedTo(log, t, pageRevision, build[p].startRevision)
                             => t \in build[p].changed
  /\ pc[p] \in {"list", "derive"} /\ build[p].kind = "refresh" =>
       hasSnapshot /\ pageRevision = build[p].startRevision

DeriveInv(p) ==
  /\ pc[p] = "derive" /\ build[p].kind = "full" =>
       \A t \in Tasks : Shows(log, pages, t, build[p].items[t], build[p].startRevision)
  /\ pc[p] = "derive" /\ build[p].kind = "patch" =>
       \A t \in build[p].changed :
         /\ Shows(log, pages, t, build[p].items[t], build[p].startRevision)
         /\ build[p].items[t] # "absent" => rows[t] # NoRow

PublishInv(p) ==
  pc[p] = "publish" =>
    /\ ShowsPages(log, pages, build[p].rows, build[p].startRevision)
    /\ ShowsLive(generation, live, build[p].rows, build[p].startGeneration)
    /\ Normal(build[p].rows)

BuildInv(p) == OwnerInv(p) /\ ListInv(p) /\ DeriveInv(p) /\ PublishInv(p)

IInv == TypeOK /\ EntryInv /\ \A p \in Readers : BuildInv(p)

-----------------------------------------------------------------------------
(* The change log *)

\* One more entry: what was named stays named, what the entry names is now named
\* after every earlier revision, and nothing is new up to those.
LEMMA NamesGrow ==
  ASSUME NEW lg \in Seq(Changes), NEW c \in Changes
  PROVE  LET more == Append(lg, c) IN
         /\ more \in Seq(Changes) /\ Len(more) = Len(lg) + 1 /\ Len(lg) \in Nat
         /\ \A t \in Tasks, rev \in Nat : Changed(lg, t, rev) => Changed(more, t, rev)
         /\ \A t \in c.names, rev \in 0 .. Len(lg) : Changed(more, t, rev)
         /\ \A t \in Tasks, rev \in Nat, to \in 0 .. Len(lg) :
              ChangedTo(more, t, rev, to) => ChangedTo(lg, t, rev, to)
  <1>. DEFINE more == Append(lg, c)
  <1>1. /\ more \in Seq(Changes) /\ Len(more) = Len(lg) + 1 /\ Len(lg) \in Nat
        /\ \A i \in 1 .. Len(lg) : more[i] = lg[i]
        /\ more[Len(lg) + 1] = c
    OBVIOUS
  <1>. HIDE DEF more
  <1>2. ASSUME NEW t \in Tasks, NEW rev \in Nat, Changed(lg, t, rev)
        PROVE  Changed(more, t, rev)
    BY <1>1, <1>2 DEF Changed
  <1>3. ASSUME NEW t \in c.names, NEW rev \in 0 .. Len(lg)
        PROVE  Changed(more, t, rev)
    <2>1. Len(lg) + 1 \in 1 .. Len(more) /\ Len(lg) + 1 > rev  BY <1>1
    <2>. QED  BY <1>1, <2>1 DEF Changed
  <1>4. ASSUME NEW t \in Tasks, NEW rev \in Nat, NEW to \in 0 .. Len(lg),
               ChangedTo(more, t, rev, to)
        PROVE  ChangedTo(lg, t, rev, to)
    BY <1>1, <1>4 DEF ChangedTo
  <1>. QED  BY <1>1, <1>2, <1>3, <1>4 DEF more

-----------------------------------------------------------------------------
(* What moves the pages, the cache and the sessions *)

\* An advance that names every page it changes keeps the invariant, whatever else
\* happens to the files, the status cache and the watcher.
LEMMA AdvanceInv ==
  ASSUME IInv, TypeOK', NEW names \in SUBSET Tasks, NEW bounded \in BOOLEAN,
         Advance(names, bounded),
         \A t \in Tasks : pages'[t] # pages[t] => t \in names,
         UNCHANGED <<live, generation, entryVars, inflight, pc, build>>
  PROVE  IInv'
  <1>1. /\ log \in Seq(Changes) /\ [names |-> names, bounded |-> bounded] \in Changes
        /\ log' = Append(log, [names |-> names, bounded |-> bounded])
    BY DEF IInv, TypeOK, Advance, Changes
  <1>2. /\ Len(log') = Len(log) + 1 /\ Len(log) \in Nat
        /\ \A t \in Tasks, rev \in Nat : Changed(log, t, rev) => Changed(log', t, rev)
        /\ \A t \in names, rev \in 0 .. Len(log) : Changed(log', t, rev)
        /\ \A t \in Tasks, rev \in Nat, to \in 0 .. Len(log) :
             ChangedTo(log', t, rev, to) => ChangedTo(log, t, rev, to)
    BY <1>1, NamesGrow
  <1>3. pageRevision \in 0 .. Len(log) /\ \A p \in Readers : build[p] \in Builds
    BY DEF IInv, TypeOK, Revision
  <1>4. /\ rows' = rows /\ hasSnapshot' = hasSnapshot /\ pageRevision' = pageRevision
        /\ sessionGeneration' = sessionGeneration /\ inflight' = inflight
        /\ pc' = pc /\ build' = build /\ live' = live /\ generation' = generation
    BY DEF entryVars
  <1>5. ASSUME NEW t \in Tasks, NEW page, NEW rev \in 0 .. Len(log),
               Shows(log, pages, t, page, rev)
        PROVE  Shows(log', pages', t, page, rev)
    BY <1>2, <1>5 DEF Shows
  <1>6. EntryInv'
    BY <1>3, <1>4, <1>5 DEF IInv, EntryInv, ShowsPages
  <1>7. ASSUME NEW p \in Readers  PROVE BuildInv(p)'
    <2>1. /\ build[p] \in Builds /\ BuildInv(p)
          /\ Building(p) => build[p].startRevision \in 0 .. Len(log)
      BY <1>2, <1>3 DEF IInv, BuildInv, OwnerInv, Builds
    <2>2. OwnerInv(p)'
      BY <1>2, <1>4, <2>1 DEF BuildInv, OwnerInv, Building, Builds
    <2>3. ListInv(p)'
      BY <1>2, <1>3, <1>4, <2>1 DEF BuildInv, ListInv, Building
    <2>4. DeriveInv(p)'
      BY <1>4, <1>5, <2>1 DEF BuildInv, DeriveInv, Building, Builds
    <2>5. PublishInv(p)'
      BY <1>4, <1>5, <2>1 DEF BuildInv, PublishInv, Building, ShowsPages
    <2>. QED  BY <2>2, <2>3, <2>4, <2>5 DEF BuildInv
  <1>. QED  BY <1>6, <1>7 DEF IInv

\* A step that moves none of what the rows are derived from, but for the status cache,
\* keeps the invariant.
LEMMA UnseenInv ==
  ASSUME IInv, TypeOK',
         UNCHANGED <<pages, log, live, generation, entryVars, inflight, pc, build>>
  PROVE  IInv'
  BY DEF IInv, EntryInv, BuildInv, OwnerInv, ListInv, DeriveInv, PublishInv, Building,
         entryVars

\* Everything the board's writer, the watch handler, the index and the session scan do
\* keeps the types ...
LEMMA SourcesTypes == IInv /\ Sources => TypeOK'
  <1>. SUFFICES ASSUME IInv, Sources PROVE TypeOK'  OBVIOUS
  <1>. USE DEF TypeOK, entryVars, envVars, Revision, Advance
  <1>1. TypeOK /\ Len(log) \in Nat /\ log \in Seq(Changes)  BY DEF IInv, Changes
  <1>2. ASSUME NEW names \in SUBSET Tasks, NEW bounded \in BOOLEAN, Advance(names, bounded)
        PROVE  log' \in Seq(Changes) /\ Len(log') = Len(log) + 1
    <2>1. [names |-> names, bounded |-> bounded] \in Changes  BY DEF Changes
    <2>. QED  BY <1>1, <1>2, <2>1
  <1>3. CASE Rescan
    <2>1. {t \in Tasks : pages[t] # disk[t]} \cup stale \in SUBSET Tasks  BY <1>1
    <2>. QED  BY <1>1, <1>2, <1>3, <2>1 DEF Rescan, Changes
  <1>4. ASSUME NEW t \in Tasks, ReadMarked(t)  PROVE TypeOK'
    BY <1>1, <1>2, <1>4 DEF ReadMarked, Changes
  <1>5. ASSUME NEW w \in Writers, NEW t \in Tasks, NEW st \in Statuses, WriteTask(w, t, st)
        PROVE  TypeOK'
    BY <1>1, <1>5 DEF WriteTask, Works, Pages
  <1>6. ASSUME NEW w \in Writers, InvalidateWritten(w)  PROVE TypeOK'
    <2>1. wpc[w] \in [at : {"written", "invalidated", "refreshed"}, task : Tasks]
      BY <1>1, <1>6 DEF InvalidateWritten, Works, NoWork
    <2>. QED  BY <1>1, <1>6, <2>1 DEF InvalidateWritten, Invalidate, Works
  <1>7. ASSUME NEW w \in Writers, MarkWritten(w)  PROVE TypeOK'
    <2>1. wpc[w].task \in Tasks
      BY <1>1, <1>7 DEF MarkWritten, Works, NoWork
    <2>2. {wpc[w].task} \in SUBSET Tasks /\ {} \in SUBSET Tasks  BY <2>1
    <2>3. Advance({wpc[w].task}, TRUE) \/ Advance({}, FALSE)  BY <1>7 DEF MarkWritten
    <2>4. log' \in Seq(Changes) /\ Len(log') = Len(log) + 1  BY <1>2, <2>2, <2>3
    <2>. QED  BY <1>1, <1>7, <2>1, <2>4 DEF MarkWritten, Works, Changes
  <1>8. ASSUME NEW h \in Handlers, InvalidateRefreshed(h)  PROVE TypeOK'
    <2>1. hpc[h].task \in Tasks
      BY <1>1, <1>8 DEF InvalidateRefreshed, Works, NoWork
    <2>. QED  BY <1>1, <1>8, <2>1 DEF InvalidateRefreshed, Invalidate, Works
  <1>9. ASSUME NEW h \in Handlers, NEW t \in Tasks, HandleEvent(h, t)  PROVE TypeOK'
    BY <1>1, <1>2, <1>9 DEF HandleEvent, Works, Changes
  <1>10. ASSUME NEW t \in Tasks, NEW st \in Pages, EditPage(t, st)  PROVE TypeOK'
    BY <1>1, <1>10 DEF EditPage
  <1>11. ASSUME NEW ids \in LiveSets, RefreshSessions(ids)  PROVE TypeOK'
    BY <1>1, <1>11, TaskListAssumption DEF RefreshSessions
  <1>. QED  BY <1>3, <1>4, <1>5, <1>6, <1>7, <1>8, <1>9, <1>10, <1>11 DEF Sources

\* ... and the invariant: every page they change is named in the change log, and a new
\* session snapshot has a generation that no rows were derived from.
LEMMA SourcesInv == IInv /\ Sources => IInv'
  <1>. SUFFICES ASSUME IInv, Sources PROVE IInv'  OBVIOUS
  <1>1. TypeOK /\ TypeOK'  BY SourcesTypes DEF IInv
  <1>. USE DEF envVars
  <1>2. CASE Rescan
    <2>. DEFINE moved == {t \in Tasks : pages[t] # disk[t]} \cup stale
    <2>1. moved \in SUBSET Tasks /\ Advance(moved, TRUE)  BY <1>1, <1>2 DEF Rescan, TypeOK
    <2>2. \A t \in Tasks : pages'[t] # pages[t] => t \in moved
      BY <1>1, <1>2 DEF Rescan, TypeOK
    <2>. HIDE DEF moved
    <2>3. UNCHANGED <<live, generation, entryVars, inflight, pc, build>>  BY <1>2 DEF Rescan
    <2>. QED  BY <1>1, <2>1, <2>2, <2>3, AdvanceInv
  <1>3. ASSUME NEW t \in Tasks, ReadMarked(t)  PROVE IInv'
    <2>1. /\ {t} \in SUBSET Tasks /\ Advance({t}, TRUE)
          /\ \A u \in Tasks : pages'[u] # pages[u] => u \in {t}
          /\ UNCHANGED <<live, generation, entryVars, inflight, pc, build>>
      BY <1>1, <1>3 DEF ReadMarked, TypeOK
    <2>. QED  BY <1>1, <2>1, AdvanceInv
  <1>4. ASSUME NEW w \in Writers, NEW t \in Tasks, NEW st \in Statuses, WriteTask(w, t, st)
        PROVE  IInv'
    BY <1>1, <1>4, UnseenInv DEF WriteTask
  <1>5. ASSUME NEW w \in Writers, InvalidateWritten(w)  PROVE IInv'
    BY <1>1, <1>5, UnseenInv DEF InvalidateWritten
  <1>6. ASSUME NEW w \in Writers, MarkWritten(w)  PROVE IInv'
    <2>1. wpc[w].task \in Tasks
      BY <1>1, <1>6 DEF MarkWritten, TypeOK, Works, NoWork
    <2>2. UNCHANGED <<live, generation, entryVars, inflight, pc, build>> /\ pages' = pages
      BY <1>6 DEF MarkWritten
    <2>3. CASE Advance({wpc[w].task}, TRUE)
      <3>1. {wpc[w].task} \in SUBSET Tasks  BY <2>1
      <3>. QED  BY <1>1, <2>2, <2>3, <3>1, AdvanceInv
    <2>4. CASE Advance({}, FALSE)
      <3>1. {} \in SUBSET Tasks  OBVIOUS
      <3>. QED  BY <1>1, <2>2, <2>4, <3>1, AdvanceInv
    <2>. QED  BY <1>6, <2>3, <2>4 DEF MarkWritten
  <1>7. ASSUME NEW h \in Handlers, InvalidateRefreshed(h)  PROVE IInv'
    BY <1>1, <1>7, UnseenInv DEF InvalidateRefreshed
  <1>8. ASSUME NEW h \in Handlers, NEW t \in Tasks, HandleEvent(h, t)  PROVE IInv'
    <2>1. /\ {t} \in SUBSET Tasks /\ Advance({t}, TRUE)
          /\ \A u \in Tasks : pages'[u] # pages[u] => u \in {t}
          /\ UNCHANGED <<live, generation, entryVars, inflight, pc, build>>
      BY <1>1, <1>8 DEF HandleEvent, TypeOK
    <2>. QED  BY <1>1, <2>1, AdvanceInv
  <1>9. ASSUME NEW t \in Tasks, NEW st \in Pages, EditPage(t, st)  PROVE IInv'
    BY <1>1, <1>9, UnseenInv DEF EditPage
  <1>10. ASSUME NEW ids \in LiveSets, RefreshSessions(ids)  PROVE IInv'
    <2>1. /\ generation' = generation + 1 /\ generation \in Nat
          /\ sessionGeneration \in 0 .. generation
          /\ UNCHANGED <<log, pages, entryVars, inflight, pc, build>>
      BY <1>1, <1>10 DEF RefreshSessions, TypeOK
    <2>2. EntryInv'
      BY <2>1 DEF IInv, EntryInv, ShowsLive, entryVars
    <2>3. ASSUME NEW p \in Readers  PROVE BuildInv(p)'
      <3>1. BuildInv(p) /\ build[p] \in Builds  BY <1>1 DEF IInv, TypeOK
      <3>2. Building(p) => build[p].startGeneration # generation'
        BY <2>1, <3>1 DEF BuildInv, OwnerInv, Builds
      <3>3. OwnerInv(p)'
        BY <2>1, <3>1 DEF BuildInv, OwnerInv, Building, Builds
      <3>4. ListInv(p)' /\ DeriveInv(p)'
        BY <2>1, <3>1 DEF BuildInv, ListInv, DeriveInv, entryVars
      <3>5. PublishInv(p)'
        BY <2>1, <3>1, <3>2 DEF BuildInv, PublishInv, Building, ShowsLive
      <3>. QED  BY <3>3, <3>4, <3>5 DEF BuildInv
    <2>. QED  BY <1>1, <2>2, <2>3 DEF IInv
  <1>. QED  BY <1>2, <1>3, <1>4, <1>5, <1>6, <1>7, <1>8, <1>9, <1>10 DEF Sources

-----------------------------------------------------------------------------
(* Readers *)

\* A reader that runs no build before and after its step, and leaves the entry and the
\* slot alone, keeps the invariant.
LEMMA IdleStepInv ==
  ASSUME IInv, NEW p \in Readers, ~Building(p),
         NEW at \in {"idle", "loop", "wait"}, NEW b \in Builds,
         pc' = [pc EXCEPT ![p] = at], build' = [build EXCEPT ![p] = b],
         UNCHANGED <<sourceVars, entryVars, inflight, envVars>>
  PROVE  IInv'
  <1>1. TypeOK'
    BY DEF IInv, TypeOK, sourceVars, entryVars, envVars, Revision
  <1>2. EntryInv'
    BY DEF IInv, EntryInv, sourceVars, entryVars
  <1>3. ASSUME NEW q \in Readers  PROVE BuildInv(q)'
    <2>1. BuildInv(q) /\ pc \in [Readers -> {"idle", "loop", "wait", "list", "derive",
                                              "publish"}]
          /\ build \in [Readers -> Builds]
      BY DEF IInv, TypeOK
    <2>2. CASE q = p
      BY <2>1, <2>2 DEF BuildInv, OwnerInv, ListInv, DeriveInv, PublishInv, Building
    <2>3. CASE q # p
      <3>1. pc'[q] = pc[q] /\ build'[q] = build[q]  BY <2>1, <2>3
      <3>. QED  BY <2>1, <3>1 DEF BuildInv, OwnerInv, ListInv, DeriveInv, PublishInv,
                                  Building, sourceVars, entryVars
    <2>. QED  BY <2>2, <2>3
  <1>. QED  BY <1>1, <1>2, <1>3 DEF IInv

\* The initial build record has its type.
LEMMA NoBuildType == NoBuild \in Builds
  BY DEF NoBuild, Builds, Kinds, Row, NoRow, Pages

\* The log names a page between two revisions only if the union of the names between
\* them contains it.
LEMMA SinceNames ==
  ASSUME TypeOK, ChangedPagesSince(pageRevision).ok, NEW t \in Tasks,
         ChangedTo(log, t, pageRevision, Revision)
  PROVE  t \in ChangedPagesSince(pageRevision).names
  <1>1. PICK i \in 1 .. Len(log) : i > pageRevision /\ t \in log[i].names
    BY DEF ChangedTo
  <1>2. pageRevision \in Nat /\ Len(log) \in Nat  BY DEF TypeOK, Revision
  <1>3. i \in pageRevision + 1 .. Revision  BY <1>1, <1>2 DEF Revision
  <1>4. t \in UNION {log[j].names : j \in pageRevision + 1 .. Revision}  BY <1>1, <1>3
  <1>. QED  BY <1>4 DEF ChangedPagesSince

\* Starting a build: the kind that is chosen is honest about what moved.
LEMMA StartBuildInv ==
  ASSUME IInv, NEW p \in Readers, StartBuild(p)  PROVE IInv'
  <1>. DEFINE since == ChangedPagesSince(pageRevision)
              nb == [NoBuild EXCEPT !.kind = BuildKind, !.startRevision = Revision,
                       !.startGeneration = generation,
                       !.changed = IF BuildKind = "patch" THEN since.names ELSE {}]
              at == IF BuildKind = "refresh" THEN "derive" ELSE "list"
  <1>1. /\ inflight = None /\ inflight' = p
        /\ build' = [build EXCEPT ![p] = nb] /\ pc' = [pc EXCEPT ![p] = at]
        /\ UNCHANGED <<sourceVars, entryVars, envVars>>
    BY DEF StartBuild
  <1>2. TypeOK /\ Len(log) \in Nat /\ log \in Seq(Changes)  BY DEF IInv, TypeOK, Changes
  <1>3. since.ok \in BOOLEAN /\ since.names \in SUBSET Tasks
    <2>1. pageRevision \in Nat  BY <1>2 DEF TypeOK, Revision
    <2>4. \A i \in 1 .. Len(log) : log[i] \in Changes  BY <1>2
    <2>5. \A i \in pageRevision + 1 .. Revision : i \in 1 .. Len(log)
      BY <1>2, <2>1 DEF Revision
    <2>2. \A i \in pageRevision + 1 .. Revision : log[i].names \in SUBSET Tasks
      BY <2>4, <2>5 DEF Changes
    <2>3. UNION {log[i].names : i \in pageRevision + 1 .. Revision} \in SUBSET Tasks
      BY <2>2
    <2>. QED  BY <2>3 DEF ChangedPagesSince
  <1>. HIDE DEF since
  <1>4. BuildKind \in Kinds  BY DEF BuildKind, Kinds
  <1>5. nb \in Builds
        /\ nb.kind = BuildKind /\ nb.startRevision = Len(log)
        /\ nb.startGeneration = generation
        /\ nb.changed = IF BuildKind = "patch" THEN since.names ELSE {}
    BY <1>2, <1>3, <1>4, NoBuildType DEF NoBuild, Builds, Revision, TypeOK
  <1>. HIDE DEF nb
  <1>6. TypeOK'
    BY <1>1, <1>2, <1>5 DEF TypeOK, sourceVars, entryVars, envVars, Revision
  <1>7. EntryInv'  BY <1>1 DEF IInv, EntryInv, sourceVars, entryVars
  <1>8. BuildKind = "patch" => /\ since.ok /\ hasSnapshot
                               /\ sessionGeneration = generation
    BY DEF BuildKind, SessionMoved, PageMoved, since
  <1>9. BuildKind = "refresh" => hasSnapshot /\ pageRevision = Len(log)
    BY DEF BuildKind, PageMoved, Revision
  <1>10. ASSUME NEW q \in Readers  PROVE BuildInv(q)'
    <2>1. BuildInv(q) /\ inflight = None /\ None \notin Readers
      BY <1>1, TaskListAssumption DEF IInv
    <2>2. ~Building(q)  BY <2>1 DEF BuildInv, OwnerInv
    <2>3. CASE q # p
      <3>1. pc'[q] = pc[q] /\ build'[q] = build[q]  BY <1>1, <1>2, <2>3 DEF TypeOK
      <3>. QED  BY <2>2, <3>1 DEF BuildInv, OwnerInv, ListInv, DeriveInv, PublishInv, Building
    <2>4. CASE q = p
      <3>1. pc'[p] = at /\ build'[p] = nb  BY <1>1, <1>2 DEF TypeOK
      <3>2. log' = log /\ generation' = generation /\ hasSnapshot' = hasSnapshot
            /\ pageRevision' = pageRevision /\ sessionGeneration' = sessionGeneration
        BY <1>1 DEF sourceVars, entryVars
      <3>3. OwnerInv(p)'
        BY <1>1, <1>2, <1>5, <3>1, <3>2 DEF OwnerInv, TypeOK
      <3>4. BuildKind = "patch" =>
              \A t \in Tasks : ChangedTo(log, t, pageRevision, Len(log)) => t \in since.names
        BY <1>2, <1>8, SinceNames DEF Revision, since
      <3>5. ListInv(p)'
        BY <1>5, <1>8, <1>9, <3>1, <3>2, <3>4 DEF ListInv
      <3>6. at = "derive" => nb.kind = "refresh"  BY <1>5
      <3>7. DeriveInv(p)' /\ PublishInv(p)'
        BY <1>5, <3>1, <3>6 DEF DeriveInv, PublishInv
      <3>. QED  BY <2>4, <3>3, <3>5, <3>7 DEF BuildInv
    <2>. QED  BY <2>3, <2>4
  <1>. QED  BY <1>6, <1>7, <1>10 DEF IInv

\* Listing the pages: whatever is published now is what the rows will show, unless the
\* log names it later.
LEMMA ListPagesInv ==
  ASSUME IInv, NEW p \in Readers, ListPages(p)  PROVE IInv'
  <1>. DEFINE b == build[p]
              unheld == {t \in b.changed : pages[t] # "absent" /\ rows[t] = NoRow}
  <1>1. /\ pc[p] = "list" /\ UNCHANGED <<sourceVars, entryVars, inflight, envVars>>
        /\ \/ /\ build' = [build EXCEPT ![p].kind = "full", ![p].changed = {}]
              /\ pc' = pc
           \/ /\ ~(b.kind = "patch" /\ unheld # {})
              /\ build' = [build EXCEPT ![p].items = pages]
              /\ pc' = [pc EXCEPT ![p] = "derive"]
    BY DEF ListPages
  <1>2. TypeOK /\ BuildInv(p) /\ Building(p) /\ b \in Builds
    BY <1>1 DEF IInv, TypeOK, Building
  <1>3. TypeOK'
    <2>1. [b EXCEPT !.kind = "full", !.changed = {}] \in Builds
          /\ [b EXCEPT !.items = pages] \in Builds
      BY <1>2 DEF TypeOK, Builds, Kinds
    <2>2. build' \in [Readers -> Builds]
      BY <1>1, <1>2, <2>1 DEF TypeOK
    <2>3. pc' \in [Readers -> {"idle", "loop", "wait", "list", "derive", "publish"}]
      BY <1>1, <1>2 DEF TypeOK
    <2>. QED  BY <1>1, <1>2, <2>2, <2>3 DEF TypeOK, sourceVars, entryVars, envVars, Revision
  <1>4. EntryInv'  BY <1>1 DEF IInv, EntryInv, sourceVars, entryVars
  <1>5. /\ log' = log /\ pages' = pages /\ generation' = generation /\ live' = live
        /\ rows' = rows /\ hasSnapshot' = hasSnapshot /\ pageRevision' = pageRevision
        /\ sessionGeneration' = sessionGeneration /\ inflight' = inflight
    BY <1>1 DEF sourceVars, entryVars
  <1>6. ASSUME NEW q \in Readers, q # p  PROVE BuildInv(q)'
    <2>1. pc'[q] = pc[q] /\ build'[q] = build[q]  BY <1>1, <1>2, <1>6 DEF TypeOK
    <2>2. BuildInv(q)  BY DEF IInv
    <2>. QED  BY <1>5, <2>1, <2>2 DEF BuildInv, OwnerInv, ListInv, DeriveInv, PublishInv,
                                     Building
  <1>7. BuildInv(p)'
    <2>1. CASE build' = [build EXCEPT ![p].kind = "full", ![p].changed = {}] /\ pc' = pc
      <3>1. /\ pc'[p] = "list" /\ build'[p].kind = "full"
            /\ build'[p].startRevision = b.startRevision
            /\ build'[p].startGeneration = b.startGeneration
        BY <1>1, <1>2, <2>1 DEF TypeOK, Builds
      <3>. QED  BY <1>2, <1>5, <3>1 DEF BuildInv, OwnerInv, ListInv, DeriveInv, PublishInv,
                                       Building
    <2>2. CASE /\ ~(b.kind = "patch" /\ unheld # {})
               /\ build' = [build EXCEPT ![p].items = pages]
               /\ pc' = [pc EXCEPT ![p] = "derive"]
      <3>1. /\ pc'[p] = "derive" /\ build'[p].kind = b.kind /\ build'[p].items = pages
            /\ build'[p].startRevision = b.startRevision
            /\ build'[p].startGeneration = b.startGeneration
            /\ build'[p].changed = b.changed
        BY <1>2, <2>2 DEF TypeOK, Builds
      <3>2. OwnerInv(p)' /\ ListInv(p)' /\ PublishInv(p)'
        BY <1>1, <1>2, <1>5, <3>1 DEF BuildInv, OwnerInv, ListInv, PublishInv, Building
      <3>3. b.kind = "patch" => \A t \in b.changed : pages[t] # "absent" => rows[t] # NoRow
        BY <2>2
      <3>4. DeriveInv(p)'
        BY <1>5, <3>1, <3>3 DEF DeriveInv, Shows
      <3>. QED  BY <3>2, <3>4 DEF BuildInv
    <2>. QED  BY <1>1, <2>1, <2>2
  <1>. QED  BY <1>3, <1>4, <1>6, <1>7 DEF IInv

\* What each kind of build derives: rows that show the pages since the revision it
\* started from and the sessions of the generation it started from.
LEMMA DerivedRows ==
  ASSUME IInv, NEW p \in Readers, pc[p] = "derive"
  PROVE  LET rs == Derived(build[p]) IN
         /\ rs \in [Tasks -> Row]
         /\ ShowsPages(log, pages, rs, build[p].startRevision)
         /\ ShowsLive(generation, live, rs, build[p].startGeneration)
         /\ Normal(rs)
  <1>. DEFINE b == build[p]
              rs == Derived(b)
  <1>1. /\ TypeOK /\ b \in Builds /\ EntryInv
        /\ OwnerInv(p) /\ ListInv(p) /\ DeriveInv(p)
    BY DEF IInv, BuildInv, TypeOK
  <1>2. rows \in [Tasks -> Row] /\ pages \in [Tasks -> Pages]  BY <1>1 DEF TypeOK
  <1>3. \A t \in Tasks : UncompletedBlockers(t) \in SUBSET Tasks
    BY TaskListAssumption DEF UncompletedBlockers
  <1>4. NoRow \in Row /\ NoRow.page = "absent"  BY DEF NoRow, Row, Pages
  <1>5. pageRevision \in Nat /\ Len(log) \in Nat
    BY <1>1 DEF TypeOK, Revision
  <1>6. SUFFICES ASSUME NEW t \in Tasks
        PROVE  /\ rs[t] \in Row
               /\ Shows(log, pages, t, rs[t].page, b.startRevision)
               /\ b.startGeneration = generation /\ rs[t].page # "absent"
                    => rs[t].live = (t \in live)
               /\ rs[t].page = "absent" => rs[t] = NoRow
    <2>1. rs = [u \in Tasks |-> rs[u]]  BY DEF Derived
    <2>. HIDE DEF rs, b
    <2>2. rs \in [Tasks -> Row]  BY <1>6, <2>1
    <2>. QED  BY <1>6, <2>2 DEF ShowsPages, ShowsLive, Normal, rs, b
  <1>7. CASE b.kind = "full"
    <2>1. rs[t] = BuiltRow(t, b.items[t])  BY <1>7 DEF Derived, DerivedRow
    <2>2. b.items[t] \in Pages  BY <1>1 DEF Builds
    <2>3. Shows(log, pages, t, b.items[t], b.startRevision)  BY <1>1, <1>7 DEF DeriveInv
    <2>. HIDE DEF rs, b
    <2>4. /\ rs[t] \in Row /\ rs[t].page = b.items[t]
          /\ rs[t].page # "absent" => rs[t].live = (t \in live)
          /\ rs[t].page = "absent" => rs[t] = NoRow
      BY <1>3, <1>4, <2>1, <2>2 DEF BuiltRow, Row
    <2>. QED  BY <2>3, <2>4
  <1>8. CASE b.kind = "refresh"
    <2>1. rs[t] = RefreshedRow(t)  BY <1>8 DEF Derived, DerivedRow
    <2>2. /\ hasSnapshot /\ pageRevision = b.startRevision
          /\ Shows(log, pages, t, rows[t].page, pageRevision)
          /\ rows[t].page = "absent" => rows[t] = NoRow
      BY <1>1, <1>8 DEF ListInv, EntryInv, ShowsPages, Normal
    <2>. HIDE DEF rs, b
    <2>3. /\ rs[t] \in Row /\ rs[t].page = rows[t].page
          /\ rs[t].page # "absent" => rs[t].live = (t \in live)
          /\ rs[t].page = "absent" => rs[t] = NoRow
      <3>1. rows[t] \in Row  BY <1>2
      <3>2. CASE rows[t] = NoRow
        BY <1>4, <2>1, <3>2 DEF RefreshedRow
      <3>3. CASE rows[t] # NoRow
        <4>1. rs[t] = [page |-> rows[t].page, live |-> (t \in live),
                       blockers |-> rows[t].blockers]
          BY <2>1, <3>1, <3>3 DEF RefreshedRow, Row
        <4>. QED  BY <2>2, <3>1, <3>3, <4>1 DEF Row
      <3>. QED  BY <3>2, <3>3
    <2>. QED  BY <2>2, <2>3
  <1>9. CASE b.kind = "patch"
    <2>. DEFINE page == IF t \in b.changed THEN b.items[t] ELSE rows[t].page
    <2>1. rs[t] = PatchedRow(t, b)  BY <1>9 DEF Derived, DerivedRow
    <2>2. /\ hasSnapshot /\ sessionGeneration = b.startGeneration
          /\ ChangedTo(log, t, pageRevision, b.startRevision) => t \in b.changed
          /\ Shows(log, pages, t, rows[t].page, pageRevision)
          /\ sessionGeneration = generation /\ rows[t].page # "absent"
               => rows[t].live = (t \in live)
          /\ rows[t].page = "absent" => rows[t] = NoRow
      BY <1>1, <1>9 DEF ListInv, EntryInv, ShowsPages, ShowsLive, Normal
    <2>3. t \in b.changed => /\ Shows(log, pages, t, b.items[t], b.startRevision)
                             /\ b.items[t] # "absent" => rows[t] # NoRow
      BY <1>1, <1>9 DEF DeriveInv
    <2>4. b.items[t] \in Pages /\ rows[t] \in Row /\ b.startRevision \in Nat
      BY <1>1, <1>2 DEF Builds
    <2>. HIDE DEF rs, b
    <2>5. Shows(log, pages, t, page, b.startRevision)
      <3>1. CASE t \in b.changed
        <4>1. page = b.items[t]  BY <3>1
        <4>. HIDE DEF page
        <4>. QED  BY <2>3, <3>1, <4>1
      <3>2. CASE t \notin b.changed
        <4>1. ~ChangedTo(log, t, pageRevision, b.startRevision)  BY <2>2, <3>2
        <4>2. Changed(log, t, pageRevision) => Changed(log, t, b.startRevision)
          BY <1>5, <2>4, <4>1 DEF Changed, ChangedTo
        <4>3. page = rows[t].page  BY <3>2
        <4>. HIDE DEF page
        <4>. QED  BY <2>2, <4>2, <4>3 DEF Shows
      <3>. QED  BY <3>1, <3>2
    <2>6. page # "absent" => rows[t].page # "absent"
      <3>1. CASE t \in b.changed  BY <2>2, <2>3, <3>1
      <3>2. CASE t \notin b.changed  BY <3>2
      <3>. QED  BY <3>1, <3>2
    <2>7. page \in Pages  BY <2>4 DEF Row
    <2>8. /\ rs[t].page = page /\ rs[t] \in Row
          /\ page = "absent" => rs[t] = NoRow
          /\ page # "absent" => rs[t].live = rows[t].live
      BY <1>3, <1>4, <2>1, <2>4, <2>7 DEF PatchedRow, Row
    <2>. QED  BY <2>2, <2>5, <2>6, <2>8
  <1>. QED  BY <1>1, <1>7, <1>8, <1>9 DEF Builds, Kinds

\* Deriving the rows.
LEMMA DeriveStepInv ==
  ASSUME IInv, NEW p \in Readers, Derive(p)  PROVE IInv'
  <1>. DEFINE rs == Derived(build[p])
  <1>1. /\ pc[p] = "derive" /\ pc' = [pc EXCEPT ![p] = "publish"]
        /\ build' = [build EXCEPT ![p].rows = rs, ![p].items = NoBuild.items,
                                  ![p].changed = {}]
        /\ UNCHANGED <<sourceVars, entryVars, inflight, envVars>>
    BY DEF Derive
  <1>2. /\ rs \in [Tasks -> Row]
        /\ ShowsPages(log, pages, rs, build[p].startRevision)
        /\ ShowsLive(generation, live, rs, build[p].startGeneration)
        /\ Normal(rs)
    BY <1>1, DerivedRows
  <1>. HIDE DEF rs
  <1>3. TypeOK /\ BuildInv(p) /\ build[p] \in Builds /\ NoBuild.items \in [Tasks -> Pages]
    BY NoBuildType DEF IInv, TypeOK, Builds
  <1>4. /\ log' = log /\ pages' = pages /\ generation' = generation /\ live' = live
        /\ rows' = rows /\ hasSnapshot' = hasSnapshot /\ pageRevision' = pageRevision
        /\ sessionGeneration' = sessionGeneration /\ inflight' = inflight
    BY <1>1 DEF sourceVars, entryVars
  <1>5. TypeOK'
    <2>1. [build[p] EXCEPT !.rows = rs, !.items = NoBuild.items, !.changed = {}] \in Builds
      BY <1>2, <1>3 DEF Builds
    <2>2. build' \in [Readers -> Builds]  BY <1>1, <1>3, <2>1 DEF TypeOK
    <2>. QED  BY <1>1, <1>3, <2>2 DEF TypeOK, sourceVars, entryVars, envVars, Revision
  <1>6. EntryInv'  BY <1>4 DEF IInv, EntryInv
  <1>7. ASSUME NEW q \in Readers, q # p  PROVE BuildInv(q)'
    <2>1. pc'[q] = pc[q] /\ build'[q] = build[q]  BY <1>1, <1>3, <1>7 DEF TypeOK
    <2>2. BuildInv(q)  BY DEF IInv
    <2>. QED  BY <1>4, <2>1, <2>2 DEF BuildInv, OwnerInv, ListInv, DeriveInv, PublishInv,
                                     Building
  <1>8. BuildInv(p)'
    <2>1. /\ pc'[p] = "publish" /\ build'[p].rows = rs
          /\ build'[p].startRevision = build[p].startRevision
          /\ build'[p].startGeneration = build[p].startGeneration
      BY <1>1, <1>3 DEF TypeOK, Builds
    <2>. QED  BY <1>1, <1>2, <1>3, <1>4, <2>1 DEF BuildInv, OwnerInv, ListInv, DeriveInv,
                                                  PublishInv, Building
  <1>. QED  BY <1>5, <1>6, <1>7, <1>8 DEF IInv

\* The end of a build, published or failed: nobody else runs one, so nobody does.
LEMMA EndBuildInv ==
  ASSUME IInv, NEW p \in Readers, Building(p), TypeOK', EntryInv',
         NEW at \in {"idle", "loop"},
         pc' = [q \in Readers |-> Woken(p, q, at)]
  PROVE  IInv'
  <1>1. ASSUME NEW q \in Readers  PROVE ~Building(q)'
    <2>1. CASE q = p  BY <2>1 DEF Woken, Building
    <2>2. CASE q # p
      <3>1. BuildInv(p) /\ BuildInv(q)  BY DEF IInv
      <3>2. ~Building(q)  BY <2>2, <3>1 DEF BuildInv, OwnerInv
      <3>. QED  BY <2>2, <3>2 DEF Woken, Building
    <2>. QED  BY <2>1, <2>2
  <1>2. ASSUME NEW q \in Readers  PROVE BuildInv(q)'
    BY <1>1 DEF BuildInv, OwnerInv, ListInv, DeriveInv, PublishInv, Building
  <1>. QED  BY <1>2 DEF IInv

\* Publishing.
LEMMA PublishStepInv ==
  ASSUME IInv, NEW p \in Readers, Publish(p)  PROVE IInv'
  <1>. DEFINE b == build[p]
  <1>1. /\ pc[p] = "publish" /\ rows' = b.rows /\ hasSnapshot' = TRUE
        /\ signal' \in {signal, signal + 1}
        /\ pageRevision' = b.startRevision /\ sessionGeneration' = b.startGeneration
        /\ inflight' = None /\ pc' = [q \in Readers |-> Woken(p, q, "loop")]
        /\ build' = [q \in Readers |-> IF Woken(p, q, "woken") = pc[q] /\ q # p
                                          THEN build[q] ELSE NoBuild]
        /\ UNCHANGED <<sourceVars, envVars>>
    BY DEF Publish, PublishedRevision
  <1>2. TypeOK /\ b \in Builds /\ Building(p) /\ OwnerInv(p) /\ PublishInv(p)
    BY <1>1 DEF IInv, TypeOK, BuildInv, Building
  <1>3. TypeOK'
    <2>1. b.startRevision \in 0 .. Len(log) /\ b.startGeneration \in 0 .. generation
      BY <1>2 DEF OwnerInv, Builds, TypeOK
    <2>2. pc' \in [Readers -> {"idle", "loop", "wait", "list", "derive", "publish"}]
      BY <1>1, <1>2 DEF Woken, TypeOK
    <2>3. build' \in [Readers -> Builds]  BY <1>1, <1>2, NoBuildType DEF TypeOK
    <2>4. rows' \in [Tasks -> Row]  BY <1>1, <1>2 DEF Builds
    <2>. QED  BY <1>1, <1>2, <2>1, <2>2, <2>3, <2>4
              DEF TypeOK, sourceVars, envVars, Revision
  <1>4. EntryInv'
    BY <1>1, <1>2 DEF PublishInv, EntryInv, sourceVars
  <1>. QED  BY <1>1, <1>2, <1>3, <1>4, EndBuildInv

\* Failing.
LEMMA FailBuildInv ==
  ASSUME IInv, NEW p \in Readers, FailBuild(p)  PROVE IInv'
  <1>1. /\ Building(p) /\ faults' = faults + 1 /\ inflight' = None
        /\ pc' = [q \in Readers |-> Woken(p, q, "idle")]
        /\ build' = [q \in Readers |-> IF Woken(p, q, "woken") = pc[q] /\ q # p
                                          THEN build[q] ELSE NoBuild]
        /\ UNCHANGED <<sourceVars, entryVars, hpc, wpc, events, writes, external>>
    BY DEF FailBuild, AfterFailure, Building
  <1>2. TypeOK  BY DEF IInv
  <1>3. TypeOK'
    <2>1. pc' \in [Readers -> {"idle", "loop", "wait", "list", "derive", "publish"}]
      BY <1>1, <1>2 DEF Woken, TypeOK
    <2>2. build' \in [Readers -> Builds]  BY <1>1, <1>2, NoBuildType DEF TypeOK
    <2>. QED  BY <1>1, <1>2, <2>1, <2>2 DEF TypeOK, sourceVars, entryVars, Revision
  <1>4. EntryInv'  BY <1>1 DEF IInv, EntryInv, sourceVars, entryVars
  <1>. QED  BY <1>1, <1>3, <1>4, EndBuildInv

-----------------------------------------------------------------------------
(* The theorems *)

\* The invariant holds at the start ...
LEMMA InitInv == Init => IInv
  <1>. SUFFICES ASSUME Init PROVE IInv  OBVIOUS
  <1>1. TypeOK
    <2>1. [names |-> {}, bounded |-> FALSE] \in Changes  BY DEF Changes
    <2>2. log \in Seq(Changes) /\ Len(log) = 1  BY <2>1 DEF Init
    <2>3. NoRow \in Row  BY DEF NoRow, Row, Pages
    <2>4. disk \in [Tasks -> Pages]  BY TaskListAssumption DEF Init, Pages, Statuses
    <2>5. build \in [Readers -> Builds]  BY NoBuildType DEF Init
    <2>6. rows \in [Tasks -> Row]  BY <2>3 DEF Init
    <2>7. hpc \in [Handlers -> Works] /\ wpc \in [Writers -> Works]  BY DEF Init, Works
    <2>8. /\ cache \in [Tasks -> Pages] /\ pages \in [Tasks -> Pages]
          /\ log \in Seq([names : SUBSET Tasks, bounded : BOOLEAN])
      BY <2>2, <2>4 DEF Init, Changes
    <2>9. pageRevision \in 0 .. Revision /\ sessionGeneration \in 0 .. generation
      BY <2>2 DEF Init, Revision
    <2>10. pc \in [Readers -> {"idle", "loop", "wait", "list", "derive", "publish"}]
      BY DEF Init
    <2>11. /\ stale \subseteq Tasks /\ live \subseteq Tasks /\ generation \in Nat
           /\ hasSnapshot \in BOOLEAN /\ signal \in Nat
           /\ inflight \in Readers \cup {None}
           /\ events \subseteq Tasks /\ external \subseteq Tasks
           /\ writes \in Nat /\ faults \in Nat
      BY DEF Init
    <2>. QED  BY <2>4, <2>5, <2>6, <2>7, <2>8, <2>9, <2>10, <2>11 DEF TypeOK
  <1>2. EntryInv  BY DEF Init, EntryInv, Normal, NoRow
  <1>3. \A p \in Readers : BuildInv(p)
    BY DEF Init, BuildInv, OwnerInv, ListInv, DeriveInv, PublishInv, Building
  <1>. QED  BY <1>1, <1>2, <1>3 DEF IInv

\* ... and every step keeps it.
LEMMA NextInv == IInv /\ [Next]_vars => IInv'
  <1>. SUFFICES ASSUME IInv, [Next]_vars PROVE IInv'  OBVIOUS
  <1>1. CASE Sources  BY <1>1, SourcesInv
  <1>2. ASSUME NEW p \in Readers,
               BeginList(p) \/ Step(p) \/ FailBuild(p) \/ CancelWait(p)
        PROVE  IInv'
    <2>1. CASE ServeRows(p)
      BY <2>1, IdleStepInv, NoBuildType DEF ServeRows, Building
    <2>2. CASE JoinBuild(p)
      <3>1. [NoBuild EXCEPT !.on = inflight] \in Builds
        BY NoBuildType DEF IInv, TypeOK, Builds
      <3>. QED  BY <2>2, <3>1, IdleStepInv DEF JoinBuild, Building
    <2>3. CASE CancelWait(p)
      BY <2>3, IdleStepInv, NoBuildType DEF CancelWait, Building
    <2>4. CASE StartBuild(p)  BY <2>4, StartBuildInv
    <2>5. CASE ListPages(p)  BY <2>5, ListPagesInv
    <2>6. CASE Derive(p)  BY <2>6, DeriveStepInv
    <2>7. CASE Publish(p)  BY <2>7, PublishStepInv
    <2>8. CASE FailBuild(p)  BY <2>8, FailBuildInv
    <2>. QED  BY <1>2, <2>1, <2>2, <2>3, <2>4, <2>5, <2>6, <2>7, <2>8 DEF BeginList, Step
  <1>3. CASE UNCHANGED vars
    <2>1. TypeOK'
      BY <1>3 DEF IInv, TypeOK, vars, sourceVars, entryVars, envVars, Revision
    <2>. QED  BY <1>3, <2>1, UnseenInv DEF vars, sourceVars
  <1>. QED  BY <1>1, <1>2, <1>3 DEF Next

\* The variables of the task-list snapshot keep their types, and the entry never claims
\* a revision or a generation that has not been reached.
THEOREM ListTypes == Spec => []TypeOK
  <1>1. IInv => TypeOK  BY DEF IInv
  <1>. QED  BY <1>1, InitInv, NextInv, PTL DEF Spec

\* The rows that taskSnapshotStore.List serves without a build show the published pages
\* and the current session snapshot, for any tasks, readers and interleavings.
THEOREM ListRowsCurrent == Spec => []RowsCurrent
  <1>1. IInv => RowsCurrent
    <2>. SUFFICES ASSUME IInv, ~PageMoved, ~SessionMoved, NEW t \in Tasks
         PROVE  /\ rows[t].page = pages[t]
                /\ rows[t].page # "absent" => rows[t].live = (t \in live)
      BY DEF RowsCurrent
    <2>1. /\ hasSnapshot /\ pageRevision = Len(log) /\ sessionGeneration = generation
          /\ Len(log) \in Nat
      BY DEF PageMoved, SessionMoved, Revision, IInv, TypeOK
    <2>2. ~Changed(log, t, pageRevision)  BY <2>1 DEF Changed
    <2>. QED  BY <2>1, <2>2 DEF IInv, EntryInv, ShowsPages, ShowsLive, Shows
  <1>. QED  BY <1>1, InitInv, NextInv, PTL DEF Spec

-----------------------------------------------------------------------------
(* Blockers *)

(***************************************************************************)
(* A row's blockers were read from the status cache when the row was       *)
(* derived.  One of them may be out of date while a writer of the blocking *)
(* task is between its write and its mark, or once the change log has an   *)
(* entry after the row's revision that names the task or cannot say what   *)
(* it changed; a cached status may be out of date only before the writer's *)
(* invalidation.  Tasks edited outside the board are excused throughout.   *)
(***************************************************************************)

\* The log has an entry after rev, or between rev and to, that names t or is unbounded.
Touched(lg, t, rev) ==
  \E i \in 1 .. Len(lg) : i > rev /\ (t \in lg[i].names \/ ~lg[i].bounded)
TouchedTo(lg, t, rev, to) ==
  \E i \in 1 .. Len(lg) : i > rev /\ i <= to /\ (t \in lg[i].names \/ ~lg[i].bounded)

\* A writer has written t and not marked it yet.
Written(t) == \E w \in Writers : wpc[w].at \in {"written", "invalidated"} /\ wpc[w].task = t

Excused(t, rev) == t \in external \/ Touched(log, t, rev) \/ Written(t)

\* A row shows the blocker as the status cache has it.
RightOf(r, t) == r.page # "absent" => (t \in r.blockers <=> cache[t] # "completed")

SoundBlockers(rs, rev) ==
  \A t \in Tasks : \A blocker \in BlockedBy[t] :
    RightOf(rs[t], blocker) \/ Excused(blocker, rev)
OwnBlockers(rs) == \A t \in Tasks : rs[t].blockers \subseteq BlockedBy[t]

CacheInv ==
  \A t \in Tasks : \/ t \in external
                   \/ cache[t] = disk[t]
                   \/ \E w \in Writers : wpc[w].at = "written" /\ wpc[w].task = t

EntryBlockers ==
  /\ OwnBlockers(rows)
  /\ hasSnapshot => SoundBlockers(rows, pageRevision)

BuildBlockers(p) ==
  /\ pc[p] \in {"list", "derive"} /\ build[p].kind = "patch" =>
       \A t \in Tasks : TouchedTo(log, t, pageRevision, build[p].startRevision)
                          => t \in build[p].changed
  /\ pc[p] = "publish" => /\ OwnBlockers(build[p].rows)
                          /\ SoundBlockers(build[p].rows, build[p].startRevision)

BlockersInv == CacheInv /\ EntryBlockers /\ \A p \in Readers : BuildBlockers(p)

-----------------------------------------------------------------------------
(* Blockers: the sources move *)

\* One more entry: what was touched stays touched, what the entry names, and everything
\* when it is unbounded, is now touched after every earlier revision, and nothing is new
\* up to those.
LEMMA TouchesGrow ==
  ASSUME NEW lg \in Seq(Changes), NEW c \in Changes
  PROVE  LET more == Append(lg, c) IN
         /\ \A t \in Tasks, rev \in Nat : Touched(lg, t, rev) => Touched(more, t, rev)
         /\ \A t \in Tasks, rev \in 0 .. Len(lg) :
              t \in c.names \/ ~c.bounded => Touched(more, t, rev)
         /\ \A t \in Tasks, rev \in Nat, to \in 0 .. Len(lg) :
              TouchedTo(more, t, rev, to) => TouchedTo(lg, t, rev, to)
  <1>. DEFINE more == Append(lg, c)
  <1>1. /\ Len(more) = Len(lg) + 1 /\ Len(lg) \in Nat
        /\ \A i \in 1 .. Len(lg) : more[i] = lg[i]
        /\ more[Len(lg) + 1] = c
    OBVIOUS
  <1>. HIDE DEF more
  <1>2. ASSUME NEW t \in Tasks, NEW rev \in Nat, Touched(lg, t, rev)
        PROVE  Touched(more, t, rev)
    BY <1>1, <1>2 DEF Touched
  <1>3. ASSUME NEW t \in Tasks, NEW rev \in 0 .. Len(lg), t \in c.names \/ ~c.bounded
        PROVE  Touched(more, t, rev)
    <2>1. Len(lg) + 1 \in 1 .. Len(more) /\ Len(lg) + 1 > rev  BY <1>1
    <2>. QED  BY <1>1, <1>3, <2>1 DEF Touched
  <1>4. ASSUME NEW t \in Tasks, NEW rev \in Nat, NEW to \in 0 .. Len(lg),
               TouchedTo(more, t, rev, to)
        PROVE  TouchedTo(lg, t, rev, to)
    BY <1>1, <1>4 DEF TouchedTo
  <1>. QED  BY <1>2, <1>3, <1>4 DEF more

\* A step that takes no excuse away, that has one for every status it changes, and that
\* leaves the entry and the builds alone, keeps the rows' blockers sound.
LEMMA ExcusesKeep ==
  ASSUME IInv, BlockersInv, CacheInv',
         \A t \in Tasks : \A rev \in 0 .. Len(log) : Excused(t, rev) => Excused(t, rev)',
         \A t \in Tasks : cache'[t] # cache[t] => \A rev \in 0 .. Len(log) : Excused(t, rev)',
         \A t \in Tasks : \A rev \in Nat, to \in 0 .. Len(log) :
           TouchedTo(log', t, rev, to) => TouchedTo(log, t, rev, to),
         UNCHANGED <<entryVars, pc, build>>
  PROVE  BlockersInv'
  <1>1. /\ rows' = rows /\ hasSnapshot' = hasSnapshot /\ pageRevision' = pageRevision
        /\ pc' = pc /\ build' = build
    BY DEF entryVars
  <1>2. /\ pageRevision \in 0 .. Len(log) /\ pageRevision \in Nat
        /\ \A p \in Readers : build[p] \in Builds
        /\ \A t \in Tasks : BlockedBy[t] \subseteq Tasks
    BY TaskListAssumption DEF IInv, TypeOK, Revision
  <1>3. ASSUME NEW rs, NEW rev \in 0 .. Len(log), SoundBlockers(rs, rev)
        PROVE  SoundBlockers(rs, rev)'
    <2>. SUFFICES ASSUME NEW t \in Tasks, NEW blocker \in BlockedBy[t]
         PROVE  RightOf(rs[t], blocker)' \/ Excused(blocker, rev)'
      BY DEF SoundBlockers
    <2>1. blocker \in Tasks  BY <1>2
    <2>2. RightOf(rs[t], blocker) \/ Excused(blocker, rev)  BY <1>3 DEF SoundBlockers
    <2>3. CASE Excused(blocker, rev)  BY <2>1, <2>3
    <2>4. CASE RightOf(rs[t], blocker) /\ cache'[blocker] = cache[blocker]
      BY <2>4 DEF RightOf
    <2>5. CASE cache'[blocker] # cache[blocker]  BY <2>1, <2>5
    <2>. QED  BY <2>2, <2>3, <2>4, <2>5
  <1>4. EntryBlockers'
    <2>1. OwnBlockers(rows)'  BY <1>1 DEF BlockersInv, EntryBlockers, OwnBlockers
    <2>2. hasSnapshot => SoundBlockers(rows, pageRevision)'
      <3>1. hasSnapshot => SoundBlockers(rows, pageRevision)
        BY DEF BlockersInv, EntryBlockers
      <3>. QED  BY <1>1, <1>2, <1>3, <3>1 DEF SoundBlockers
    <2>. QED  BY <1>1, <2>1, <2>2 DEF EntryBlockers
  <1>5. ASSUME NEW p \in Readers  PROVE BuildBlockers(p)'
    <2>1. BuildBlockers(p) /\ build[p] \in Builds /\ BuildInv(p)
      BY <1>2 DEF BlockersInv, IInv
    <2>2. Building(p) => build[p].startRevision \in 0 .. Len(log)
      BY <2>1 DEF BuildInv, OwnerInv, Builds
    <2>3. pc[p] \in {"list", "derive"} /\ build[p].kind = "patch" =>
            \A t \in Tasks : TouchedTo(log', t, pageRevision, build[p].startRevision)
                               => t \in build[p].changed
      BY <1>2, <2>1, <2>2 DEF BuildBlockers, Building
    <2>4. pc[p] = "publish" =>
            SoundBlockers(build[p].rows, build[p].startRevision)'
      <3>. SUFFICES ASSUME pc[p] = "publish"
           PROVE  SoundBlockers(build[p].rows, build[p].startRevision)'
        OBVIOUS
      <3>1. SoundBlockers(build[p].rows, build[p].startRevision)
            /\ build[p].startRevision \in 0 .. Len(log)
        BY <2>1, <2>2 DEF BuildBlockers, Building
      <3>. QED  BY <1>1, <1>3, <3>1 DEF SoundBlockers
    <2>5. pc[p] = "publish" => OwnBlockers(build[p].rows)'
      BY <1>1, <2>1 DEF BuildBlockers, OwnBlockers
    <2>. QED  BY <1>1, <2>3, <2>4, <2>5 DEF BuildBlockers
  <1>. QED  BY <1>4, <1>5 DEF BlockersInv

\* An advance of the log by itself takes no excuse away.
LEMMA AdvanceExcuses ==
  ASSUME TypeOK, NEW names \in SUBSET Tasks, NEW bounded \in BOOLEAN,
         Advance(names, bounded),
         external' = external, wpc' = wpc
  PROVE  /\ \A t \in Tasks : \A rev \in 0 .. Len(log) : Excused(t, rev) => Excused(t, rev)'
         /\ \A t \in Tasks : \A rev \in Nat, to \in 0 .. Len(log) :
              TouchedTo(log', t, rev, to) => TouchedTo(log, t, rev, to)
  <1>1. /\ log \in Seq(Changes) /\ [names |-> names, bounded |-> bounded] \in Changes
        /\ log' = Append(log, [names |-> names, bounded |-> bounded])
    BY DEF TypeOK, Advance, Changes
  <1>2. /\ \A t \in Tasks, rev \in Nat : Touched(log, t, rev) => Touched(log', t, rev)
        /\ \A t \in Tasks, rev \in Nat, to \in 0 .. Len(log) :
             TouchedTo(log', t, rev, to) => TouchedTo(log, t, rev, to)
    BY <1>1, TouchesGrow
  <1>. QED  BY <1>2 DEF Excused, Written

\* Every step of the sources keeps the blockers sound: a status moves only while the
\* writer of its task is under way, and that writer ends by naming the task, or by an
\* advance that nothing can be attributed to.
LEMMA SourcesBlockers == IInv /\ BlockersInv /\ Sources => BlockersInv'
  <1>. SUFFICES ASSUME IInv, BlockersInv, Sources PROVE BlockersInv'  OBVIOUS
  <1>1. /\ TypeOK /\ CacheInv /\ Len(log) \in Nat /\ cache \in [Tasks -> Pages]
        /\ disk \in [Tasks -> Pages] /\ wpc \in [Writers -> Works]
        /\ hpc \in [Handlers -> Works]
    BY DEF IInv, TypeOK, BlockersInv
  <1>. USE DEF envVars
  <1>2. ASSUME NEW names \in SUBSET Tasks, NEW bounded \in BOOLEAN,
               Advance(names, bounded),
               UNCHANGED <<disk, cache, external, wpc, entryVars, pc, build>>
        PROVE  BlockersInv'
    <2>1. CacheInv'  BY <1>1, <1>2 DEF CacheInv
    <2>. QED  BY <1>1, <1>2, <2>1, AdvanceExcuses, ExcusesKeep
  <1>3. CASE Rescan
    <2>. DEFINE moved == {t \in Tasks : pages[t] # disk[t]} \cup stale
    <2>1. moved \in SUBSET Tasks /\ Advance(moved, TRUE)  BY <1>1, <1>3 DEF Rescan, TypeOK
    <2>. HIDE DEF moved
    <2>2. UNCHANGED <<disk, cache, external, wpc, entryVars, pc, build>>
      <3>1. disk' = disk /\ cache' = cache  BY <1>3 DEF Rescan
      <3>. QED  BY <1>3, <3>1 DEF Rescan
    <2>. QED  BY <1>2, <2>1, <2>2
  <1>4. ASSUME NEW t \in Tasks, ReadMarked(t)  PROVE BlockersInv'
    <2>1. {t} \in SUBSET Tasks /\ Advance({t}, TRUE)
      BY <1>4 DEF ReadMarked
    <2>. QED  BY <1>2, <1>4, <2>1 DEF ReadMarked
  <1>5. ASSUME NEW h \in Handlers, NEW t \in Tasks, HandleEvent(h, t)  PROVE BlockersInv'
    <2>1. {t} \in SUBSET Tasks /\ Advance({t}, TRUE)
      BY <1>5 DEF HandleEvent
    <2>. QED  BY <1>2, <1>5, <2>1 DEF HandleEvent
  <1>6. ASSUME NEW w \in Writers, NEW t \in Tasks, NEW st \in Statuses, WriteTask(w, t, st)
        PROVE  BlockersInv'
    <2>1. /\ disk' = [disk EXCEPT ![t] = st] /\ cache' = cache /\ log' = log
          /\ external' = external /\ wpc[w].at = "idle"
          /\ wpc' = [wpc EXCEPT ![w] = [at |-> "written", task |-> t]]
          /\ UNCHANGED <<entryVars, pc, build>>
      BY <1>6 DEF WriteTask
    <2>2. \A u \in Writers : u # w => wpc'[u] = wpc[u]  BY <1>1, <2>1
    <2>3. wpc'[w].at = "written" /\ wpc'[w].task = t  BY <1>1, <2>1
    <2>4. CacheInv'
      <3>. SUFFICES ASSUME NEW u \in Tasks
           PROVE  \/ u \in external'
                  \/ cache'[u] = disk'[u]
                  \/ \E v \in Writers : wpc'[v].at = "written" /\ wpc'[v].task = u
        BY DEF CacheInv
      <3>1. CASE u = t  BY <2>3, <3>1
      <3>2. CASE u # t
        <4>1. disk'[u] = disk[u]  BY <1>1, <2>1, <3>2
        <4>2. CASE \E v \in Writers : wpc[v].at = "written" /\ wpc[v].task = u
          BY <2>1, <2>2, <4>2
        <4>. QED  BY <1>1, <2>1, <4>1, <4>2 DEF CacheInv
      <3>. QED  BY <3>1, <3>2
    <2>5. ASSUME NEW u \in Tasks, Written(u)  PROVE Written(u)'
      <3>1. PICK v \in Writers : wpc[v].at \in {"written", "invalidated"} /\ wpc[v].task = u
        BY <2>5 DEF Written
      <3>2. wpc'[v] = wpc[v]  BY <2>1, <2>2, <3>1
      <3>. QED  BY <3>1, <3>2 DEF Written
    <2>6. \A u \in Tasks : \A rev \in 0 .. Len(log) : Excused(u, rev) => Excused(u, rev)'
      BY <2>1, <2>5 DEF Excused
    <2>. QED  BY <2>1, <2>4, <2>6, ExcusesKeep
  <1>7. ASSUME NEW w \in Writers, InvalidateWritten(w)  PROVE BlockersInv'
    <2>1. PICK t \in Tasks :
            /\ wpc[w].at = "written" /\ wpc[w].task = t
            /\ cache' = [cache EXCEPT ![t] = disk[t]]
            /\ disk' = disk /\ log' = log /\ external' = external
            /\ wpc' = [wpc EXCEPT ![w].at = "invalidated"]
            /\ UNCHANGED <<entryVars, pc, build>>
      <3>1. wpc[w].task \in Tasks
        BY <1>1, <1>7 DEF InvalidateWritten, Works, NoWork
      <3>. QED  BY <1>7, <3>1 DEF InvalidateWritten, Invalidate
    <2>2. wpc[w] \in [at : {"written", "invalidated", "refreshed"}, task : Tasks]
      BY <1>1, <2>1 DEF Works, NoWork
    <2>3. \A u \in Writers : u # w => wpc'[u] = wpc[u]  BY <1>1, <2>1
    <2>4. wpc'[w].at = "invalidated" /\ wpc'[w].task = t  BY <1>1, <2>1, <2>2
    <2>5. CacheInv'
      <3>. SUFFICES ASSUME NEW u \in Tasks
           PROVE  \/ u \in external'
                  \/ cache'[u] = disk'[u]
                  \/ \E v \in Writers : wpc'[v].at = "written" /\ wpc'[v].task = u
        BY DEF CacheInv
      <3>1. CASE u = t  BY <1>1, <2>1, <3>1
      <3>2. CASE u # t
        <4>1. cache'[u] = cache[u]  BY <1>1, <2>1, <3>2
        <4>2. CASE \E v \in Writers : wpc[v].at = "written" /\ wpc[v].task = u
          BY <2>1, <2>3, <3>2, <4>2
        <4>. QED  BY <1>1, <2>1, <4>1, <4>2 DEF CacheInv
      <3>. QED  BY <3>1, <3>2
    <2>6. Written(t)'  BY <2>4 DEF Written
    <2>7. ASSUME NEW u \in Tasks, Written(u)  PROVE Written(u)'
      <3>1. PICK v \in Writers : wpc[v].at \in {"written", "invalidated"} /\ wpc[v].task = u
        BY <2>7 DEF Written
      <3>2. CASE v = w
        <4>1. u = t  BY <2>1, <3>1, <3>2
        <4>. QED  BY <2>6, <4>1
      <3>3. CASE v # w  BY <2>3, <3>1, <3>3 DEF Written
      <3>. QED  BY <3>2, <3>3
    <2>8. \A u \in Tasks : \A rev \in 0 .. Len(log) : Excused(u, rev) => Excused(u, rev)'
      BY <2>1, <2>7 DEF Excused
    <2>9. \A u \in Tasks : cache'[u] # cache[u] =>
            \A rev \in 0 .. Len(log) : Excused(u, rev)'
      <3>. SUFFICES ASSUME NEW u \in Tasks, cache'[u] # cache[u], NEW rev \in 0 .. Len(log)
           PROVE  Excused(u, rev)'
        OBVIOUS
      <3>1. u = t  BY <1>1, <2>1
      <3>2. Written(u)'  BY <2>6, <3>1
      <3>. QED  BY <3>2 DEF Excused
    <2>. QED  BY <2>1, <2>5, <2>8, <2>9, ExcusesKeep
  <1>8. ASSUME NEW w \in Writers, MarkWritten(w)  PROVE BlockersInv'
    <2>. DEFINE t == wpc[w].task
    <2>1. /\ wpc[w].at = "invalidated" /\ cache' = cache /\ disk' = disk /\ external' = external
          /\ wpc' = [wpc EXCEPT ![w] = NoWork]
          /\ UNCHANGED <<entryVars, pc, build>>
      BY <1>8 DEF MarkWritten
    <2>2. wpc[w] \in [at : {"written", "invalidated", "refreshed"}, task : Tasks]
      BY <1>1, <1>8 DEF MarkWritten, Works, NoWork
    <2>3. \A u \in Writers : u # w => wpc'[u] = wpc[u]  BY <1>1, <2>1
    <2>4. t \in Tasks /\ wpc[w].at = "invalidated"  BY <1>8, <2>2 DEF MarkWritten
    <2>5. PICK names \in SUBSET Tasks, bounded \in BOOLEAN :
            Advance(names, bounded) /\ (t \in names \/ ~bounded)
      <3>1. CASE Advance({t}, TRUE)  BY <2>4, <3>1
      <3>2. CASE Advance({}, FALSE)  BY <3>2
      <3>. QED  BY <1>8, <3>1, <3>2 DEF MarkWritten
    <2>. HIDE DEF t
    <2>6. /\ log \in Seq(Changes) /\ [names |-> names, bounded |-> bounded] \in Changes
          /\ log' = Append(log, [names |-> names, bounded |-> bounded])
      BY <1>1, <2>5 DEF TypeOK, Advance, Changes
    <2>7. /\ \A u \in Tasks, rev \in Nat : Touched(log, u, rev) => Touched(log', u, rev)
          /\ \A u \in Tasks, rev \in 0 .. Len(log) :
               u \in names \/ ~bounded => Touched(log', u, rev)
          /\ \A u \in Tasks, rev \in Nat, to \in 0 .. Len(log) :
               TouchedTo(log', u, rev, to) => TouchedTo(log, u, rev, to)
      BY <2>6, TouchesGrow
    <2>8. \A rev \in 0 .. Len(log) : Touched(log', t, rev)  BY <2>4, <2>5, <2>7
    <2>9. CacheInv'
      <3>1. ASSUME NEW u \in Tasks, NEW v \in Writers,
                   wpc[v].at = "written" /\ wpc[v].task = u
            PROVE  wpc'[v].at = "written" /\ wpc'[v].task = u
        BY <2>3, <2>4, <3>1
      <3>. QED  BY <1>1, <1>8, <3>1 DEF CacheInv, MarkWritten
    <2>10. ASSUME NEW u \in Tasks, u # t, Written(u)  PROVE Written(u)'
      <3>1. PICK v \in Writers : wpc[v].at \in {"written", "invalidated"} /\ wpc[v].task = u
        BY <2>10 DEF Written
      <3>2. v # w  BY <2>10, <3>1 DEF t
      <3>. QED  BY <2>3, <3>1, <3>2 DEF Written
    <2>11. ASSUME NEW u \in Tasks, NEW rev \in 0 .. Len(log), Excused(u, rev)
           PROVE  Excused(u, rev)'
      <3>1. CASE u = t  BY <2>8, <3>1 DEF Excused
      <3>2. CASE u # t  BY <1>1, <1>8, <2>7, <2>10, <2>11, <3>2 DEF Excused, MarkWritten
      <3>. QED  BY <3>1, <3>2
    <2>12. UNCHANGED <<cache, entryVars, pc, build>>  BY <1>8 DEF MarkWritten
    <2>. QED  BY <2>7, <2>9, <2>11, <2>12, ExcusesKeep
  <1>9. ASSUME NEW h \in Handlers, InvalidateRefreshed(h)  PROVE BlockersInv'
    <2>. DEFINE t == hpc[h].task
    <2>1. /\ hpc[h].at = "refreshed" /\ cache' = [cache EXCEPT ![t] = disk[t]]
          /\ disk' = disk /\ log' = log /\ external' = external /\ wpc' = wpc
          /\ UNCHANGED <<entryVars, pc, build>>
      BY <1>9 DEF InvalidateRefreshed, Invalidate
    <2>. HIDE DEF t
    <2>2. ASSUME NEW u \in Tasks
          PROVE  cache'[u] = disk[u] \/ cache'[u] = cache[u]
      BY <1>1, <2>1
    <2>3. CacheInv'  BY <1>1, <2>1, <2>2 DEF CacheInv
    <2>4. \A u \in Tasks : \A rev \in 0 .. Len(log) : Excused(u, rev) => Excused(u, rev)'
      BY <2>1 DEF Excused, Written
    <2>5. \A u \in Tasks : cache'[u] # cache[u] =>
            \A rev \in 0 .. Len(log) : Excused(u, rev)'
      <3>. SUFFICES ASSUME NEW u \in Tasks, cache'[u] # cache[u], NEW rev \in 0 .. Len(log)
           PROVE  Excused(u, rev)'
        OBVIOUS
      <3>1. \/ u \in external
            \/ \E v \in Writers : wpc[v].at = "written" /\ wpc[v].task = u
        BY <1>1, <2>2 DEF CacheInv
      <3>. QED  BY <2>1, <3>1 DEF Excused, Written
    <2>. QED  BY <2>1, <2>3, <2>4, <2>5, ExcusesKeep
  <1>10. ASSUME NEW t \in Tasks, NEW st \in Pages, EditPage(t, st)  PROVE BlockersInv'
    <2>1. /\ disk' = [disk EXCEPT ![t] = st] /\ cache' = cache /\ log' = log
          /\ external' = external \cup {t} /\ wpc' = wpc
          /\ UNCHANGED <<entryVars, pc, build>>
      BY <1>10 DEF EditPage
    <2>2. CacheInv'  BY <1>1, <2>1 DEF CacheInv
    <2>3. \A u \in Tasks : \A rev \in 0 .. Len(log) : Excused(u, rev) => Excused(u, rev)'
      BY <2>1 DEF Excused, Written
    <2>. QED  BY <2>1, <2>2, <2>3, ExcusesKeep
  <1>11. ASSUME NEW ids \in LiveSets, RefreshSessions(ids)  PROVE BlockersInv'
    <2>1. /\ disk' = disk /\ cache' = cache /\ log' = log
          /\ external' = external /\ wpc' = wpc
          /\ UNCHANGED <<entryVars, pc, build>>
      BY <1>11 DEF RefreshSessions
    <2>2. CacheInv'  BY <1>1, <2>1 DEF CacheInv
    <2>3. \A u \in Tasks : \A rev \in 0 .. Len(log) : Excused(u, rev) => Excused(u, rev)'
      BY <2>1 DEF Excused, Written
    <2>. QED  BY <2>1, <2>2, <2>3, ExcusesKeep
  <1>. QED  BY <1>3, <1>4, <1>5, <1>6, <1>7, <1>8, <1>9, <1>10, <1>11 DEF Sources

-----------------------------------------------------------------------------
(* Blockers: the readers *)

\* A reader's step leaves the sources and the history of edits alone, so the rows that
\* were sound still are; what remains is what the step does to the entry and the builds.
LEMMA ReaderKeeps ==
  ASSUME BlockersInv, UNCHANGED <<sourceVars, wpc, external>>
  PROVE  /\ CacheInv'
         /\ \A q \in Readers :
              /\ pc'[q] = pc[q] /\ build'[q] = build[q] /\ pageRevision' = pageRevision
              => BuildBlockers(q)'
  <1>1. /\ log' = log /\ cache' = cache /\ disk' = disk
        /\ wpc' = wpc /\ external' = external
    BY DEF sourceVars
  <1>2. CacheInv'  BY <1>1 DEF BlockersInv, CacheInv
  <1>3. ASSUME NEW q \in Readers, pc'[q] = pc[q], build'[q] = build[q],
               pageRevision' = pageRevision
        PROVE  BuildBlockers(q)'
    <2>1. BuildBlockers(q)  BY DEF BlockersInv
    <2>2. pc[q] = "publish" => /\ OwnBlockers(build[q].rows)'
                               /\ SoundBlockers(build[q].rows, build[q].startRevision)'
      BY <1>1, <1>3, <2>1
         DEF BuildBlockers, OwnBlockers, SoundBlockers, RightOf, Excused, Written
    <2>3. pc[q] \in {"list", "derive"} /\ build[q].kind = "patch" =>
            \A t \in Tasks : TouchedTo(log, t, pageRevision, build[q].startRevision)
                               => t \in build[q].changed
      BY <2>1 DEF BuildBlockers
    <2>. QED  BY <1>1, <1>3, <2>2, <2>3 DEF BuildBlockers
  <1>. QED  BY <1>2, <1>3

\* A reader's step that leaves the entry alone and only moves its own build.
LEMMA OwnStepBlockers ==
  ASSUME IInv, BlockersInv, NEW p \in Readers,
         UNCHANGED <<sourceVars, wpc, external, entryVars>>,
         \A q \in Readers : q # p => pc'[q] = pc[q] /\ build'[q] = build[q],
         BuildBlockers(p)'
  PROVE  BlockersInv'
  <1>1. /\ rows' = rows /\ hasSnapshot' = hasSnapshot /\ pageRevision' = pageRevision
    BY DEF entryVars
  <1>2. EntryBlockers'
    <2>1. OwnBlockers(rows)' /\ (hasSnapshot => SoundBlockers(rows, pageRevision)')
      <3>1. OwnBlockers(rows) /\ (hasSnapshot => SoundBlockers(rows, pageRevision))
        BY DEF BlockersInv, EntryBlockers
      <3>. HIDE DEF BlockersInv, OwnBlockers, SoundBlockers
      <3>2. OwnBlockers(rows)'  BY <1>1, <3>1 DEF OwnBlockers
      <3>3. hasSnapshot => SoundBlockers(rows, pageRevision)'
        BY <1>1, <3>1 DEF SoundBlockers, RightOf, Excused, Written, sourceVars
      <3>. QED  BY <3>2, <3>3
    <2>. QED  BY <1>1, <2>1 DEF EntryBlockers
  <1>3. \A q \in Readers : BuildBlockers(q)'  BY <1>1, ReaderKeeps
  <1>. QED  BY <1>2, <1>3, ReaderKeeps DEF BlockersInv

\* A patch starts only when every entry since the entry's revision is bounded, so every
\* page touched since is among the changed ones.
LEMMA SinceTouches ==
  ASSUME TypeOK, ChangedPagesSince(pageRevision).ok, NEW t \in Tasks,
         TouchedTo(log, t, pageRevision, Revision)
  PROVE  t \in ChangedPagesSince(pageRevision).names
  <1>1. PICK i \in 1 .. Len(log) :
          i > pageRevision /\ (t \in log[i].names \/ ~log[i].bounded)
    BY DEF TouchedTo
  <1>2. pageRevision \in Nat /\ Len(log) \in Nat  BY DEF TypeOK, Revision
  <1>3. i \in pageRevision + 1 .. Revision  BY <1>1, <1>2 DEF Revision
  <1>4. log[i].bounded  BY <1>3 DEF ChangedPagesSince
  <1>5. ChangedTo(log, t, pageRevision, Revision)  BY <1>1, <1>3, <1>4 DEF ChangedTo, Revision
  <1>. QED  BY <1>5, SinceNames

\* What each kind of build derives: rows whose blockers are those of the status cache,
\* but for what the log touches after the revision the build started from.
LEMMA DerivedBlockers ==
  ASSUME IInv, BlockersInv, NEW p \in Readers, pc[p] = "derive"
  PROVE  /\ OwnBlockers(Derived(build[p]))
         /\ SoundBlockers(Derived(build[p]), build[p].startRevision)
  <1>. DEFINE b == build[p]
              rs == Derived(b)
  <1>1. /\ TypeOK /\ b \in Builds /\ EntryInv /\ ListInv(p)
        /\ EntryBlockers /\ BuildBlockers(p)
    BY DEF IInv, BuildInv, TypeOK, BlockersInv
  <1>2. /\ rows \in [Tasks -> Row] /\ pageRevision \in Nat /\ Len(log) \in Nat
        /\ BlockedBy \in [Tasks -> SUBSET Tasks] /\ b.startRevision \in Nat
    BY <1>1, TaskListAssumption DEF TypeOK, Revision, Builds
  <1>3. ASSUME NEW t \in Tasks
        PROVE  /\ UncompletedBlockers(t) \subseteq BlockedBy[t]
               /\ \A blocker \in BlockedBy[t] :
                    blocker \in UncompletedBlockers(t) <=> cache[blocker] # "completed"
    BY DEF UncompletedBlockers
  <1>4. NoRow.page = "absent" /\ NoRow.blockers = {}  BY DEF NoRow
  <1>5. SUFFICES ASSUME NEW t \in Tasks
        PROVE  /\ rs[t].blockers \subseteq BlockedBy[t]
               /\ \A blocker \in BlockedBy[t] :
                    RightOf(rs[t], blocker) \/ Excused(blocker, b.startRevision)
    BY DEF OwnBlockers, SoundBlockers
  <1>6. ASSUME rs[t] = NoRow \/ rs[t].blockers = UncompletedBlockers(t)
        PROVE  /\ rs[t].blockers \subseteq BlockedBy[t]
               /\ \A blocker \in BlockedBy[t] : RightOf(rs[t], blocker)
    <2>. HIDE DEF rs, b
    <2>1. CASE rs[t] = NoRow  BY <1>4, <2>1 DEF RightOf
    <2>2. CASE rs[t].blockers = UncompletedBlockers(t)  BY <1>3, <2>2 DEF RightOf
    <2>. QED  BY <1>6, <2>1, <2>2
  <1>7. CASE b.kind = "full"
    <2>1. rs[t] = BuiltRow(t, b.items[t])  BY <1>7 DEF Derived, DerivedRow
    <2>. HIDE DEF rs
    <2>. QED  BY <1>6, <2>1 DEF BuiltRow
  <1>8. CASE b.kind = "refresh"
    <2>1. rs[t] = RefreshedRow(t)  BY <1>8 DEF Derived, DerivedRow
    <2>2. /\ hasSnapshot /\ pageRevision = b.startRevision
          /\ rows[t].blockers \subseteq BlockedBy[t]
          /\ \A blocker \in BlockedBy[t] :
               RightOf(rows[t], blocker) \/ Excused(blocker, pageRevision)
      BY <1>1, <1>8 DEF ListInv, EntryBlockers, OwnBlockers, SoundBlockers
    <2>. HIDE DEF rs, b
    <2>3. CASE rows[t] = NoRow  BY <1>6, <2>1, <2>3 DEF RefreshedRow
    <2>4. CASE rows[t] # NoRow
      <3>1. rows[t] \in Row  BY <1>2
      <3>2. rs[t].page = rows[t].page /\ rs[t].blockers = rows[t].blockers
        BY <2>1, <2>4, <3>1 DEF RefreshedRow, Row
      <3>. QED  BY <2>2, <3>2 DEF RightOf
    <2>. QED  BY <2>3, <2>4
  <1>9. CASE b.kind = "patch"
    <2>. DEFINE page == IF t \in b.changed THEN b.items[t] ELSE rows[t].page
    <2>1. rs[t] = PatchedRow(t, b)  BY <1>9 DEF Derived, DerivedRow
    <2>2. /\ hasSnapshot
          /\ rows[t].blockers \subseteq BlockedBy[t]
          /\ \A blocker \in BlockedBy[t] :
               RightOf(rows[t], blocker) \/ Excused(blocker, pageRevision)
          /\ \A u \in Tasks : TouchedTo(log, u, pageRevision, b.startRevision)
                                => u \in b.changed
      BY <1>1, <1>9 DEF ListInv, EntryBlockers, OwnBlockers, SoundBlockers, BuildBlockers
    <2>3. rows[t] \in Row  BY <1>2
    <2>4. CASE page = "absent"
      <3>1. rs[t] = NoRow  BY <2>1, <2>4 DEF PatchedRow
      <3>. HIDE DEF rs, page, b
      <3>. QED  BY <1>6, <3>1
    <2>5. CASE page # "absent" /\ Recomputed(t, b.changed)
      <3>1. rs[t].blockers = UncompletedBlockers(t)
        BY <2>1, <2>3, <2>5 DEF PatchedRow, Row
      <3>. HIDE DEF rs, page, b
      <3>. QED  BY <1>6, <3>1
    <2>6. CASE page # "absent" /\ ~Recomputed(t, b.changed)
      <3>1. /\ t \notin b.changed /\ \A blocker \in BlockedBy[t] : blocker \notin b.changed
        BY <2>6 DEF Recomputed
      <3>2. rs[t].page = rows[t].page /\ rs[t].blockers = rows[t].blockers
        BY <2>1, <2>3, <2>6, <3>1 DEF PatchedRow, Row
      <3>. HIDE DEF rs, page, b
      <3>3. ASSUME NEW blocker \in BlockedBy[t], Excused(blocker, pageRevision)
            PROVE  Excused(blocker, b.startRevision)
        <4>1. blocker \in Tasks  BY <1>2
        <4>2. ~TouchedTo(log, blocker, pageRevision, b.startRevision)
          BY <2>2, <3>1, <4>1
        <4>3. Touched(log, blocker, pageRevision) => Touched(log, blocker, b.startRevision)
          BY <1>2, <4>2 DEF Touched, TouchedTo
        <4>. QED  BY <3>3, <4>3 DEF Excused
      <3>. QED  BY <2>2, <3>2, <3>3 DEF RightOf
    <2>. QED  BY <2>4, <2>5, <2>6
  <1>. QED  BY <1>1, <1>7, <1>8, <1>9 DEF Builds, Kinds

\* Every step of a reader keeps the blockers sound.
LEMMA ReadersBlockers ==
  ASSUME IInv, BlockersInv, NEW p \in Readers,
         BeginList(p) \/ Step(p) \/ FailBuild(p) \/ CancelWait(p)
  PROVE  BlockersInv'
  <1>1. /\ TypeOK /\ build \in [Readers -> Builds] /\ build[p] \in Builds /\ BuildInv(p)
        /\ pc \in [Readers -> {"idle", "loop", "wait", "list", "derive", "publish"}]
    BY DEF IInv, TypeOK
  <1>. USE DEF envVars
  <1>2. ASSUME NEW at \in {"idle", "loop", "wait"}, NEW b \in Builds,
               pc' = [pc EXCEPT ![p] = at], build' = [build EXCEPT ![p] = b],
               UNCHANGED <<sourceVars, entryVars, envVars>>
        PROVE  BlockersInv'
    <2>1. BuildBlockers(p)'  BY <1>1, <1>2 DEF BuildBlockers
    <2>2. \A q \in Readers : q # p => pc'[q] = pc[q] /\ build'[q] = build[q]
      BY <1>1, <1>2
    <2>. QED  BY <1>2, <2>1, <2>2, OwnStepBlockers
  <1>3. CASE ServeRows(p)  BY <1>2, <1>3, NoBuildType DEF ServeRows
  <1>4. CASE JoinBuild(p)
    <2>1. [NoBuild EXCEPT !.on = inflight] \in Builds
      BY <1>1, NoBuildType DEF TypeOK, Builds
    <2>. QED  BY <1>2, <1>4, <2>1 DEF JoinBuild
  <1>5. CASE CancelWait(p)  BY <1>2, <1>5, NoBuildType DEF CancelWait
  <1>6. CASE StartBuild(p)
    <2>. DEFINE since == ChangedPagesSince(pageRevision)
                nb == [NoBuild EXCEPT !.kind = BuildKind, !.startRevision = Revision,
                         !.startGeneration = generation,
                         !.changed = IF BuildKind = "patch" THEN since.names ELSE {}]
                at == IF BuildKind = "refresh" THEN "derive" ELSE "list"
    <2>1. /\ build' = [build EXCEPT ![p] = nb] /\ pc' = [pc EXCEPT ![p] = at]
          /\ UNCHANGED <<sourceVars, entryVars, envVars>>
      BY <1>6 DEF StartBuild
    <2>. HIDE DEF since
    <2>2. /\ nb.kind = BuildKind /\ nb.startRevision = Revision
          /\ nb.changed = IF BuildKind = "patch" THEN since.names ELSE {}
      BY DEF NoBuild
    <2>3. BuildKind = "patch" => since.ok  BY DEF BuildKind, since
    <2>. HIDE DEF nb
    <2>4. /\ pc'[p] = at /\ build'[p] = nb /\ log' = log /\ pageRevision' = pageRevision
      BY <1>1, <2>1 DEF sourceVars, entryVars
    <2>5. BuildBlockers(p)'
      BY <1>1, <2>2, <2>3, <2>4, SinceTouches DEF BuildBlockers, since
    <2>6. \A q \in Readers : q # p => pc'[q] = pc[q] /\ build'[q] = build[q]
      BY <1>1, <2>1
    <2>. QED  BY <2>1, <2>5, <2>6, OwnStepBlockers
  <1>7. CASE ListPages(p)
    <2>1. /\ pc[p] = "list" /\ UNCHANGED <<sourceVars, entryVars, envVars>>
          /\ \/ /\ build' = [build EXCEPT ![p].kind = "full", ![p].changed = {}]
                /\ pc' = pc
             \/ /\ build' = [build EXCEPT ![p].items = pages]
                /\ pc' = [pc EXCEPT ![p] = "derive"]
      BY <1>7 DEF ListPages
    <2>2. \A q \in Readers : q # p => pc'[q] = pc[q] /\ build'[q] = build[q]
      BY <1>1, <2>1
    <2>3. log' = log /\ pageRevision' = pageRevision  BY <2>1 DEF sourceVars, entryVars
    <2>4. CASE build' = [build EXCEPT ![p].kind = "full", ![p].changed = {}] /\ pc' = pc
      <3>1. pc'[p] = "list" /\ build'[p].kind = "full"  BY <1>1, <2>1, <2>4 DEF Builds
      <3>2. BuildBlockers(p)'  BY <3>1 DEF BuildBlockers
      <3>. QED  BY <2>1, <2>2, <3>2, OwnStepBlockers
    <2>5. CASE /\ build' = [build EXCEPT ![p].items = pages]
               /\ pc' = [pc EXCEPT ![p] = "derive"]
      <3>1. /\ pc'[p] = "derive" /\ build'[p].kind = build[p].kind
            /\ build'[p].startRevision = build[p].startRevision
            /\ build'[p].changed = build[p].changed
        BY <1>1, <2>5 DEF Builds
      <3>2. BuildBlockers(p)'
        BY <2>1, <2>3, <3>1 DEF BlockersInv, BuildBlockers
      <3>. QED  BY <2>1, <2>2, <3>2, OwnStepBlockers
    <2>. QED  BY <2>1, <2>4, <2>5
  <1>8. CASE Derive(p)
    <2>. DEFINE rs == Derived(build[p])
    <2>1. /\ pc[p] = "derive" /\ pc' = [pc EXCEPT ![p] = "publish"]
          /\ build' = [build EXCEPT ![p].rows = rs, ![p].items = NoBuild.items,
                                    ![p].changed = {}]
          /\ UNCHANGED <<sourceVars, entryVars, envVars>>
      BY <1>8 DEF Derive
    <2>2. OwnBlockers(rs) /\ SoundBlockers(rs, build[p].startRevision)
      BY <2>1, DerivedBlockers
    <2>. HIDE DEF rs
    <2>3. /\ pc'[p] = "publish" /\ build'[p].rows = rs
          /\ build'[p].startRevision = build[p].startRevision
      BY <1>1, <2>1 DEF Builds
    <2>4. OwnBlockers(build'[p].rows)  BY <2>2, <2>3 DEF OwnBlockers
    <2>5. SoundBlockers(build[p].rows, build[p].startRevision)'
      BY <2>1, <2>2, <2>3 DEF SoundBlockers, RightOf, Excused, Written, sourceVars
    <2>6. BuildBlockers(p)'  BY <2>3, <2>4, <2>5 DEF BuildBlockers, OwnBlockers
    <2>7. \A q \in Readers : q # p => pc'[q] = pc[q] /\ build'[q] = build[q]
      BY <1>1, <2>1
    <2>. QED  BY <2>1, <2>6, <2>7, OwnStepBlockers
  <1>9. ASSUME NEW at \in {"idle", "loop"}, pc' = [q \in Readers |-> Woken(p, q, at)],
               Building(p)
        PROVE  \A q \in Readers : BuildBlockers(q)'
    <2>. SUFFICES ASSUME NEW q \in Readers
         PROVE  pc'[q] \notin {"list", "derive", "publish"}
      BY DEF BuildBlockers
    <2>1. CASE q = p  BY <1>9, <2>1 DEF Woken
    <2>2. CASE q # p
      <3>1. ~Building(q)  BY <1>9, <2>2 DEF IInv, BuildInv, OwnerInv
      <3>. QED  BY <1>9, <2>2, <3>1 DEF Woken, Building
    <2>. QED  BY <2>1, <2>2
  <1>10. CASE Publish(p)
    <2>1. /\ pc[p] = "publish" /\ rows' = build[p].rows /\ hasSnapshot' = TRUE
          /\ pageRevision' = build[p].startRevision
          /\ pc' = [q \in Readers |-> Woken(p, q, "loop")]
          /\ UNCHANGED <<sourceVars, envVars>>
      BY <1>10 DEF Publish, PublishedRevision
    <2>2. OwnBlockers(build[p].rows) /\ SoundBlockers(build[p].rows, build[p].startRevision)
      BY <2>1 DEF BlockersInv, BuildBlockers
    <2>3. OwnBlockers(rows)'  BY <2>1, <2>2 DEF OwnBlockers
    <2>4. SoundBlockers(rows, pageRevision)'
      BY <2>1, <2>2 DEF SoundBlockers, RightOf, Excused, Written, sourceVars
    <2>5. EntryBlockers'  BY <2>3, <2>4 DEF EntryBlockers
    <2>6. \A q \in Readers : BuildBlockers(q)'  BY <1>9, <2>1 DEF Building
    <2>7. CacheInv'  BY <2>1, ReaderKeeps
    <2>. QED  BY <2>5, <2>6, <2>7 DEF BlockersInv
  <1>11. CASE FailBuild(p)
    <2>1. /\ Building(p) /\ pc' = [q \in Readers |-> Woken(p, q, "idle")]
          /\ UNCHANGED <<sourceVars, entryVars, wpc, external>>
      BY <1>11 DEF FailBuild, Building
    <2>2. \A q \in Readers : BuildBlockers(q)'  BY <1>9, <2>1
    <2>3. OwnBlockers(rows)' /\ (hasSnapshot => SoundBlockers(rows, pageRevision)')
      BY <2>1 DEF BlockersInv, EntryBlockers, OwnBlockers, SoundBlockers, RightOf, Excused,
                  Written, sourceVars, entryVars
    <2>4. EntryBlockers'  BY <2>1, <2>3 DEF EntryBlockers, entryVars
    <2>5. CacheInv'  BY <2>1, ReaderKeeps
    <2>. QED  BY <2>2, <2>4, <2>5 DEF BlockersInv
  <1>. QED  BY <1>3, <1>4, <1>5, <1>6, <1>7, <1>8, <1>10, <1>11 DEF BeginList, Step

-----------------------------------------------------------------------------
(* Blockers: the theorem *)

\* Initially every cached status is the file's, and there are no rows.
LEMMA InitBlockers == Init => BlockersInv
  <1>. SUFFICES ASSUME Init PROVE BlockersInv  OBVIOUS
  <1>1. CacheInv  BY DEF Init, CacheInv
  <1>2. EntryBlockers  BY DEF Init, EntryBlockers, OwnBlockers, NoRow
  <1>3. \A p \in Readers : BuildBlockers(p)  BY DEF Init, BuildBlockers
  <1>. QED  BY <1>1, <1>2, <1>3 DEF BlockersInv

\* Every step keeps the rows' blockers sound.
LEMMA NextBlockers == IInv /\ BlockersInv /\ [Next]_vars => BlockersInv'
  <1>. SUFFICES ASSUME IInv, BlockersInv, [Next]_vars PROVE BlockersInv'  OBVIOUS
  <1>1. CASE Sources  BY <1>1, SourcesBlockers
  <1>2. ASSUME NEW p \in Readers,
               BeginList(p) \/ Step(p) \/ FailBuild(p) \/ CancelWait(p)
        PROVE  BlockersInv'
    BY <1>2, ReadersBlockers
  <1>3. CASE UNCHANGED vars
    <2>1. CacheInv'
      BY <1>3, ReaderKeeps DEF vars, envVars
    <2>2. EntryBlockers'
      BY <1>3 DEF vars, envVars, sourceVars, entryVars, BlockersInv, EntryBlockers,
                  OwnBlockers, SoundBlockers, RightOf, Excused, Written
    <2>3. \A p \in Readers : BuildBlockers(p)'
      BY <1>3, ReaderKeeps DEF vars, envVars, entryVars
    <2>. QED  BY <2>1, <2>2, <2>3 DEF BlockersInv
  <1>. QED  BY <1>1, <1>2, <1>3 DEF Next

\* The rows that List serves without a build show as blockers exactly the uncompleted
\* ones, for every blocking task that only the board writes and once its writers are
\* idle: for any tasks, blocked_by lists, writers, handlers and interleavings.
THEOREM ListBlockersCurrent == Spec => []WrittenBlockersCurrent
  <1>1. IInv /\ BlockersInv => WrittenBlockersCurrent
    <2>. SUFFICES ASSUME IInv, BlockersInv, ~PageMoved, ~SessionMoved,
                         \A w \in Writers : wpc[w].at = "idle",
                         NEW t \in Tasks, BlockedBy[t] \cap external = {},
                         rows[t].page # "absent"
         PROVE  rows[t].blockers = UncompletedBlockers(t)
      BY DEF WrittenBlockersCurrent, ShowsBlockers
    <2>1. hasSnapshot /\ pageRevision = Len(log) /\ Len(log) \in Nat
      BY DEF PageMoved, Revision, IInv, TypeOK
    <2>2. /\ rows[t].blockers \subseteq BlockedBy[t]
          /\ \A blocker \in BlockedBy[t] :
               RightOf(rows[t], blocker) \/ Excused(blocker, pageRevision)
      BY <2>1 DEF BlockersInv, EntryBlockers, OwnBlockers, SoundBlockers
    <2>3. \A blocker \in BlockedBy[t] : ~Excused(blocker, pageRevision)
      BY <2>1 DEF Excused, Touched, Written
    <2>4. \A blocker \in BlockedBy[t] :
            blocker \in rows[t].blockers <=> cache[blocker] # "completed"
      BY <2>2, <2>3 DEF RightOf
    <2>. QED  BY <2>2, <2>4 DEF UncompletedBlockers
  <1>2. IInv /\ BlockersInv /\ [Next]_vars => (IInv /\ BlockersInv)'
    BY NextInv, NextBlockers
  <1>. QED  BY <1>1, <1>2, InitInv, InitBlockers, PTL DEF Spec
==============================================================================
