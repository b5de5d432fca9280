------------------------------ MODULE PageIndex ------------------------------
(***************************************************************************)
(* The page index of one vault folder (pkg/pageindex): an in-memory        *)
(* snapshot of the folder's parsed pages, kept up to date by per-file      *)
(* reads, stat-diffs, cold builds and forced reloads that run on the       *)
(* goroutines of their callers, one build at a time per key, and persisted *)
(* in an on-disk store that seeds the first stat-diff after a restart.     *)
(*                                                                         *)
(* A step is one critical section of the index mutex or one I/O call made  *)
(* between two of them.  A file is the history of its on-disk states; its  *)
(* version is the length of that history, and the fingerprint a stat       *)
(* returns is that version.  A parsed page is the version it was read at.  *)
(***************************************************************************)
EXTENDS Integers, Sequences, FiniteSets

CONSTANTS Files,        \* base filenames of the folder
          Readers,      \* goroutines calling ListPages or Build
          Refreshers,   \* goroutines calling Refresh: the rescan loop
          Watchers,     \* goroutines calling RefreshFile: watcher events
          Writers,      \* goroutines calling MarkFileDirty: queued writes
          None,         \* no goroutine
          UseStore,     \* is the index constructed with a store?
          MaxChangeLog, \* retained revision advances
          FolderMarks,  \* are folder-level marks and forced reloads issued?
          FaultKinds,   \* the I/O calls that may fail
          EditStates,   \* the states external edits put a file into
          MaxVersion,   \* bound: versions of one file
          MaxRequests,  \* bound: refreshes, marks and reloads per process life
          MaxEvents,    \* bound: watcher events
          MaxFaults,    \* bound: failing I/O calls
          MaxCrashes    \* bound: process restarts

Procs == Readers \cup Refreshers \cup Watchers \cup Writers

ASSUME PageIndexAssumption ==
  /\ None \notin Procs
  /\ Readers \cap (Refreshers \cup Watchers \cup Writers) = {}
  /\ Refreshers \cap (Watchers \cup Writers) = {}
  /\ Watchers \cap Writers = {}
  /\ UseStore \in BOOLEAN /\ FolderMarks \in BOOLEAN
  /\ MaxChangeLog \in Nat \ {0}
  /\ FaultKinds \subseteq {"load", "list", "read", "persist"}
  /\ EditStates \subseteq {"page", "broken", "gone"}
  /\ MaxVersion \in Nat \ {0}
  /\ {MaxRequests, MaxEvents, MaxFaults, MaxCrashes} \subseteq Nat

\* A folder has finitely many files.
ASSUME FilesAssumption == IsFiniteSet(Files)

VARIABLES
  disk,                 \* the file system: each file's history of states
  store, bucket,        \* the on-disk store's entries; does the key's bucket exist?
  known,                \* does the index hold an entry for the key?
  snapshot, hasSnapshot, fingerprints, fileReadSeq, revision, changeLog,
  storeLoaded, storedBaseline,
  requestSeq, dirtySeq, dirtyResolvedSeq, reloadSeq, reloadResolvedSeq,
  writeMarked,
  readSeq,
  inflight, followUp,   \* the goroutine that owns the running / queued build
  pc, call, build, rd,  \* per goroutine: position, ensure's locals, the build
                        \* it owns, the single-file read it is making
  events, faults, crashes,   \* used-up bounds
  seenFloor, markFloor  \* history variables, read by the properties only

diskVars  == <<disk, store, bucket>>
pageVars  == <<snapshot, hasSnapshot, fingerprints, fileReadSeq, revision, changeLog>>
loadVars  == <<known, storeLoaded, storedBaseline>>
markVars  == <<requestSeq, dirtySeq, dirtyResolvedSeq, reloadSeq,
               reloadResolvedSeq, writeMarked>>
slotVars  == <<inflight, followUp>>
procVars  == <<pc, call, build, rd>>
boundVars == <<events, faults, crashes>>
floorVars == <<seenFloor, markFloor>>
vars == <<diskVars, pageVars, loadVars, markVars, readSeq, slotVars, procVars,
          boundVars, floorVars>>

-----------------------------------------------------------------------------
(* Values *)

States == {"page", "broken", "gone"}  \* parses; does not parse; not there
Kinds  == {"cold", "statdiff", "filereads", "reload", "hydrate"}

NoPage == 0      \* a file the snapshot holds no page for
NoFp   == -1     \* a name with no recorded fingerprint
ZeroFp == 0      \* FileFingerprint{}: the stat failed

Version(f)   == Len(disk[f])
Now(f)       == disk[f][Version(f)]
PageAt(f, v) == IF disk[f][v] = "page" THEN v ELSE NoPage
Stat(f)      == IF Now(f) = "gone" THEN ZeroFp ELSE Version(f)

NoEntry   == [fp |-> NoFp, page |-> NoPage]
NoRead    == [seq |-> 0, fp |-> NoFp, page |-> NoPage]
NoDelta   == [f \in Files |-> [op |-> "keep", fp |-> NoFp, page |-> NoPage]]
Put(r)    == [op |-> "put", fp |-> r.fp, page |-> r.page]
Delete    == [op |-> "delete", fp |-> NoFp, page |-> NoPage]

NoCall  == [need |-> 0, want |-> 0, first |-> TRUE, on |-> None,
            pages |-> [f \in Files |-> NoPage], ok |-> TRUE,
            floor |-> [f \in Files |-> 1]]
NoBuild == [kind |-> "cold", startSeq |-> 0, full |-> FALSE, forced |-> {},
            listingSeq |-> 0, names |-> {}, fps |-> [f \in Files |-> NoFp],
            todo |-> {}, reads |-> [f \in Files |-> NoRead], delta |-> NoDelta,
            pages |-> [f \in Files |-> NoPage], err |-> FALSE]
NoFileRead == [file |-> None, seq |-> 0, fp |-> NoFp, page |-> NoPage, from |-> 0]

Later(a, b) == IF a >= b THEN a ELSE b

\* ensure(refresh = true) is called by Refresh, and by RefreshFile of a cold key.
IsRefresh(p) == p \notin Readers

\* A fault budget: the call named by kind fails.
Fault(kind) == /\ kind \in FaultKinds
               /\ faults < MaxFaults
               /\ faults' = faults + 1

-----------------------------------------------------------------------------
(* The revision and its change log *)

\* Mutant: the change log is never trimmed.
RecordChangeUntrimmed(names, bounded) ==
  /\ revision' = revision + 1
  /\ changeLog' = Append(changeLog, [rev |-> revision + 1, names |-> names,
                                     bounded |-> bounded])

\* recordChangeLocked, with the revision++ that precedes every call of it.
RecordChange(names, bounded) ==
  LET log == Append(changeLog, [rev |-> revision + 1, names |-> names,
                                bounded |-> bounded])
  IN /\ revision' = revision + 1
     /\ changeLog' = IF Len(log) > MaxChangeLog
                       THEN SubSeq(log, Len(log) - MaxChangeLog + 1, Len(log))
                       ELSE log

\* ChangedPagesSince: ok is FALSE when the pages changed after rev cannot be bounded.
ChangedPagesSince(rev) ==
  LET after == {i \in DOMAIN changeLog : changeLog[i].rev > rev}
      retained == changeLog # <<>> /\ changeLog[1].rev <= rev + 1
      ok == /\ known
            /\ rev <= revision
            /\ rev < revision => retained /\ \A i \in after : changeLog[i].bounded
  IN [ok |-> ok, names |-> IF ok THEN UNION {changeLog[i].names : i \in after} ELSE {}]

-----------------------------------------------------------------------------
(* Marks *)

\* markFolderDirtyLocked; a key the index has never seen ignores the mark.
MarkFolder ==
  IF known
    THEN /\ requestSeq' = requestSeq + 1
         /\ dirtySeq' = requestSeq + 1
         /\ RecordChange({}, FALSE)
    ELSE UNCHANGED <<requestSeq, dirtySeq, revision, changeLog>>

CanRequest == requestSeq < MaxRequests

\* MarkDirty, called by the synchronous write routes after their write.
MarkDirty ==
  /\ FolderMarks /\ CanRequest
  /\ MarkFolder
  /\ markFloor' = [f \in Files |-> Version(f)]
  /\ UNCHANGED <<diskVars, snapshot, hasSnapshot, fingerprints, fileReadSeq, loadVars,
                 dirtyResolvedSeq, reloadSeq, reloadResolvedSeq, writeMarked,
                 readSeq, slotVars, procVars, boundVars, seenFloor>>

\* ForceReload, called by POST /api/cache/reload.
ForceReload ==
  /\ FolderMarks /\ CanRequest /\ known
  /\ requestSeq' = requestSeq + 1
  /\ reloadSeq' = requestSeq + 1
  /\ RecordChange({}, FALSE)
  /\ markFloor' = [f \in Files |-> Version(f)]
  /\ UNCHANGED <<diskVars, snapshot, hasSnapshot, fingerprints, fileReadSeq, loadVars,
                 dirtySeq, dirtyResolvedSeq, reloadResolvedSeq, writeMarked,
                 readSeq, slotVars, procVars, boundVars, seenFloor>>

\* MarkFileDirty's first critical section: is the name exact?
BeginMarkFile(p, f) ==
  /\ pc[p] = "idle" /\ CanRequest
  /\ pc' = [pc EXCEPT ![p] = IF hasSnapshot /\ snapshot[f] # NoPage
                               THEN "markfile" ELSE "markfolder"]
  /\ rd' = [rd EXCEPT ![p].file = f]
  /\ UNCHANGED <<diskVars, pageVars, loadVars, markVars, readSeq, slotVars, call,
                 build, boundVars, floorVars>>

\* Its os.Stat and second critical section: a mark of the one file.
EndMarkFile(p) ==
  LET f == rd[p].file IN
  /\ pc[p] = "markfile"
  /\ Now(f) # "gone"
  /\ known' = TRUE
  /\ requestSeq' = requestSeq + 1
  /\ writeMarked' = [writeMarked EXCEPT ![f] = requestSeq + 1]
  /\ RecordChange({f}, TRUE)
  /\ markFloor' = [markFloor EXCEPT ![f] = Version(f)]
  /\ pc' = [pc EXCEPT ![p] = "idle"]
  /\ rd' = [rd EXCEPT ![p] = NoFileRead]
  /\ UNCHANGED <<diskVars, snapshot, hasSnapshot, fingerprints, fileReadSeq,
                 storeLoaded, storedBaseline, dirtySeq, dirtyResolvedSeq, reloadSeq,
                 reloadResolvedSeq, readSeq, slotVars, call, build, boundVars,
                 seenFloor>>

\* Its widening to a folder-level mark when the name is not exact.
WidenMarkFile(p) ==
  LET f == rd[p].file IN
  /\ \/ pc[p] = "markfolder"
     \/ pc[p] = "markfile" /\ Now(f) = "gone"
  /\ MarkFolder
  /\ markFloor' = [markFloor EXCEPT ![f] = Version(f)]
  /\ pc' = [pc EXCEPT ![p] = "idle"]
  /\ rd' = [rd EXCEPT ![p] = NoFileRead]
  /\ UNCHANGED <<diskVars, snapshot, hasSnapshot, fingerprints, fileReadSeq, loadVars,
                 dirtyResolvedSeq, reloadSeq, reloadResolvedSeq, writeMarked,
                 readSeq, slotVars, call, build, boundVars, seenFloor>>

-----------------------------------------------------------------------------
(* ensure: what a caller of ListPages, Build or Refresh waits for *)

\* Mutant: a build that is under way covers requests made after it started.
CoversLaterRequests(k, startSeq, kind, need) ==
  \/ k \in {"cold", "reload"}
  \/ k = "hydrate" /\ kind \in {"cold", "statdiff", "hydrate"}
  \/ k \in {"filereads", "statdiff"} /\ kind = k

\* build.covers: does a build of kind k, started at startSeq, resolve work of the
\* given kind recorded at need?
Covers(k, startSeq, kind, need) ==
  /\ startSeq >= need
  /\ \/ k \in {"cold", "reload"}
     \/ k = "hydrate" /\ kind \in {"cold", "statdiff", "hydrate"}
     \/ k \in {"filereads", "statdiff"} /\ kind = k

\* Mutant: a reader does not wait for the re-read that took a file's mark.
FileReadsNeverInflight == FALSE

FileReadsInflight ==
  \E p \in Procs : p \in {inflight, followUp} /\ build[p].kind = "filereads"

MarkedFiles  == {f \in Files : writeMarked[f] > 0}
MaxMarkedSeq == CHOOSE s \in {writeMarked[f] : f \in MarkedFiles} :
                  \A f \in MarkedFiles : writeMarked[f] <= s

\* pendingLocked: the work the key needs next, in priority order.
Pending(refresh) ==
  CASE ~hasSnapshot /\ UseStore /\ ~storeLoaded ->
         [any |-> TRUE, kind |-> "hydrate", need |-> requestSeq]
    [] ~hasSnapshot /\ (~UseStore \/ storeLoaded) ->
         [any |-> TRUE, kind |-> "cold", need |-> requestSeq]
    [] hasSnapshot /\ refresh ->
         [any |-> TRUE, kind |-> "statdiff", need |-> requestSeq]
    [] OTHER ->
         IF reloadSeq > reloadResolvedSeq
           THEN [any |-> TRUE, kind |-> "reload", need |-> reloadSeq]
         ELSE IF MarkedFiles # {}
           THEN [any |-> TRUE, kind |-> "filereads", need |-> MaxMarkedSeq]
         ELSE IF FileReadsInflight
           THEN [any |-> TRUE, kind |-> "filereads", need |-> 0]
         ELSE [any |-> dirtySeq > dirtyResolvedSeq, kind |-> "statdiff",
               need |-> dirtySeq]

\* ensure's first critical section, for ListPages and Build ...
BeginList(p) ==
  /\ pc[p] = "idle"
  /\ known' = TRUE
  /\ pc' = [pc EXCEPT ![p] = "loop"]
  /\ call' = [call EXCEPT ![p] = [NoCall EXCEPT !.need = requestSeq, !.floor = markFloor]]
  /\ UNCHANGED <<diskVars, pageVars, storeLoaded, storedBaseline, markVars, readSeq,
                 slotVars, build, rd, boundVars, floorVars>>

\* ... and for Refresh, which asks for a listing that starts after this call.
EnterRefresh(p, floor) ==
  /\ known' = TRUE
  /\ requestSeq' = requestSeq + 1
  /\ pc' = [pc EXCEPT ![p] = "loop"]
  /\ call' = [call EXCEPT ![p] = [NoCall EXCEPT !.need = requestSeq + 1,
                                                  !.floor = floor]]
  /\ UNCHANGED <<diskVars, pageVars, storeLoaded, storedBaseline, dirtySeq,
                 dirtyResolvedSeq, reloadSeq, reloadResolvedSeq, writeMarked, readSeq,
                 slotVars, build, rd, floorVars>>

BeginRefresh(p) ==
  /\ pc[p] = "idle" /\ CanRequest
  /\ EnterRefresh(p, [f \in Files |-> Version(f)])
  /\ UNCHANGED boundVars

\* The head of ensure's loop finds nothing (more) to wait for and returns: the
\* current snapshot on the first turn, the last build's pages afterwards.
Serve(p) ==
  LET w == Pending(IsRefresh(p)) IN
  /\ pc[p] = "loop"
  /\ ~w.any \/ (~call[p].first /\ w.need > call[p].need)
  /\ pc' = [pc EXCEPT ![p] = "return"]
  /\ call' = [call EXCEPT ![p] = [NoCall EXCEPT
                 !.pages = IF call[p].first THEN snapshot ELSE call[p].pages,
                 !.floor = call[p].floor]]
  /\ UNCHANGED <<diskVars, pageVars, loadVars, markVars, readSeq, slotVars, build, rd,
                 boundVars, floorVars>>

\* Otherwise acquireLocked joins the running build, joins or queues the follow-up,
\* or starts a build of its own.
Acquire(p) ==
  LET w == Pending(IsRefresh(p))
      joins == inflight # None /\ Covers(build[inflight].kind, build[inflight].startSeq,
                                         w.kind, w.need)
      On(q) == [call EXCEPT ![p].on = q, ![p].want = w.need]
      Own   == [build EXCEPT ![p] = [NoBuild EXCEPT !.kind = w.kind,
                                                    !.startSeq = requestSeq]]
  IN
  /\ pc[p] = "loop"
  /\ w.any /\ (call[p].first \/ w.need <= call[p].need)
  /\ \/ /\ joins
        /\ call' = On(inflight)
        /\ pc' = [pc EXCEPT ![p] = "wait"]
        /\ UNCHANGED <<slotVars, build>>
     \/ /\ ~joins /\ followUp # None
        /\ call' = On(followUp)
        /\ pc' = [pc EXCEPT ![p] = "wait"]
        /\ UNCHANGED <<slotVars, build>>
     \/ /\ ~joins /\ followUp = None /\ inflight # None
        /\ followUp' = p
        /\ build' = Own
        /\ call' = On(p)
        /\ pc' = [pc EXCEPT ![p] = "queued"]
        /\ UNCHANGED inflight
     \/ /\ ~joins /\ followUp = None /\ inflight = None
        /\ inflight' = p
        /\ build' = Own
        /\ call' = On(p)
        /\ pc' = [pc EXCEPT ![p] = "start"]
        /\ UNCHANGED followUp
  /\ UNCHANGED <<diskVars, pageVars, loadVars, markVars, readSeq, rd, boundVars,
                 floorVars>>

\* After await: a failed build ends the call (ListPages then serves whatever snapshot
\* is published, or the error); a covered refresh returns; everybody else goes round
\* the loop again.
Covered(q, b) == Covers(b.kind, b.startSeq, "statdiff", call[q].want)
Returns(q, b) == b.err \/ (IsRefresh(q) /\ Covered(q, b))
Awaited(q, b, pages) ==
  IF Returns(q, b)
    THEN [NoCall EXCEPT !.pages = pages, !.ok = ~b.err, !.floor = call[q].floor]
    ELSE [NoCall EXCEPT !.pages = pages, !.need = call[q].need, !.first = FALSE,
                        !.floor = call[q].floor]
AfterAwait(c) == IF c.first THEN "return" ELSE "loop"

\* Mutant: a cancelled caller abandons the follow-up it has queued.
CancelQueued(p) ==
  /\ pc[p] \in {"wait", "queued"}
  /\ pc' = [pc EXCEPT ![p] = "idle"]
  /\ call' = [call EXCEPT ![p] = NoCall]
  /\ UNCHANGED <<diskVars, pageVars, loadVars, markVars, readSeq, slotVars, build, rd,
                 boundVars, floorVars>>

\* The caller's context is cancelled: a waiter gives up.  An owner finishes its build
\* first and then returns without the pages, which differs from Return in nothing
\* the index keeps.
Cancel(p) ==
  /\ pc[p] = "wait"
  /\ pc' = [pc EXCEPT ![p] = "idle"]
  /\ call' = [call EXCEPT ![p] = NoCall]
  /\ UNCHANGED <<diskVars, pageVars, loadVars, markVars, readSeq, slotVars, build, rd,
                 boundVars, floorVars>>

\* A RefreshFile that found a cold key has refreshed the folder instead.
Return(p) ==
  /\ pc[p] = "return"
  /\ pc' = [pc EXCEPT ![p] = "idle"]
  /\ call' = [call EXCEPT ![p] = NoCall]
  /\ seenFloor' = IF p \in Watchers /\ call[p].ok
                    THEN [f \in Files |-> Later(seenFloor[f], call[p].floor[f])]
                    ELSE seenFloor
  /\ UNCHANGED <<diskVars, pageVars, loadVars, markVars, readSeq, slotVars, build, rd,
                 boundVars, markFloor>>

-----------------------------------------------------------------------------
(* execute: listings *)

\* executeHydrate's load and seed.  A store without entries for the key, or one
\* that cannot be read, leaves the key on the full-parse path.
Hydrate(p) ==
  /\ pc[p] = "start" /\ build[p].kind = "hydrate"
  /\ \/ /\ bucket
        /\ snapshot' = [f \in Files |-> store[f].page]
        /\ fingerprints' = [f \in Files |-> store[f].fp]
        /\ storedBaseline' = TRUE
        /\ UNCHANGED faults
     \/ /\ ~bucket
        /\ UNCHANGED <<snapshot, fingerprints, storedBaseline, faults>>
     \/ /\ Fault("load")
        /\ UNCHANGED <<snapshot, fingerprints, storedBaseline>>
  /\ storeLoaded' = TRUE
  /\ pc' = [pc EXCEPT ![p] = "seeded"]
  /\ UNCHANGED <<diskVars, hasSnapshot, fileReadSeq, revision, changeLog, known,
                 markVars, readSeq, slotVars, call, build, rd, events, crashes,
                 floorVars>>

\* executeListing's first critical section: the marks this listing resolves are
\* taken out, and forced to be re-read when it does not re-read everything.  The
\* listing's read sequence is taken right after it: whatever comes between the two
\* commutes with one of them.
StartListing(p) ==
  LET full == build[p].kind \in {"cold", "reload"} \/ ~(hasSnapshot \/ storedBaseline)
  IN
  /\ \/ pc[p] = "start" /\ build[p].kind \notin {"hydrate", "filereads"}
     \/ pc[p] = "seeded"
  /\ build' = [build EXCEPT ![p].startSeq = requestSeq, ![p].full = full,
                            ![p].forced = IF full THEN {} ELSE MarkedFiles,
                            ![p].listingSeq = readSeq + 1]
  /\ writeMarked' = [f \in Files |-> 0]
  /\ readSeq' = readSeq + 1
  /\ pc' = [pc EXCEPT ![p] = "readdir"]
  /\ UNCHANGED <<diskVars, pageVars, loadVars, requestSeq, dirtySeq, dirtyResolvedSeq,
                 reloadSeq, reloadResolvedSeq, slotVars, call, rd, boundVars, floorVars>>

\* ListFiles: the names, then the fingerprint of each.
ReadDir(p) ==
  /\ pc[p] = "readdir"
  /\ build' = [build EXCEPT ![p].names = {f \in Files : Now(f) # "gone"}]
  /\ pc' = [pc EXCEPT ![p] = "statdir"]
  /\ UNCHANGED <<diskVars, pageVars, loadVars, markVars, readSeq, slotVars, call, rd,
                 boundVars, floorVars>>

StatDir(p) ==
  /\ pc[p] = "statdir"
  /\ build' = [build EXCEPT ![p].fps = [f \in Files |->
                 IF f \in build[p].names THEN Stat(f) ELSE NoFp]]
  /\ pc' = [pc EXCEPT ![p] = "diff"]
  /\ UNCHANGED <<diskVars, pageVars, loadVars, markVars, readSeq, slotVars, call, rd,
                 boundVars, floorVars>>

Recorded == {f \in Files : fingerprints[f] # NoFp}

\* Mutant: a stat-diff reads the files without a recorded fingerprint only.
ToReadNew(b) == {f \in b.names : f \in b.forced \/ fingerprints[f] = NoFp}

\* Which listed files a listing that is not full re-reads.
ToRead(b) == {f \in b.names : f \in b.forced \/ fingerprints[f] # b.fps[f]}

\* Mutant: a listing resolves the marks made until its end.
ResolvedSeqAtEnd(b) == requestSeq

\* A successful listing resolves the marks made before it started.
ResolvedSeq(b) == b.startSeq

\* The comparison: an unchanged pass publishes nothing and resolves its mark.
Diff(p) ==
  LET b == build[p]
      todo == IF b.full THEN b.names ELSE ToRead(b)
      unchanged == /\ ~b.full /\ b.forced = {} /\ todo = {} /\ hasSnapshot
                   /\ Cardinality(b.names) = Cardinality(Recorded)
  IN
  /\ pc[p] = "diff"
  /\ \/ /\ unchanged
        /\ build' = [build EXCEPT ![p].pages = snapshot]
        /\ dirtyResolvedSeq' = ResolvedSeq(b)
        /\ pc' = [pc EXCEPT ![p] = "release"]
     \/ /\ ~unchanged
        /\ build' = [build EXCEPT ![p].todo = todo, ![p].forced = {},
                                  ![p].fps = NoBuild.fps]
        /\ pc' = [pc EXCEPT ![p] = IF todo = {} THEN "merge" ELSE "collect"]
        /\ UNCHANGED dirtyResolvedSeq
  /\ UNCHANGED <<diskVars, pageVars, loadVars, requestSeq, dirtySeq, reloadSeq,
                 reloadResolvedSeq, writeMarked, readSeq, slotVars, call, rd, boundVars,
                 floorVars>>

\* failListing: the listing, or the collection of its reads, fails.
FailListing(p) ==
  /\ \/ pc[p] = "readdir"
     \/ pc[p] = "collect" /\ build[p].kind # "filereads"
  /\ Fault("list")
  /\ build' = [build EXCEPT ![p].err = TRUE]
  /\ IF storedBaseline
       THEN /\ snapshot' = [f \in Files |-> NoPage]
            /\ fingerprints' = [f \in Files |-> NoFp]
            /\ hasSnapshot' = FALSE
       ELSE UNCHANGED <<snapshot, fingerprints, hasSnapshot>>
  /\ storedBaseline' = FALSE
  /\ pc' = [pc EXCEPT ![p] = "release"]
  /\ UNCHANGED <<diskVars, fileReadSeq, revision, changeLog, known, storeLoaded,
                 markVars, readSeq, slotVars, call, rd, events, crashes, floorVars>>

\* Mutants: a listing's read is applied over a later-started read of the same file;
\* an unlisted page goes although it was read after the listing started.
AppliedAlways(b, f) == f \in b.names /\ b.reads[f].seq > 0
GoneAlways(b, f) == f \notin b.names

\* snapshotMerge: the listing's own read of f is applied unless a later-started
\* read of f has been; an unlisted page goes unless its read started after the
\* listing did; a recorded name neither listed nor published is pruned.
Applied(b, f) == /\ f \in b.names /\ b.reads[f].seq > 0
                 /\ b.reads[f].seq >= fileReadSeq[f]
Gone(b, f)    == /\ f \notin b.names
                 /\ snapshot[f] # NoPage => b.listingSeq > fileReadSeq[f]
Dropped(b, f) == Gone(b, f) /\ fingerprints[f] > ZeroFp

MergedPages(b) ==
  [f \in Files |-> IF Applied(b, f) THEN b.reads[f].page
                   ELSE IF Gone(b, f) THEN NoPage ELSE snapshot[f]]

\* Mutant: an unlisted name loses its fingerprint even if its page is kept.
MergedListedFingerprints(b) ==
  [f \in Files |-> IF Applied(b, f) THEN b.reads[f].fp
                   ELSE IF f \notin b.names THEN NoFp ELSE fingerprints[f]]

MergedFingerprints(b) ==
  [f \in Files |-> IF Applied(b, f) THEN b.reads[f].fp
                   ELSE IF Gone(b, f) THEN NoFp ELSE fingerprints[f]]

ListingDelta(b) ==
  [f \in Files |-> IF b.reads[f].seq > 0 THEN Put(b.reads[f])
                   ELSE IF Dropped(b, f) THEN Delete ELSE NoDelta[f]]

\* Mutant: a listing reports the files it re-read and not those it dropped.
ListingReadNames(b) ==
  IF b.full THEN {} ELSE {f \in Files : ListingDelta(b)[f].op = "put"}

ListingChangedNames(b) ==
  IF b.full THEN {} ELSE {f \in Files : ListingDelta(b)[f].op # "keep"}

\* executeListing's last critical section: merge, publish if the pages moved (a
\* re-read page is a new one even when it parses the same) and resolve the marks.
Merge(p) ==
  LET b == build[p]
      pages == MergedPages(b)
      moved == \/ ~hasSnapshot \/ pages # snapshot
               \/ \E f \in Files : Applied(b, f) /\ b.reads[f].page # NoPage
  IN
  /\ pc[p] = "merge"
  /\ snapshot' = pages
  /\ fingerprints' = MergedFingerprints(b)
  /\ fileReadSeq' = [f \in Files |-> IF Applied(b, f) THEN b.reads[f].seq
                                     ELSE fileReadSeq[f]]
  /\ IF moved THEN RecordChange(ListingChangedNames(b), ~b.full /\ hasSnapshot)
              ELSE UNCHANGED <<revision, changeLog>>
  /\ hasSnapshot' = TRUE
  /\ storedBaseline' = FALSE
  /\ dirtyResolvedSeq' = ResolvedSeq(b)
  /\ reloadResolvedSeq' = IF b.full THEN ResolvedSeq(b) ELSE reloadResolvedSeq
  /\ build' = [build EXCEPT ![p].pages = pages, ![p].delta = ListingDelta(b)]
  /\ pc' = [pc EXCEPT ![p] = "release"]
  /\ UNCHANGED <<diskVars, known, storeLoaded, requestSeq, dirtySeq, reloadSeq,
                 writeMarked, readSeq, slotVars, call, rd, boundVars, floorVars>>

-----------------------------------------------------------------------------
(* execute: single-file reads *)

\* writeThrough has something to write only for an index with a store.
Saves(delta) == UseStore /\ delta # NoDelta
Saved(delta) == IF Saves(delta) THEN delta ELSE NoDelta

\* executeFileReads' first critical section takes the marks out.
StartFileReads(p) ==
  /\ pc[p] = "start" /\ build[p].kind = "filereads"
  /\ build' = [build EXCEPT ![p].startSeq = requestSeq, ![p].todo = MarkedFiles]
  /\ writeMarked' = [f \in Files |-> 0]
  /\ pc' = [pc EXCEPT ![p] = IF MarkedFiles = {} THEN "release" ELSE "collect"]
  /\ UNCHANGED <<diskVars, pageVars, loadVars, requestSeq, dirtySeq, dirtyResolvedSeq,
                 reloadSeq, reloadResolvedSeq, readSeq, slotVars, call, rd, boundVars,
                 floorVars>>

\* collect and executeFileReads read one file after the other, each in its turn
\* taking a read sequence, ...
NextFile(p, f) ==
  /\ pc[p] = "collect" /\ f \in build[p].todo
  /\ readSeq' = readSeq + 1
  /\ rd' = [rd EXCEPT ![p].file = f, ![p].seq = readSeq + 1]
  /\ build' = [build EXCEPT ![p].todo = @ \ {f}]
  /\ pc' = [pc EXCEPT ![p] = "stat"]
  /\ UNCHANGED <<diskVars, pageVars, loadVars, markVars, slotVars, call, boundVars,
                 floorVars>>

IsListing(p) == inflight = p /\ build[p].kind # "filereads"

\* A finished read: a listing keeps it for its merge, anybody else applies it next.
Deliver(p, r) ==
  IF IsListing(p)
    THEN /\ build' = [build EXCEPT ![p].reads[r.file] =
                        [seq |-> r.seq, fp |-> r.fp, page |-> r.page]]
         /\ rd' = [rd EXCEPT ![p] = NoFileRead]
         /\ pc' = [pc EXCEPT ![p] = IF build[p].todo = {} THEN "merge" ELSE "collect"]
    ELSE /\ rd' = [rd EXCEPT ![p] = r]
         /\ pc' = [pc EXCEPT ![p] = "apply"]
         /\ UNCHANGED build

\* ... taking the file's fingerprint first ...
StatFile(p) ==
  LET fp == Stat(rd[p].file) IN
  /\ pc[p] = "stat"
  /\ IF fp = ZeroFp
       THEN Deliver(p, [rd[p] EXCEPT !.fp = ZeroFp])
       ELSE /\ rd' = [rd EXCEPT ![p].fp = fp]
            /\ pc' = [pc EXCEPT ![p] = "read"]
            /\ UNCHANGED build
  /\ UNCHANGED <<diskVars, pageVars, loadVars, markVars, readSeq, slotVars, call,
                 boundVars, floorVars>>

\* ... and then reading and parsing it: a page that cannot be read is excluded.
ReadFile(p) ==
  LET f == rd[p].file IN
  /\ pc[p] = "read"
  /\ \/ Deliver(p, [rd[p] EXCEPT !.page = PageAt(f, Version(f))]) /\ UNCHANGED faults
     \/ Deliver(p, rd[p]) /\ Fault("read")
  /\ UNCHANGED <<diskVars, pageVars, loadVars, markVars, readSeq, slotVars, call,
                 events, crashes, floorVars>>

\* Mutant: the fingerprint is taken when the read is applied.
RecordedFpAfterRead(r) == IF Stat(r.file) = ZeroFp THEN NoFp ELSE Stat(r.file)

\* The fingerprint a read leaves behind: none when the file is gone.
RecordedFp(r) == IF r.fp = ZeroFp THEN NoFp ELSE r.fp

\* applyFileReadLocked splices one read into the snapshot, unless a read of the
\* file that started later has been applied already.
ApplyFileRead(p) ==
  LET r == rd[p]
      f == r.file
      late  == r.seq < fileReadSeq[f]
      delta == IF late THEN build[p].delta
               ELSE [build[p].delta EXCEPT ![f] = IF r.fp = ZeroFp THEN Delete ELSE Put(r)]
  IN
  /\ pc[p] = "apply"
  /\ IF late
       THEN UNCHANGED <<snapshot, fingerprints, fileReadSeq, revision, changeLog>>
       ELSE /\ fileReadSeq' = [fileReadSeq EXCEPT ![f] = r.seq]
            /\ snapshot' = [snapshot EXCEPT ![f] = r.page]
            /\ fingerprints' = [fingerprints EXCEPT ![f] = RecordedFp(r)]
            /\ RecordChange({f}, TRUE)
  /\ build' = [build EXCEPT ![p].delta = Saved(delta)]
  /\ rd' = [rd EXCEPT ![p] = NoFileRead]
  /\ IF inflight = p
       THEN /\ pc' = [pc EXCEPT ![p] = IF build[p].todo = {} THEN "release" ELSE "collect"]
            /\ UNCHANGED seenFloor
       ELSE /\ pc' = [pc EXCEPT ![p] = IF Saves(delta) THEN "savefile" ELSE "idle"]
            /\ seenFloor' = [seenFloor EXCEPT ![f] = Later(@, r.from)]
  /\ UNCHANGED <<diskVars, hasSnapshot, loadVars, markVars, readSeq, slotVars, call,
                 boundVars, markFloor>>

\* RefreshFile, called for a debounced watcher event, or for none: a cold key is
\* refreshed as a whole instead.
BeginRefreshFile(p, f) ==
  /\ pc[p] = "idle" /\ events < MaxEvents
  /\ events' = events + 1
  /\ \/ /\ hasSnapshot
        /\ readSeq' = readSeq + 1
        /\ rd' = [rd EXCEPT ![p] = [NoFileRead EXCEPT !.file = f, !.seq = readSeq + 1,
                                                     !.from = Version(f)]]
        /\ pc' = [pc EXCEPT ![p] = "stat"]
        /\ UNCHANGED <<diskVars, pageVars, loadVars, markVars, slotVars, call, build,
                       floorVars>>
     \/ /\ ~hasSnapshot /\ CanRequest
        /\ EnterRefresh(p, [NoCall.floor EXCEPT ![f] = Version(f)])
  /\ UNCHANGED <<faults, crashes>>


-----------------------------------------------------------------------------
(* The end of a build *)

\* release: the waiters get the build's result and the follow-up is promoted in the
\* same critical section.
Release(p) ==
  LET b == build[p]
      pages == IF b.err \/ b.kind # "filereads" THEN b.pages ELSE snapshot
      Woken(q) == pc[q] = "wait" /\ call[q].on = p
  IN
  /\ pc[p] = "release"
  /\ inflight' = followUp
  /\ followUp' = None
  /\ pc' = [q \in Procs |-> IF q = p /\ Saves(b.delta) THEN "persist"
                            ELSE IF q = p \/ Woken(q) THEN AfterAwait(Awaited(q, b, pages))
                            ELSE IF q = followUp THEN "start" ELSE pc[q]]
  /\ call' = [q \in Procs |-> IF q = p \/ Woken(q) THEN Awaited(q, b, pages) ELSE call[q]]
  /\ build' = [q \in Procs |-> IF q = p THEN [NoBuild EXCEPT !.delta = Saved(b.delta)]
                               ELSE IF q = followUp
                                 THEN [build[q] EXCEPT !.startSeq = requestSeq]
                               ELSE build[q]]
  /\ UNCHANGED <<diskVars, pageVars, loadVars, markVars, readSeq, rd, boundVars,
                 floorVars>>

\* writeThrough: the delta goes to the store in one transaction, or not at all.
Persist(p) ==
  LET delta == build[p].delta IN
  /\ pc[p] \in {"persist", "savefile"}
  /\ \/ /\ store' = [f \in Files |->
             CASE delta[f].op = "put"    -> [fp |-> delta[f].fp, page |-> delta[f].page]
               [] delta[f].op = "delete" -> NoEntry
               [] delta[f].op = "keep"   -> store[f]]
        /\ bucket' = TRUE
        /\ UNCHANGED faults
     \/ /\ Fault("persist")
        /\ UNCHANGED <<store, bucket>>
  /\ pc' = [pc EXCEPT ![p] = IF pc[p] = "savefile" THEN "idle" ELSE AfterAwait(call[p])]
  /\ build' = [build EXCEPT ![p] = NoBuild]
  /\ UNCHANGED <<disk, pageVars, loadVars, markVars, readSeq, slotVars, call, rd, events,
                 crashes, floorVars>>

-----------------------------------------------------------------------------
(* The environment *)

\* Somebody writes, breaks, removes or recreates a file.
Edit(f, s) ==
  /\ Version(f) < MaxVersion
  /\ ~(s = "gone" /\ Now(f) = "gone")
  /\ disk' = [disk EXCEPT ![f] = Append(@, s)]
  /\ UNCHANGED <<store, bucket, pageVars, loadVars, markVars, readSeq, slotVars,
                 procVars, boundVars, floorVars>>

\* What newPageIndex starts from.
EmptyIndex ==
  [known |-> FALSE, snapshot |-> [f \in Files |-> NoPage], hasSnapshot |-> FALSE,
   fingerprints |-> [f \in Files |-> NoFp], fileReadSeq |-> [f \in Files |-> 0],
   writeMarked |-> [f \in Files |-> 0],
   pc |-> [p \in Procs |-> "idle"], call |-> [p \in Procs |-> NoCall],
   build |-> [p \in Procs |-> NoBuild], rd |-> [p \in Procs |-> NoFileRead]]

\* The process dies and is started again over the same vault and the same store.
Crash ==
  /\ crashes < MaxCrashes
  /\ crashes' = crashes + 1
  /\ known' = EmptyIndex.known /\ storeLoaded' = FALSE /\ storedBaseline' = FALSE
  /\ snapshot' = EmptyIndex.snapshot /\ hasSnapshot' = EmptyIndex.hasSnapshot
  /\ fingerprints' = EmptyIndex.fingerprints /\ fileReadSeq' = EmptyIndex.fileReadSeq
  /\ revision' = 0 /\ changeLog' = <<>>
  /\ requestSeq' = 0 /\ dirtySeq' = 0 /\ dirtyResolvedSeq' = 0
  /\ reloadSeq' = 0 /\ reloadResolvedSeq' = 0
  /\ writeMarked' = EmptyIndex.writeMarked
  /\ readSeq' = 0
  /\ inflight' = None /\ followUp' = None
  /\ pc' = EmptyIndex.pc /\ call' = EmptyIndex.call
  /\ build' = EmptyIndex.build /\ rd' = EmptyIndex.rd
  /\ seenFloor' = [f \in Files |-> Version(f)]
  /\ markFloor' = [f \in Files |-> Version(f)]
  /\ UNCHANGED <<diskVars, events, faults>>

Init ==
  /\ disk \in [Files -> {<<s>> : s \in EditStates}]
  /\ store = [f \in Files |-> NoEntry] /\ bucket = FALSE
  /\ known = EmptyIndex.known /\ storeLoaded = FALSE /\ storedBaseline = FALSE
  /\ snapshot = EmptyIndex.snapshot /\ hasSnapshot = EmptyIndex.hasSnapshot
  /\ fingerprints = EmptyIndex.fingerprints /\ fileReadSeq = EmptyIndex.fileReadSeq
  /\ revision = 0 /\ changeLog = <<>>
  /\ requestSeq = 0 /\ dirtySeq = 0 /\ dirtyResolvedSeq = 0
  /\ reloadSeq = 0 /\ reloadResolvedSeq = 0
  /\ writeMarked = EmptyIndex.writeMarked
  /\ readSeq = 0
  /\ inflight = None /\ followUp = None
  /\ pc = EmptyIndex.pc /\ call = EmptyIndex.call
  /\ build = EmptyIndex.build /\ rd = EmptyIndex.rd
  /\ events = 0 /\ faults = 0 /\ crashes = 0
  /\ seenFloor = [f \in Files |-> 1] /\ markFloor = [f \in Files |-> 1]

Begin(p) ==
  \/ p \in Readers /\ BeginList(p)
  \/ p \in Refreshers /\ BeginRefresh(p)
  \/ p \in Watchers /\ \E f \in Files : BeginRefreshFile(p, f)
  \/ p \in Writers /\ \E f \in Files : BeginMarkFile(p, f)

\* The steps a goroutine inside a call goes on to take.
Step(p) ==
  \/ EndMarkFile(p) \/ WidenMarkFile(p)
  \/ Serve(p) \/ Acquire(p) \/ Return(p)
  \/ Hydrate(p) \/ StartListing(p) \/ ReadDir(p) \/ StatDir(p)
  \/ Diff(p) \/ FailListing(p) \/ Merge(p)
  \/ StartFileReads(p) \/ (\E f \in Files : NextFile(p, f))
  \/ StatFile(p) \/ ReadFile(p) \/ ApplyFileRead(p)
  \/ Release(p) \/ Persist(p)

Environment ==
  \/ \E f \in Files, s \in EditStates : Edit(f, s)
  \/ MarkDirty \/ ForceReload \/ Crash

Next ==
  \/ \E p \in Procs : Begin(p) \/ Step(p) \/ Cancel(p)
  \/ Environment

\* A goroutine inside a call keeps running.  Nobody has to start a call, nobody has
\* to be cancelled, and nothing has to be edited.
Fairness == \A p \in Procs : WF_vars(Step(p))

Spec == Init /\ [][Next]_vars
FairSpec == Spec /\ Fairness

-----------------------------------------------------------------------------
(* Properties *)

Pages == 0 .. MaxVersion
Fps   == -1 .. MaxVersion
Entry == [fp : Fps, page : Pages]
Delta == [op : {"keep", "put", "delete"}, fp : Fps, page : Pages]
Pcs   == {"idle", "loop", "wait", "queued", "start", "seeded", "readdir",
          "statdir", "diff", "collect", "stat", "read", "apply", "merge", "release",
          "persist", "savefile", "return", "markfile", "markfolder"}
Calls == [need : Nat, want : Nat, first : BOOLEAN, on : Procs \cup {None},
          pages : [Files -> Pages], ok : BOOLEAN,
          floor : [Files -> Nat]]
Builds == [kind : Kinds, startSeq : Nat, full : BOOLEAN, forced : SUBSET Files,
           listingSeq : Nat, names : SUBSET Files, fps : [Files -> Fps],
           todo : SUBSET Files,
           reads : [Files -> [seq : Nat, fp : Fps, page : Pages]],
           delta : [Files -> Delta], pages : [Files -> Pages], err : BOOLEAN]
FileReads == [file : Files \cup {None}, seq : Nat, fp : Fps, page : Pages, from : Nat]

Changes == [rev : Nat, names : SUBSET Files, bounded : BOOLEAN]

DiskTypeOK ==
  /\ disk \in [Files -> Seq(States)]
  /\ \A f \in Files : Version(f) \in 1 .. MaxVersion
  /\ store \in [Files -> Entry] /\ bucket \in BOOLEAN
PageTypeOK ==
  /\ snapshot \in [Files -> Pages] /\ hasSnapshot \in BOOLEAN
  /\ fingerprints \in [Files -> Fps] /\ fileReadSeq \in [Files -> Nat]
  /\ revision \in Nat
  /\ changeLog \in Seq(Changes) /\ Len(changeLog) <= MaxChangeLog
LoadTypeOK == known \in BOOLEAN /\ storeLoaded \in BOOLEAN /\ storedBaseline \in BOOLEAN
MarkTypeOK ==
  /\ requestSeq \in Nat /\ dirtySeq \in Nat /\ dirtyResolvedSeq \in Nat
  /\ reloadSeq \in Nat /\ reloadResolvedSeq \in Nat
  /\ writeMarked \in [Files -> Nat]
  /\ \A f \in Files : writeMarked[f] <= requestSeq
SlotTypeOK == inflight \in Procs \cup {None} /\ followUp \in Procs \cup {None}
ProcTypeOK ==
  /\ pc \in [Procs -> Pcs] /\ call \in [Procs -> Calls]
  /\ build \in [Procs -> Builds] /\ rd \in [Procs -> FileReads]
BoundTypeOK == events \in Nat /\ faults \in Nat /\ crashes \in Nat
FloorTypeOK == seenFloor \in [Files -> Nat] /\ markFloor \in [Files -> Nat]

\* Every variable has its type; the change log stays within its bound, and no mark
\* is newer than the newest request.
TypeOK == /\ DiskTypeOK /\ PageTypeOK /\ LoadTypeOK /\ MarkTypeOK /\ readSeq \in Nat
          /\ SlotTypeOK /\ ProcTypeOK /\ BoundTypeOK /\ FloorTypeOK

\* pg is what reading f gave at some moment since version v.
Shows(pg, f, v) == \E w \in v .. Version(f) : pg = PageAt(f, w)

\* A read that fails excludes the page, as a broken file does.
ReadFailed(pg) == pg = NoPage /\ "read" \in FaultKinds /\ faults > 0

OwnerPcs == {"start", "seeded", "readdir", "statdir", "diff", "collect",
             "merge", "release"}
ReadPcs  == {"stat", "read", "apply"}

\* One build at a time runs for the key, on a goroutine that is really running it;
\* at most one more is queued, behind a running one; and every waiter waits on one
\* of the two, so no done or started channel is left without the goroutine that
\* will close it.
SingleFlight ==
  /\ followUp # None => inflight \notin {None, followUp}
  /\ \A p \in Procs :
       /\ inflight = p => pc[p] \in OwnerPcs \cup ReadPcs
       /\ pc[p] \in OwnerPcs => inflight = p
       /\ followUp = p <=> pc[p] = "queued"
       /\ pc[p] = "wait" => call[p].on \in {inflight, followUp} \ {None}

\* A recorded fingerprint is never newer than the page recorded with it, in memory
\* or in the store: a page that fell behind its file differs from the next listing's
\* fingerprint and is re-read.  Only a page that could not be read keeps the fingerprint
\* it was looked at with.  And a published page has one, so the unchanged pass, which only
\* compares the listed names' fingerprints and two counts, cannot overlook a page whose
\* file is gone.
FingerprintHonest ==
  \A f \in Files :
    /\ fingerprints[f] > ZeroFp =>
         Shows(snapshot[f], f, fingerprints[f]) \/ ReadFailed(snapshot[f])
    /\ store[f].fp > ZeroFp =>
         Shows(store[f].page, f, store[f].fp) \/ ReadFailed(store[f].page)
    /\ hasSnapshot /\ snapshot[f] # NoPage => fingerprints[f] > ZeroFp

\* Once RefreshFile has returned, whatever is published shows the file as it was
\* when the event was handled or later, however the reads, listings and merges
\* under way at that time end; and what a process publishes shows each file as it
\* was at its start or later, whatever it found in the store.  Only a page that could
\* not be read is excluded.
EventVisible ==
  hasSnapshot /\ ~storedBaseline =>
    \A f \in Files : \/ Shows(snapshot[f], f, seenFloor[f])
                     \/ ReadFailed(snapshot[f])

\* A running build that will still read f, or look at its fingerprint.
WillRead(p, f) ==
  /\ p = inflight
  /\ \/ pc[p] \in {"seeded", "readdir", "statdir", "diff", "merge"}
     \/ pc[p] \in {"collect"} \cup ReadPcs /\ (IsListing(p) \/ f \in build[p].todo)
     \/ pc[p] \in ReadPcs /\ rd[p].file = f

\* A mark is never lost: until the published page shows the write it was made for,
\* the mark, or the build that took it, is still there.  Only a page that could not be
\* read is excluded.
MarkKept ==
  hasSnapshot =>
    \A f \in Files :
      \/ Shows(snapshot[f], f, markFloor[f]) \/ ReadFailed(snapshot[f])
      \/ writeMarked[f] > 0 \/ dirtySeq > dirtyResolvedSeq \/ reloadSeq > reloadResolvedSeq
      \/ \E p \in Procs : WillRead(p, f)

\* A reader returns what was written before its call, or excludes a page that could not
\* be read.
ReadYourWrites ==
  \A p \in Readers : pc[p] = "return" /\ call[p].ok =>
    \A f \in Files : \/ Shows(call[p].pages[f], f, call[p].floor[f])
                     \/ ReadFailed(call[p].pages[f])

\* As long as every mark is an exact file mark, it does.
FileMarkServed == dirtySeq = 0 /\ reloadSeq = 0 => ReadYourWrites

\* A refresh that returns has seen every file as it was when it was called or later,
\* or has excluded one that it could not read.
RefreshListed ==
  \A p \in Procs \ Readers : pc[p] = "return" /\ call[p].ok =>
    \A f \in Files : \/ Shows(call[p].pages[f], f, call[p].floor[f])
                     \/ ReadFailed(call[p].pages[f])

\* Baseline entries from the store are never served before their stat-diff.
BaselineNotServed == storedBaseline => ~hasSnapshot

\* Whoever keeps rows derived from the pages at one revision is told by
\* ChangedPagesSince of every page that changes after it.
ChangeAttributed ==
  [][hasSnapshot /\ hasSnapshot' /\ ~storedBaseline' =>
       \A f \in Files : snapshot'[f] # snapshot[f] =>
         /\ revision' > revision
         /\ \A r \in {revision} : LET told == ChangedPagesSince(r)'
                                  IN told.ok => f \in told.names]_vars

\* Every call returns.
CallsReturn == \A p \in Procs : pc[p] # "idle" ~> pc[p] = "idle"
=============================================================================
