------------------------------- MODULE Launch -------------------------------
(***************************************************************************)
(* The launch of one item's Claude session: the Run and Take-over requests *)
(* (pkg/mutations), the process-local launch registry, the durable         *)
(* claude_session_started marker and the status cache's copy of it, and    *)
(* the cleanup sweep that converges the marker (pkg/cleanup): the startup  *)
(* reconciliation, then passes over stale sessions, old markers and        *)
(* finished records.  Every vault-cli call is a step of its own and can    *)
(* fail; the server can crash, which loses the registry and kills the      *)
(* launches; a git merge can bring a removed marker back.  A launch's      *)
(* session id is its request's.                                            *)
(***************************************************************************)
EXTENDS Integers, FiniteSets

CONSTANTS MaxRuns,      \* bound: Run requests, numbered as they come
          Takers,       \* Take-over requests
          None,
          Cap,          \* cfg.MaxConcurrentSessions
          Polls, Stable,\* bindSessionID: its polls, and the stable reads it waits for
          Transcripts,  \* the launches that get as far as a transcript file
          MaxActive,    \* bound: requests under way at a time
          MaxFaults     \* bound: failed calls, crashes and merges together

ASSUME LaunchAssumption ==
  /\ MaxRuns \in Nat /\ Transcripts \subseteq 1..MaxRuns
  /\ None \notin 1..MaxRuns /\ None \notin {"in_flight", "finished"}
  /\ Cap \in Nat /\ Polls \in Nat \ {0} /\ Stable \in Nat \ {0}
  /\ MaxActive \in Nat \ {0} /\ MaxFaults \in Nat

Runs == 1..MaxRuns

VARIABLES
  kind,                 \* "task" or "goal"
  id, marker,           \* the file: claude_session_id, and the marker as an age class
  cache,                \* the status cache's marker
  rec, taken,           \* the launch registry: the item's record; its take-over mark
  procs,                \* sessions with a launch process
  pc,                   \* per Run request: its step
  take,                 \* per Take-over request: its step, the session, the bind loop
  sweep,                \* the sweep's step and the session it listed
  faults,
  claimed, wiped        \* history: launches a take-over marked; the sweep left no marker

fileVars == <<id, marker>>
regVars == <<rec, taken>>
vars == <<kind, fileVars, cache, regVars, procs, pc, take, sweep, faults, claimed, wiped>>

\* A marker is absent, fresh (within OrphanGrace and MarkerTTL) or expired (past both).
Absent == 0
Fresh == 1
Expired == 2

Untaken == [at |-> "idle", id |-> None, polls |-> 0, cleared |-> FALSE, stable |-> 0]

Init ==
  /\ kind \in {"task", "goal"}
  /\ id = None /\ marker = Absent /\ cache = Absent
  /\ rec = None /\ taken = FALSE
  /\ procs = {}
  /\ pc = [r \in Runs |-> "idle"]
  /\ take = [t \in Takers |-> Untaken]
  /\ sweep = [at |-> "boot", listed |-> None]
  /\ faults = 0 /\ claimed = {} /\ wiped = FALSE

Ended == {"idle", "done"}
Active == {r \in Runs : pc[r] \notin Ended} \cup {t \in Takers : take[t].at \notin Ended}
Room == Cardinality(Active) < MaxActive

Fault == faults < MaxFaults /\ faults' = faults + 1

\* A vault-cli call: it does its work, or fails and leaves the file alone.
SetMarker == marker' = Fresh /\ wiped' = FALSE /\ UNCHANGED <<id, faults>>
ClearMarker == marker' = Absent /\ UNCHANGED <<id, faults>>
SetID(s) == id' = s /\ UNCHANGED <<marker, faults>>
Fails == Fault /\ UNCHANGED fileVars

-----------------------------------------------------------------------------
(* The registry's operations. *)

\* Mutant: the mark of an earlier take-over stays.
BeginKeepsMark == rec' = "in_flight" /\ taken' = taken

\* A new launch supersedes the old record and its take-over mark.
Begin == rec' = "in_flight" /\ taken' = FALSE

Finish == rec' = (IF rec = None THEN None ELSE "finished") /\ UNCHANGED taken
Evict == rec' = None /\ UNCHANGED taken
EvictIfFinished == rec' = (IF rec = "finished" THEN None ELSE rec) /\ UNCHANGED taken

-----------------------------------------------------------------------------
(* RunTask and RunGoal *)

At(r, p) == /\ pc' = [pc EXCEPT ![r] = p]
            /\ claimed' = IF p = "done" THEN claimed \ {r} ELSE claimed

notRun == <<kind, cache, take, sweep>>

\* launchCount, for this item: a marker in the cache that no finished record suppresses.
Launching == IF cache # Absent /\ rec # "finished" THEN 1 ELSE 0

\* A task's Run is admitted by the count; a goal's always.
RunAdmit(r) ==
  /\ pc[r] = "idle" /\ Room /\ \A q \in 1..(r - 1) : pc[q] # "idle"
  /\ IF kind = "task" /\ Launching >= Cap THEN At(r, "done") ELSE At(r, "begin")
  /\ UNCHANGED <<notRun, fileVars, regVars, procs, faults, wiped>>

\* The record is there before the marker ...
RunBegin(r) ==
  /\ pc[r] = "begin"
  /\ Begin /\ At(r, "mark")
  /\ wiped' = FALSE
  /\ UNCHANGED <<notRun, fileVars, procs, faults>>

\* ... which ends the launch if it cannot be written.
RunMark(r) ==
  /\ pc[r] = "mark"
  /\ \/ SetMarker /\ At(r, "work") /\ UNCHANGED regVars
     \/ Fails /\ Finish /\ At(r, "done") /\ UNCHANGED wiped
  /\ UNCHANGED <<notRun, procs>>

\* work-on starts the claude process, writes the id, and returns when the turn ends or is terminated; a failed turn takes the id out.
WorkOn(r) ==
  /\ \/ /\ pc[r] = "work" /\ At(r, "unbound")
        /\ procs' = procs \cup {r} /\ UNCHANGED <<fileVars, faults>>
     \/ /\ pc[r] = "unbound" /\ r \in procs /\ At(r, "turn")
        /\ SetID(r) /\ UNCHANGED procs
     \/ /\ pc[r] = "turn" /\ r \in procs /\ At(r, "returned")
        /\ procs' = procs \ {r} /\ UNCHANGED <<fileVars, faults>>
     \/ /\ pc[r] \in {"unbound", "turn"} /\ r \in procs /\ At(r, "undo")
        /\ procs' = procs \ {r} /\ Fails
     \/ /\ pc[r] \in {"unbound", "turn"} /\ r \notin procs /\ At(r, "undo")
        /\ UNCHANGED <<procs, fileVars, faults>>
     \/ /\ pc[r] = "undo" /\ At(r, "fail_clear")
        /\ SetID(None) /\ UNCHANGED procs
  /\ UNCHANGED <<notRun, regVars, wiped>>

\* A failed turn: clear the marker, finish the record, and answer 409 or 500 by the take-over mark.
RunFails(r) ==
  /\ \/ /\ pc[r] = "fail_clear" /\ (ClearMarker \/ Fails) /\ At(r, "fail_finish")
        /\ UNCHANGED regVars
     \/ /\ pc[r] = "fail_finish" /\ Finish /\ At(r, "verdict")
        /\ UNCHANGED <<fileVars, faults>>
     \/ /\ pc[r] = "verdict" /\ At(r, "done")
        /\ UNCHANGED <<fileVars, faults, regVars>>
  /\ UNCHANGED <<notRun, procs, wiped>>

\* A turn that returned: finish the record, for a goal store the id, clear the marker, and
\* read the file into the cache.
RunReturns(r) ==
  /\ \/ /\ pc[r] = "returned" /\ Finish /\ At(r, IF kind = "goal" THEN "set_id" ELSE "clear")
        /\ UNCHANGED <<fileVars, faults, cache>>
     \/ /\ pc[r] = "set_id" /\ UNCHANGED <<regVars, cache>>
        /\ \/ SetID(r) /\ At(r, "clear")
           \/ Fails /\ At(r, "done")
     \/ /\ pc[r] = "clear" /\ (ClearMarker \/ Fails) /\ At(r, "invalidate")
        /\ UNCHANGED <<regVars, cache>>
     \/ /\ pc[r] = "invalidate" /\ cache' = marker /\ At(r, "done")
        /\ UNCHANGED <<fileVars, faults, regVars>>
  /\ UNCHANGED <<kind, take, sweep, procs, wiped>>

Run(r) == RunAdmit(r) \/ RunBegin(r) \/ RunMark(r) \/ RunFails(r) \/ RunReturns(r)

-----------------------------------------------------------------------------
(* TakeOverTask and TakeOverGoal *)

Step(t, p) == take' = [take EXCEPT ![t].at = p]
Taken(t) == take' = [take EXCEPT ![t] = [Untaken EXCEPT !.at = "done"]]
notTake == <<kind, pc, sweep>>

\* startingMarker: what the board shows; a finished record suppresses it.
Starting == cache # Absent /\ rec # "finished"

TakeShow(t) ==
  /\ take[t].at = "idle" /\ Room
  /\ take' = [take EXCEPT ![t].at = "shown", ![t].id = id]
  /\ UNCHANGED <<notTake, id, marker, cache, regVars, procs, faults, claimed, wiped>>

\* SigtermPID: the signal reaches the process, or is refused.
SigtermPID(s) == \/ procs' = procs \ {s} /\ UNCHANGED faults
                 \/ s \in procs /\ Fault /\ UNCHANGED procs

\* TerminateLaunchProcess: the shown session if a launch pins it, else the launch row of
\* the item's name.  A scan that fails counts as an empty process table.
TakeLaunch(t) ==
  /\ take[t].at = "shown" /\ Starting
  /\ \/ procs = {} /\ Step(t, "finish") /\ UNCHANGED <<procs, faults>>
     \/ procs # {} /\ Fault /\ Step(t, "finish") /\ UNCHANGED procs
     \/ \E s \in IF take[t].id \in procs THEN {take[t].id} ELSE procs :
          SigtermPID(s) /\ take' = [take EXCEPT ![t].at = "finish", ![t].id = s]
  /\ UNCHANGED <<notTake, id, marker, cache, regVars, claimed, wiped>>

\* A card that is not starting: TerminateResumedSession, if there is a session at all.
TakeResumed(t) ==
  /\ take[t].at = "shown" /\ ~Starting
  /\ SigtermPID(take[t].id) /\ Taken(t)
  /\ UNCHANGED <<notTake, id, marker, cache, regVars, claimed, wiped>>

\* clearStartingMarker: finish the record, mark the take-over, clear the marker.
TakeFinish(t) ==
  /\ \/ take[t].at = "finish" /\ Step(t, "mark") /\ Finish /\ UNCHANGED claimed
     \/ /\ take[t].at = "mark" /\ Step(t, "clear") /\ taken' = TRUE /\ UNCHANGED rec
        /\ claimed' = claimed \cup {r \in Runs : pc[r] \notin Ended \cup {"begin"}}
  /\ UNCHANGED <<notTake, id, marker, cache, procs, faults, wiped>>

TakeClear(t) ==
  /\ \/ /\ take[t].at = "clear" /\ Step(t, "invalidate") /\ UNCHANGED cache
        /\ \/ marker' = Absent /\ UNCHANGED faults
           \/ Fault /\ UNCHANGED marker
     \/ /\ take[t].at = "invalidate" /\ IF take[t].id = None THEN Taken(t) ELSE Step(t, "bind")
        /\ cache' = marker /\ UNCHANGED <<marker, faults>>
  /\ UNCHANGED <<notTake, id, regVars, procs, claimed, wiped>>

\* Mutant: the loop ends on a stable id only.
BindEndsStable(t, stays) == take[t].cleared /\ stays >= Stable

\* bindSessionID's loop ends when the id was seen gone and then stayed for enough reads, or
\* the polls run out.
BindEnds(t, stays) ==
  (take[t].cleared /\ stays >= Stable) \/ take[t].polls + 1 = Polls

\* bindSessionID: each poll writes the id back if the file has another.
TakeBind(t) ==
  /\ take[t].at = "bind"
  /\ LET same == id = take[t].id
         stays == IF same THEN take[t].stable + 1 ELSE 0
     IN \/ Fault /\ Taken(t) /\ UNCHANGED id       \* the id cannot be read
        \/ /\ IF BindEnds(t, stays) THEN Taken(t)
              ELSE take' = [take EXCEPT
                     ![t].polls = @ + 1, ![t].cleared = @ \/ ~same, ![t].stable = stays]
           /\ \/ id' = take[t].id /\ UNCHANGED faults
              \/ ~same /\ Fault /\ UNCHANGED id
  /\ UNCHANGED <<notTake, marker, cache, regVars, procs, claimed, wiped>>

Take(t) ==
  TakeShow(t) \/ TakeLaunch(t) \/ TakeResumed(t) \/ TakeFinish(t) \/ TakeClear(t) \/ TakeBind(t)

-----------------------------------------------------------------------------
(* The cleanup sweep *)

Go(p) == sweep' = [sweep EXCEPT !.at = p]
notSweep == <<kind, cache, procs, pc, take, claimed>>

\* Mutant: a marker the sweep wiped is left wiped.
RestoreNever(done, failed) ==
  Go(failed) /\ UNCHANGED <<id, marker, faults, wiped>>

\* restoreMarkerIfInFlight, after every clear: a launch that began during the clear gets its
\* marker back.
Restore(done, failed) ==
  IF rec = "in_flight"
  THEN \/ Go(done) /\ SetMarker
       \/ Go(failed) /\ Fails /\ wiped' = FALSE
  ELSE Go(failed) /\ UNCHANGED <<id, marker, faults, wiped>>

\* A clear by the sweep; a launch that has its marker now loses it.
SweepClears(done, failed) ==
  \/ Go(done) /\ ClearMarker /\ wiped' = (rec = "in_flight" /\ marker # Absent)
  \/ Go(failed) /\ Fails /\ UNCHANGED wiped

\* ReconcileOrphanedMarkers, once: a task's marker past the grace period with no record and
\* no launch process on this host.
ReconcileCheck ==
  /\ sweep.at = "boot"
  /\ Go(IF /\ kind = "task" /\ cache = Expired /\ rec = None /\ procs = {}
        THEN "reconcile" ELSE "pass")
  /\ UNCHANGED <<notSweep, fileVars, regVars, faults, wiped>>

\* Clear, restore, and only if nothing was restored finish the record.
Reconcile ==
  /\ \/ sweep.at = "reconcile" /\ SweepClears("rec_restore", "pass") /\ UNCHANGED regVars
     \/ sweep.at = "rec_restore" /\ Restore("pass", "rec_finish") /\ UNCHANGED regVars
     \/ sweep.at = "rec_finish" /\ Finish /\ Go("pass") /\ UNCHANGED <<fileVars, faults, wiped>>
  /\ UNCHANGED notSweep

\* A pass lists the items.  A recorded launch whose listed session has no transcript is stale.
StaleCheck ==
  /\ sweep.at = "pass"
  /\ sweep' = [at |-> IF id # None /\ id \notin Transcripts /\ rec # None THEN "stale" ELSE "ttl",
               listed |-> id]
  /\ UNCHANGED <<notSweep, fileVars, regVars, faults, wiped>>

\* clearItemSession: the id, for a goal the marker, and the restore.
StaleClear ==
  /\ \/ /\ sweep.at = "stale" /\ UNCHANGED wiped
        /\ \/ SetID(None) /\ Go(IF kind = "goal" THEN "stale_marker" ELSE "stale_restore")
           \/ Fails /\ Go("ttl")
     \/ sweep.at = "stale_marker" /\ SweepClears("stale_restore", "stale_restore")
     \/ sweep.at = "stale_restore" /\ Restore("ttl", "ttl")
  /\ UNCHANGED <<notSweep, regVars>>

\* Mutant: only an item without a session has its marker cleared.
OrphanedNameless ==
  cache = Expired /\ rec = None /\ sweep.listed = None

\* clearOrphanedTaskMarkers and its goal twin: an expired marker without a record.  A listed
\* session without a transcript is skipped, as one the stale pass has dealt with.
Orphaned ==
  cache = Expired /\ rec = None /\ sweep.listed \in Transcripts \cup {None}

TTLCheck ==
  /\ sweep.at = "ttl"
  /\ sweep' = [at |-> IF Orphaned THEN "ttl_clear" ELSE "finished", listed |-> None]
  /\ UNCHANGED <<notSweep, fileVars, regVars, faults, wiped>>

TTLClear ==
  /\ \/ sweep.at = "ttl_clear" /\ SweepClears("ttl_restore", "finished")
     \/ sweep.at = "ttl_restore" /\ Restore("finished", "finished")
  /\ UNCHANGED <<notSweep, regVars>>

\* reclearResurrected...Markers: a finished record whose marker is gone from the cache is
\* evicted; one whose marker came back has it cleared, restored if a launch began, and the
\* record evicted if it is still finished.
FinishedCheck ==
  /\ \/ sweep.at = "finished" /\ Go(IF rec = "finished" THEN "present" ELSE "pass")
     \/ sweep.at = "present" /\ Go(IF cache = Absent THEN "evict" ELSE "reclear")
  /\ UNCHANGED <<notSweep, fileVars, regVars, faults, wiped>>

Reclear ==
  /\ \/ sweep.at = "evict" /\ Evict /\ Go("pass") /\ UNCHANGED <<fileVars, faults, wiped>>
     \/ sweep.at = "reclear" /\ SweepClears("re_restore", "pass") /\ UNCHANGED regVars
     \/ sweep.at = "re_restore" /\ Restore("re_evict", "re_evict") /\ UNCHANGED regVars
     \/ sweep.at = "re_evict" /\ EvictIfFinished /\ Go("pass")
        /\ UNCHANGED <<fileVars, faults, wiped>>
  /\ UNCHANGED notSweep

Sweep ==
  \/ ReconcileCheck \/ Reconcile \/ StaleCheck \/ StaleClear
  \/ TTLCheck \/ TTLClear \/ FinishedCheck \/ Reclear

-----------------------------------------------------------------------------
(* The world around *)

\* The watcher's event for the changed file: the cache reads it again.
Observe ==
  /\ cache # marker /\ cache' = marker
  /\ UNCHANGED <<kind, fileVars, regVars, procs, pc, take, sweep, faults, claimed, wiped>>

Older(m) == IF m = Fresh THEN Expired ELSE m

\* Time passes for the marker's instant, in the file and in the cache.
Tick ==
  /\ marker' = Older(marker) /\ cache' = Older(cache)
  /\ UNCHANGED <<kind, id, regVars, procs, pc, take, sweep, faults, claimed, wiped>>

\* A git merge brings a removed marker back.
Merge ==
  /\ marker = Absent /\ \E r \in Runs : pc[r] \notin {"idle", "begin"}
  /\ Fault /\ marker' = Fresh
  /\ UNCHANGED <<kind, id, cache, regVars, procs, pc, take, sweep, claimed, wiped>>

\* A crash ends the requests and the launches, which are its subprocesses, and loses the
\* registry; the next server loads the cache before its sweep starts.
Crash ==
  /\ Fault
  /\ rec' = None /\ taken' = FALSE /\ procs' = {} /\ cache' = marker
  /\ pc' = [r \in Runs |-> IF pc[r] = "idle" THEN "idle" ELSE "done"]
  /\ take' = [t \in Takers |-> [Untaken EXCEPT !.at = IF take[t].at = "idle" THEN "idle" ELSE "done"]]
  /\ sweep' = [at |-> "boot", listed |-> None] /\ wiped' = FALSE
  /\ claimed' = {}
  /\ UNCHANGED <<kind, fileVars>>

Next ==
  \/ \E r \in Runs : Run(r) \/ WorkOn(r)
  \/ \E t \in Takers : Take(t)
  \/ Sweep \/ Observe \/ Tick \/ Merge \/ Crash

\* The sweep loops, requests go on, file events arrive and time passes.  A turn may last for
\* ever, but a terminated one returns.
Fairness ==
  /\ WF_vars(Sweep) /\ WF_vars(Observe) /\ WF_vars(Tick)
  /\ \A r \in Runs : WF_vars(Run(r) /\ pc[r] # "idle") /\ WF_vars(WorkOn(r) /\ r \notin procs)
  /\ \A t \in Takers : WF_vars(Take(t) /\ take[t].at # "idle")

Spec == Init /\ [][Next]_vars /\ Fairness

-----------------------------------------------------------------------------
(* Properties *)

\* The types; a running process belongs to a request that still waits for it, and a
\* take-over's bind loop ends within its polls (rebindPolls), whatever writes it races.
TypeOK ==
  /\ id \in Runs \cup {None} /\ {marker, cache} \subseteq {Absent, Fresh, Expired}
  /\ rec \in {None, "in_flight", "finished"} /\ taken \in BOOLEAN
  /\ \A r \in procs : pc[r] \in {"unbound", "turn"}
  /\ \A t \in Takers : take[t].polls \in 0..(Polls - 1)

\* The sweep never leaves a launch in flight without its marker: if one of its clears wiped
\* the marker of a launch that began meanwhile, the restore that follows puts it back (the
\* race restoreMarkerIfInFlight closes).
MarkerRestored ==
  wiped /\ rec = "in_flight" => sweep.at \in {"rec_restore", "stale_restore", "ttl_restore", "re_restore"}

\* A Run answers 409 "ended by take-over" only if a take-over marked the item while that
\* launch was under way, never for the mark of an earlier one (Begin, WasTakenOver).
VerdictHonest == \A r \in Runs : pc[r] = "verdict" /\ taken => r \in claimed

\* No request is under way.
Quiet == Active = {}

\* The session the file names has no transcript on this host.
NoTranscript == id # None /\ id \notin Transcripts

\* Once the launches have ended, whatever failed, crashed or came back by a merge, the card
\* does not stay on "Starting": the sweep converges the marker, if the item names no session
\* without a transcript (see MarkerSettles).
MarkerConverges == <>[](Quiet /\ ~NoTranscript) => <>[](marker = Absent)

\* What the TTL pass says of an id-bearing item without a transcript: the stale pass has
\* cleared it, id and marker (cleanup.go:527).  So every marker of an ended launch goes.
MarkerSettles == <>[]Quiet => <>[](marker = Absent)
=============================================================================
