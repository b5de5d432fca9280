--------------------------- MODULE SessionLiveness ---------------------------
(***************************************************************************)
(* The liveness badge of one session: the attention store is polled into   *)
(* the session state (pkg/sessionstate, pkg/heartbeat), the session        *)
(* snapshot copies that and a ps scan while the board is read              *)
(* (pkg/sessionsnapshot), transcripts are probed through one listing per   *)
(* epoch, and board reads classify what they find (pkg/session).  Polls,   *)
(* scans, listings and the board's three reads of the snapshot interleave, *)
(* and the first three can fail.                                           *)
(***************************************************************************)
EXTENDS Integers

CONSTANTS Readers,      \* concurrent board reads
          None,
          MaxChanges,   \* bound: changes of the world
          MaxFaults     \* bound: failed polls, failed scans, truncated listings

ASSUME LivenessAssumption == MaxChanges \in Nat /\ MaxFaults \in Nat /\ None \notin BOOLEAN

VARIABLES
  world,                \* what is so: the store lists the session live; its transcript; its process
  changes, faults,
  state,                \* sessionstate.State: the session is listed; the set is authoritative
  poll,                 \* the state's watcher: its step, what its read returned
  snap,                 \* the published snapshot; refreshed: there was a refresh at all
  demand,               \* reads # readsAtRefresh
  refresh,              \* the refresh under way: its step and what it has read
  index,                \* this epoch's listing: None, or whether it has the transcript
  cached,               \* the cached transcript verdict, and whether it is of this window
  reader,               \* per board read: its step and what it has read
  shown,                \* per board read: its last verdict
  heard,                \* history: the store's last answer
  stood                 \* history: the transcript was there when the epoch began, and stayed

snapVars == <<snap, demand, index, cached, stood>>
vars == <<world, changes, faults, state, poll, snapVars, refresh, reader, shown, heard>>

Transcripts == {"absent", "idle", "recent"}     \* recent: written within LiveWindow

Idle == [at |-> "idle", live |-> FALSE, known |-> TRUE, proc |-> FALSE,
         current |-> TRUE, listing |-> FALSE, whole |-> TRUE, heard |-> None, dark |-> FALSE]

Init ==
  /\ world \in [live : BOOLEAN, file : Transcripts, proc : BOOLEAN]
  /\ changes = 0 /\ faults = 0
  /\ state = [live |-> FALSE, known |-> TRUE]
  /\ poll = [at |-> "read", got |-> None]
  /\ snap = [live |-> FALSE, known |-> TRUE, proc |-> FALSE, refreshed |-> FALSE,
             heard |-> None, dark |-> FALSE]
  /\ demand = FALSE
  /\ refresh = [at |-> "scan", proc |-> FALSE, live |-> FALSE, heard |-> None]
  /\ index = None /\ cached = [current |-> FALSE, file |-> "absent"]
  /\ reader = [r \in Readers |-> Idle]
  /\ shown = [r \in Readers |-> [badge |-> "none", heard |-> None, dark |-> FALSE]]
  /\ heard = None /\ stood = FALSE

Fault == faults < MaxFaults /\ faults' = faults + 1

-----------------------------------------------------------------------------
(* The session state and its watcher *)

\* LiveSessions: the store answers, or it cannot be told.
PollRead ==
  /\ poll.at = "read"
  /\ \/ poll' = [at |-> "apply", got |-> world.live] /\ UNCHANGED faults
     \/ Fault /\ poll' = [at |-> "apply", got |-> None]
  /\ UNCHANGED <<world, changes, state, snapVars, refresh, reader, shown, heard>>

\* Mutant: an answer does not make the set authoritative again.
ReplaceKeepsFlag(listed) == state' = [state EXCEPT !.live = listed] /\ heard' = listed

\* Replace: the set is the store's answer, and authoritative.
Replace(listed) == state' = [live |-> listed, known |-> TRUE] /\ heard' = listed

\* Mutant: an unreachable store clears the ids.
MarkUnknownClears == state' = [live |-> FALSE, known |-> FALSE] /\ UNCHANGED heard

\* MarkUnknown: the last known ids are kept and stop being authoritative.
MarkUnknown == state' = [state EXCEPT !.known = FALSE] /\ UNCHANGED heard

\* seed and apply; the loop reads again after its interval.
PollApply ==
  /\ poll.at = "apply"
  /\ IF poll.got = None THEN MarkUnknown ELSE Replace(poll.got)
  /\ poll' = [at |-> "read", got |-> None]
  /\ UNCHANGED <<world, changes, faults, snapVars, refresh, reader, shown>>

-----------------------------------------------------------------------------
(* The session snapshot's refresh loop *)

notRefresh == <<world, changes, state, poll, reader, shown, heard>>

\* A tick without a read since the last refresh does nothing.
Tick ==
  /\ refresh.at = "wait" /\ demand
  /\ refresh' = [refresh EXCEPT !.at = "scan"]
  /\ UNCHANGED <<notRefresh, faults, snapVars>>

\* RefreshOnce: the ps scan, whose failure keeps the previous values ...
Scan ==
  /\ refresh.at = "scan"
  /\ \/ refresh' = [refresh EXCEPT !.at = "sessions", !.proc = world.proc] /\ UNCHANGED faults
     \/ Fault /\ refresh' = [refresh EXCEPT !.at = "wait"]
  /\ UNCHANGED <<notRefresh, snapVars>>

\* ... the Registry read, first the sessions and then the flag, each under the state's lock ...
ReadSessions ==
  /\ refresh.at = "sessions"
  /\ refresh' = [refresh EXCEPT !.at = "known", !.live = state.live, !.heard = heard]
  /\ UNCHANGED <<notRefresh, faults, snapVars>>

\* Mutant: the ids are taken over although the source could not tell.
SwapIds(known) == refresh.live /\ known

\* ... and the swap: ids of a source that could not tell are not taken over.
SwapLive(known) == IF known THEN refresh.live ELSE snap.live

\* Mutant: the listing and the verdicts of the old epoch stay.
NewEpochKeeps == UNCHANGED <<index, cached, reader>>

\* A new epoch: no listing, the cached verdicts are outdated, and a listing under way is of
\* another set.
NewEpoch ==
  /\ index' = None /\ cached' = [current |-> FALSE, file |-> "absent"]
  /\ reader' = [r \in Readers |-> [reader[r] EXCEPT !.current = @ /\ reader[r].at \notin {"list", "publish"}]]

Swap ==
  /\ refresh.at = "known"
  /\ LET known == state.known
     IN snap' = [live |-> SwapLive(known), known |-> known, proc |-> refresh.proc, refreshed |-> TRUE,
                 heard |-> IF known THEN refresh.heard ELSE snap.heard, dark |-> ~known]
  /\ NewEpoch
  /\ stood' = (world.file # "absent") /\ demand' = FALSE
  /\ refresh' = [at |-> "wait", proc |-> FALSE, live |-> FALSE, heard |-> None]
  /\ UNCHANGED <<world, changes, faults, state, poll, shown, heard>>

-----------------------------------------------------------------------------
(* A board read *)

Step(r, fields) == reader' = [reader EXCEPT ![r] = fields]
notRead == <<world, changes, state, poll, refresh, snap, stood, heard>>

\* ClassifySessionState, over what the read has seen.
Classify(s, file) ==
  CASE s.live                -> "live"
    [] ~s.live /\ file = "absent" -> "indeterminate"
    [] OTHER -> IF file = "recent" \/ s.proc THEN "live"
                ELSE IF s.known THEN "quiet" ELSE "indeterminate"

Show(r, file) ==
  /\ shown' = [shown EXCEPT ![r] =
       [badge |-> Classify(reader[r], file), heard |-> reader[r].heard, dark |-> reader[r].dark]]
  /\ Step(r, Idle)

\* RegistrySessionIDs, LiveIDsKnown and ResumeSessionIDs: three reads of the snapshot.
ReadIDs(r) ==
  /\ reader[r].at = "idle"
  /\ Step(r, [Idle EXCEPT !.at = "known", !.live = snap.live, !.heard = snap.heard])
  /\ demand' = TRUE
  /\ UNCHANGED <<notRead, faults, index, cached, shown>>

ReadKnown(r) ==
  /\ reader[r].at = "known"
  /\ Step(r, [reader[r] EXCEPT !.at = "resume", !.known = snap.known, !.dark = snap.dark])
  /\ demand' = TRUE
  /\ UNCHANGED <<notRead, faults, index, cached, shown>>

ReadResume(r) ==
  /\ reader[r].at = "resume"
  /\ Step(r, [reader[r] EXCEPT !.at = "probe", !.proc = snap.proc])
  /\ demand' = TRUE
  /\ UNCHANGED <<notRead, faults, index, cached, shown>>

\* TranscriptMtime: the cached verdict of this window, if the badge needs one.
Probe(r) ==
  /\ reader[r].at = "probe"
  /\ IF reader[r].live THEN Show(r, "absent") /\ UNCHANGED demand
     ELSE /\ demand' = TRUE
          /\ IF cached.current THEN Show(r, cached.file)
             ELSE /\ Step(r, [reader[r] EXCEPT !.at = IF index = None THEN "list" ELSE "stat",
                                              !.current = TRUE, !.listing = (index = TRUE)])
                  /\ UNCHANGED shown
  /\ UNCHANGED <<notRead, faults, index, cached>>

\* NewTranscriptIndex: the listing, or what a cancelled request has of it.
List(r) ==
  /\ reader[r].at = "list"
  /\ \/ /\ Step(r, [reader[r] EXCEPT !.at = "publish", !.listing = (world.file # "absent")])
        /\ UNCHANGED faults
     \/ /\ Fault
        /\ Step(r, [reader[r] EXCEPT !.at = "publish", !.listing = FALSE, !.whole = FALSE])
  /\ UNCHANGED <<notRead, demand, index, cached, shown>>

\* Mutant: a truncated listing is kept as well.
PublishedTruncated(r) ==
  IF ~reader[r].current THEN index ELSE reader[r].listing

\* The epoch's listing after indexedMtime has its own: kept if complete and still of the epoch.
Published(r) ==
  IF ~reader[r].current \/ ~reader[r].whole THEN index ELSE reader[r].listing

PublishIndex(r) ==
  /\ reader[r].at = "publish"
  /\ index' = Published(r)
  /\ Step(r, [reader[r] EXCEPT !.at = "stat",
                !.listing = IF ~reader[r].current /\ index # None THEN index ELSE @])
  /\ UNCHANGED <<notRead, faults, demand, cached, shown>>

\* There is a refresh window: a verdict probed before the first one is never served.
Window == snap.refreshed

\* Mtime, a stat of the listed file, cached for the window whatever listing it came from.  A
\* cancelled request's verdict is cached too, and shown to nobody.
Stat(r) ==
  /\ reader[r].at = "stat"
  /\ LET file == IF reader[r].listing THEN world.file ELSE "absent"
     IN /\ cached' = [current |-> Window, file |-> file]
        /\ IF reader[r].whole THEN Show(r, file) ELSE Step(r, Idle) /\ UNCHANGED shown
  /\ UNCHANGED <<notRead, faults, demand, index>>

BoardRead(r) ==
  ReadIDs(r) \/ ReadKnown(r) \/ ReadResume(r) \/ Probe(r) \/ List(r) \/ PublishIndex(r) \/ Stat(r)

-----------------------------------------------------------------------------
(* The world *)

\* The session starts, stops, or writes to its transcript; the transcript is removed.
Change ==
  /\ changes < MaxChanges /\ changes' = changes + 1
  /\ \/ world' = [world EXCEPT !.live = ~@]
     \/ world' = [world EXCEPT !.proc = ~@]
     \/ \E f \in {"absent", "recent"} \ {world.file} : world' = [world EXCEPT !.file = f]
  /\ stood' = (stood /\ world'.file # "absent")
  /\ UNCHANGED <<faults, state, poll, snap, demand, index, cached, refresh, reader, shown, heard>>

Older(f) == IF f = "recent" THEN "idle" ELSE f

\* LiveWindow passes without a write, also for a cached mtime.
Quieten ==
  /\ "recent" \in {world.file, cached.file}
  /\ world' = [world EXCEPT !.file = Older(@)] /\ cached' = [cached EXCEPT !.file = Older(@)]
  /\ UNCHANGED <<changes, faults, state, poll, snap, demand, index, stood, refresh, reader, shown, heard>>

Refresh == Tick \/ Scan \/ ReadSessions \/ Swap
Poll == PollRead \/ PollApply

Next == Poll \/ Refresh \/ (\E r \in Readers : BoardRead(r)) \/ Change \/ Quieten

\* Both loops run on timers for as long as the service does, a started read goes on, and an
\* open browser polls the board.
Fairness ==
  /\ WF_vars(Poll) /\ WF_vars(Refresh)
  /\ \A r \in Readers : WF_vars(BoardRead(r))

Spec == Init /\ [][Next]_vars /\ Fairness

-----------------------------------------------------------------------------
(* Properties *)

\* A listing that is kept for the epoch has every transcript that was there when the epoch
\* began and still is: none that a cancelled request left half done, and none begun before
\* the refresh, is published for all callers (indexedMtime's two exceptions).
ListingSound == index # None /\ stood => index

\* A read never offers to resume a session, as "quiet", that the store's last answer before
\* its snapshot called live, however many polls have failed since; nor on a snapshot taken
\* while the store could not be reached.
QuietBacked ==
  \A r \in Readers : shown[r].badge = "quiet" => shown[r].heard # TRUE /\ ~shown[r].dark

\* The badge of an up-to-date view of the world.
Truth == Classify([live |-> world.live, known |-> TRUE, proc |-> world.proc], world.file)

\* Whatever failed and however reads, polls and refreshes fell, the badge a polling browser
\* shows settles on the truth once nothing changes any more.
BadgeSettles == <>[](\A r \in Readers : shown[r].badge = Truth)

\* The comment on a listing that a refresh overtook or a cancelled request cut short: it
\* answers a single lookup.  So no cached verdict misses a transcript that was there all along.
VerdictSound == cached.current /\ stood => cached.file # "absent"

\* "Cannot tell" is never served as "nothing is live": a quiet badge rests on an answer.
QuietHeard == \A r \in Readers : shown[r].badge = "quiet" => shown[r].heard = FALSE
=============================================================================
