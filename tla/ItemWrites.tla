----------------------------- MODULE ItemWrites -----------------------------
(***************************************************************************)
(* Everybody who writes one item's frontmatter: the queued routes          *)
(* (pkg/mutations: set and clear session, phase with approval and answers, *)
(* status, assignee, flag), the synchronous commands, the launch that      *)
(* binds its session id, and the cleanup sweep that repairs, clears and    *)
(* re-binds ids (pkg/cleanup).  The per-vault queue is the FIFO that       *)
(* module WriteQueue shows it to be.  Set and re-bind hold the item's lock *)
(* (SessionLock); nobody else does.  Every vault-cli call is one step that *)
(* can fail.  The claude_session_started marker is module Launch's.        *)
(***************************************************************************)
EXTENDS SessionLock, Sequences

CONSTANTS Consumer, Sweeper,   \* the queue's consumer and the sweep, as lock callers
          Item,                \* the lock key of the item
          UUIDs, Names,        \* session ids; display names
          user, Other,         \* the configured current user, or None; another assignee
          MaxWrites,           \* bound: accepted writes
          MaxInputs            \* bound: accepted writes, launches, commands, peer edits, and
                               \* sessions that start or end

ASSUME ItemAssumption ==
  /\ UUIDs \cap Names = {} /\ None \notin UUIDs \cup Names \cup {Other} /\ user # Other
  /\ MaxWrites \in Nat \ {0} /\ MaxInputs \in Nat

\* The item's two lock callers, among whoever else locks this item or others.
LockUsers == {Consumer, Sweeper} \subseteq Callers /\ Consumer # Sweeper /\ Item \in Keys

VARIABLES
  kind,                   \* "task" or "goal"
  item,                   \* the item's frontmatter
  live, transcripts,      \* the session running under the item's title; ids with a transcript
  known,                  \* the launch registry has a record of the item
  pending, work, outcome, \* queued writes, the one being applied, what became of each
  pc, next, result,       \* the consumer: its step, the status to write, what to report
  runner,                 \* the launch request's step
  sweep,                  \* the sweep: its step, the listed item, its live map, its target
  events,
  by, since, approver     \* history: who wrote the id; what held since the sweep got the
                          \* lock; the write that approved the task

writeVars == <<pending, work, outcome, pc, next, result>>
vars == <<lockVars, kind, item, live, transcripts, known, writeVars, runner, sweep,
          events, by, since, approver>>

Ids == 1..MaxWrites
Idle == [at |-> "idle", listed |-> None, live |-> None, target |-> None]
Chosen(p, u) == [Idle EXCEPT !.at = p, !.target = u]
Input == events < MaxInputs /\ events' = events + 1
Foreign(i) == i.owner \notin {None, user}

\* What must keep the sweep from re-binding the item.
Obstacles(i) == {o \in {"bound", "foreign"} : IF o = "bound" THEN i.session # None ELSE Foreign(i)}

Init ==
  /\ LockInit
  /\ kind \in {"task", "goal"}
  /\ \E s \in {None} \cup Names :
       item = [session |-> s, phase |-> "todo", status |-> "todo", owner |-> None,
               approved |-> FALSE, answers |-> {}]
  /\ live \in {None} \cup UUIDs /\ transcripts = {live} \ {None} /\ known = FALSE
  /\ pending = <<>> /\ work = None /\ outcome = [n \in Ids |-> "none"]
  /\ pc = "idle" /\ next = None /\ result = "none"
  /\ runner = "idle" /\ sweep = Idle /\ events = 0
  /\ by = "free" /\ since = {} /\ approver = None

-----------------------------------------------------------------------------
(* The request path: checks, then enqueueWrite and 202.  A refused request *)
(* changes nothing.                                                        *)

\* enqueueWrite: the write joins the vault's FIFO.
Accept(op, arg, answers) ==
  \E n \in Ids :
    /\ Input
    /\ outcome[n] = "none" /\ \A m \in 1..(n - 1) : outcome[m] # "none"
    /\ pending' = Append(pending, [n |-> n, op |-> op, arg |-> arg, answers |-> answers])
    /\ outcome' = [outcome EXCEPT ![n] = "queued"]
    /\ UNCHANGED <<lockVars, kind, item, live, transcripts, known, work, pc, next, result,
                   runner, sweep, by, since, approver>>

\* sessionConflict: another session's UUID is never overwritten.
Conflict(current, stored) == current \in UUIDs /\ current # stored

\* The value to store: a UUID as it is, a display name resolved if a transcript has it.
Stored(v) == IF v \in UUIDs THEN {v} ELSE {v} \cup UUIDs

SetTaskSession ==
  /\ kind = "task"
  /\ \E v \in UUIDs \cup Names : \E stored \in Stored(v) :
       /\ ~Conflict(item.session, stored)
       /\ Accept("set", stored, FALSE)

\* ClearTaskSession and ClearGoalSession.
ClearSession == Accept("clear", None, FALSE)

\* approveOwnerGuard, when its read succeeds: answers need a task waiting in the inbox, an
\* approval an owner.  Without answers a move to another phase than planning passes.
Guarded(phase, answers) ==
  \/ answers /\ phase # "planning"
  \/ phase = "planning" /\ answers /\ item.phase # "todo"
  \/ phase = "planning" /\ item.owner = None /\ user = None

\* A read that fails guards nothing but the phase itself.
UpdateTaskPhase ==
  /\ kind = "task"
  /\ \E phase \in {"planning", "done"}, answers, readable \in BOOLEAN :
       /\ IF readable THEN ~Guarded(phase, answers) ELSE ~(answers /\ phase # "planning")
       /\ Accept("phase", phase, answers)

\* UpdateTaskStatus, UpdateGoalStatus; AssignTaskToMe, AssignGoalToMe; UpdateFlag.
UpdateField ==
  \E f \in {"status", "owner", "flag"} :
    /\ f = "owner" => user # None
    /\ Accept("field", f, FALSE)

-----------------------------------------------------------------------------
(* The consumer applies one write at a time. *)

\* What a change of the id leaves of the history.
Wrote(who) ==
  /\ by' = IF item'.session # item.session THEN who ELSE by
  /\ since' = since \cap Obstacles(item')

FirstStep(op) ==
  CASE op = "set" -> "lock" [] op = "clear" -> "clear"
    [] op = "phase" -> "show" [] op = "field" -> "field"

Dequeue ==
  /\ pc = "idle" /\ pending # <<>>
  /\ work' = Head(pending) /\ pending' = Tail(pending)
  /\ pc' = FirstStep(Head(pending).op)
  /\ UNCHANGED <<lockVars, kind, item, live, transcripts, known, outcome, next, result,
                 runner, sweep, events, by, since, approver>>

envVars == <<kind, live, transcripts, known, pending, runner, sweep, events>>

\* Mutant: a failed write is dropped without a frame.
ReportSilent(r) ==
  /\ outcome' = IF r = "ok" THEN [outcome EXCEPT ![work.n] = r] ELSE outcome
  /\ work' = None /\ pc' = "idle" /\ next' = None /\ result' = "none"

\* Apply returns: the caches are marked and the frame goes out, or write_failed does.
Report(r) ==
  /\ outcome' = [outcome EXCEPT ![work.n] = r]
  /\ work' = None /\ pc' = "idle" /\ next' = None /\ result' = "none"

Goto(p) == pc' = p /\ UNCHANGED <<work, outcome, next, result>>

\* The single call of the status, assignee and flag routes (nothing here reads the flag).
WriteField ==
  /\ pc = "field"
  /\ \/ /\ item' = CASE work.arg = "status" -> [item EXCEPT !.status = "hold"]
                    [] work.arg = "owner" -> [item EXCEPT !.owner = user]
                    [] work.arg = "flag" -> item
        /\ Report("ok") /\ Wrote("free")
     \/ Report("failed") /\ UNCHANGED <<item, by, since>>
  /\ UNCHANGED <<envVars, lockVars, approver>>

\* A reset clears the id, then the marker: a task's reset fails with either call, a goal's
\* swallows the second.
WriteClear ==
  /\ \/ /\ pc = "clear"
        /\ \/ item' = [item EXCEPT !.session = None] /\ Goto("clear_marker") /\ Wrote("free")
           \/ Report("failed") /\ UNCHANGED <<item, by, since>>
     \/ /\ pc = "clear_marker"
        /\ \E r \in IF kind = "task" THEN {"ok", "failed"} ELSE {"ok"} : Report(r)
        /\ UNCHANGED <<item, by, since>>
  /\ UNCHANGED <<envVars, lockVars, approver>>

\* The phase write reads the task again: from the inbox a move to planning is the approval.
ShowPhase ==
  /\ pc = "show"
  /\ \E readable \in BOOLEAN :
       IF readable /\ work.arg = "planning" /\ item.phase = "todo"
       THEN /\ pc' = (IF work.answers THEN "answer" ELSE "approve") /\ next' = "next"
            /\ UNCHANGED <<work, outcome, result>>
       ELSE /\ pc' = "set_phase"
            /\ next' = (IF work.arg = "done" THEN "completed"
                        ELSE IF readable /\ item.status = "hold" THEN None ELSE "in_progress")
            /\ UNCHANGED <<work, outcome, result>>
  /\ UNCHANGED <<envVars, lockVars, item, by, since, approver>>

\* Mutant: the answers are recorded after the approval.
AnswerLast ==
  /\ pc = "answer"
  /\ Goto("approve")
  /\ UNCHANGED <<envVars, lockVars, item, by, since, approver>>

\* approveTask: the answers first ...
Answer ==
  /\ pc = "answer"
  /\ \/ item' = [item EXCEPT !.answers = @ \cup {work.n}] /\ Goto("approve") /\ Wrote("free")
     \/ Report("failed") /\ UNCHANGED <<item, by, since>>
  /\ UNCHANGED <<envVars, lockVars, approver>>

\* Approve refuses a task past the inbox, one already approved and one nobody owns.
Approvable == item.phase = "todo" /\ ~item.approved /\ (item.owner # None \/ user # None)
Approved == [item EXCEPT !.phase = "planning", !.approved = TRUE]

\* ... then the approval ...
Approve ==
  /\ pc = "approve"
  /\ \/ /\ Approvable
        /\ item' = Approved /\ approver' = work /\ Goto("status") /\ Wrote("free")
     \/ Report("failed") /\ UNCHANGED <<item, by, since, approver>>
  /\ UNCHANGED <<envVars, lockVars>>

\* The other moves write the phase by hand ...
SetPhase ==
  /\ pc = "set_phase"
  /\ \/ /\ item' = [item EXCEPT !.phase = work.arg] /\ Wrote("free")
        /\ IF next = None THEN Report("ok") ELSE Goto("status")
     \/ Report("failed") /\ UNCHANGED <<item, by, since>>
  /\ UNCHANGED <<envVars, lockVars, approver>>

\* ... and both end with the status that goes with it.
SetStatus ==
  /\ pc = "status"
  /\ \/ item' = [item EXCEPT !.status = next] /\ Report("ok") /\ Wrote("free")
     \/ Report("failed") /\ UNCHANGED <<item, by, since>>
  /\ UNCHANGED <<envVars, lockVars, approver>>

unlocked == <<envVars, item, by, since, approver>>

\* SetTaskSession's write: take the item's lock ...
SetLock ==
  /\ \/ pc = "lock" /\ Track(Consumer, Item) /\ Goto("wait")
     \/ pc = "wait" /\ Acquire(Consumer) /\ Goto("read")
  /\ UNCHANGED unlocked

\* Mutant: the conflict check of the request path is trusted.
SetTrusts ==
  /\ pc = "read" /\ Goto("write") /\ UNCHANGED <<unlocked, lockVars>>

\* ... read the binding again under it ...
SetRead ==
  /\ pc = "read"
  /\ \/ ~Conflict(item.session, work.arg) /\ Goto("write")
     \/ pc' = "release" /\ result' = "failed" /\ UNCHANGED <<work, outcome, next>>
  /\ UNCHANGED <<unlocked, lockVars>>

\* ... write ...
SetWrite ==
  /\ pc = "write"
  /\ \/ item' = [item EXCEPT !.session = work.arg] /\ result' = "ok" /\ Wrote("locked")
     \/ result' = "failed" /\ UNCHANGED <<item, by, since>>
  /\ pc' = "release" /\ UNCHANGED <<work, outcome, next>>
  /\ UNCHANGED <<envVars, lockVars, approver>>

\* ... and release before the outcome is reported.
SetRelease ==
  /\ \/ pc = "release" /\ Release(Consumer) /\ Goto("unwind")
     \/ pc = "unwind" /\ Unwind(Consumer) /\ Report(result)
  /\ UNCHANGED unlocked

Consume ==
  \/ Dequeue \/ WriteField \/ WriteClear
  \/ ShowPhase \/ Answer \/ Approve \/ SetPhase \/ SetStatus
  \/ SetLock \/ SetRead \/ SetWrite \/ SetRelease

-----------------------------------------------------------------------------
(* Requests that write on their own goroutine, without queue or lock. *)

quiet == <<lockVars, kind, writeVars, sweep>>

\* ExecuteTaskCommand and ExecuteGoalCommand: complete runs at once (defer writes a date).
ExecuteCommand ==
  /\ Input
  /\ item' = [item EXCEPT !.status = "completed", !.phase = "done"]
  /\ Wrote("free")
  /\ UNCHANGED <<quiet, live, transcripts, known, runner, approver>>

\* RunTask reads the task; one in the inbox is approved, then queued as next.
RunShow ==
  /\ runner = "idle" /\ Input
  /\ runner' = IF kind = "task" /\ item.phase = "todo" THEN "approve" ELSE "begin"
  /\ UNCHANGED <<quiet, item, live, transcripts, known, by, since, approver>>

RunApprove ==
  /\ \/ /\ runner = "approve" /\ Approvable
        /\ item' = Approved /\ runner' = "status"
     \/ /\ runner = "status"
        /\ item' = [item EXCEPT !.status = "next"] /\ runner' = "begin"
     \/ /\ runner \in {"approve", "status"}
        /\ runner' = "idle" /\ UNCHANGED item
  /\ Wrote("free")
  /\ UNCHANGED <<quiet, live, transcripts, known, events, approver>>

\* Begin records the launch; work-on binds a new session and writes its transcript, and a
\* launch that fails takes its id out again.
RunLaunch ==
  /\ \/ /\ runner = "begin" /\ known' = TRUE /\ runner' = "bind"
        /\ UNCHANGED <<item, transcripts, live>>
     \/ /\ runner = "bind"
        /\ \E u \in UUIDs : /\ item' = [item EXCEPT !.session = u]
                            /\ transcripts' = transcripts \cup {u} /\ live' = u
        /\ runner' \in {"idle", "undo"} /\ UNCHANGED known
     \/ /\ runner = "undo"
        /\ item' = [item EXCEPT !.session = None] /\ live' = None
        /\ runner' = "idle" /\ UNCHANGED <<transcripts, known>>
  /\ Wrote("free")
  /\ UNCHANGED <<quiet, events, approver>>

\* A merge from another machine rewrites the id or the assignee.
PeerEdit ==
  /\ Input
  /\ \/ \E s \in {None} \cup UUIDs : item' = [item EXCEPT !.session = s]
     \/ \E o \in {None, Other} : item' = [item EXCEPT !.owner = o]
  /\ Wrote("free")
  /\ UNCHANGED <<quiet, live, transcripts, known, runner, approver>>

\* A session starts or ends in a terminal; a transcript is deleted.
SessionEvent ==
  /\ Input
  /\ \/ \E u \in UUIDs : live' = u /\ transcripts' = transcripts \cup {u}
     \/ live' = None /\ UNCHANGED transcripts
     \/ \E u \in transcripts : transcripts' = transcripts \ {u} /\ live' = None
  /\ UNCHANGED <<quiet, item, known, runner, by, since, approver>>

-----------------------------------------------------------------------------
(* The cleanup sweep, as it meets this item. *)

still == <<kind, live, transcripts, known, writeVars, runner, events, approver>>

\* Run takes the live map once; runVault then lists the items (a failed list ends the pass).
SweepStart ==
  /\ sweep.at = "idle"
  /\ sweep' = [Idle EXCEPT !.at = "list", !.live = live]
  /\ UNCHANGED <<still, lockVars, item, by, since>>

SweepList ==
  /\ sweep.at = "list"
  /\ \/ sweep' = [sweep EXCEPT !.at = "decide",
                !.listed = [session |-> item.session, owner |-> item.owner, status |-> item.status]]
     \/ sweep' = Idle
  /\ UNCHANGED <<still, lockVars, item, by, since>>

\* shouldClearUUID: ours, no transcript, and this instance launched it.
ShouldClear(i) == ~Foreign(i) /\ i.session \notin transcripts /\ known

\* A display name resolves to the live session or to one whose transcript has the title.
Repair ==
  /\ sweep.listed.session \in Names
  /\ \/ \E u \in transcripts \cup ({sweep.live} \cap UUIDs) :
          sweep' = Chosen("repair", u)
     \/ sweep' = IF kind = "goal" THEN Chosen("clear", None) ELSE Idle

ClearStale ==
  /\ sweep.listed.session \in UUIDs
  /\ sweep' = IF ShouldClear(sweep.listed) THEN Chosen("clear", None) ELSE Idle

\* rebindEmptySessionIDs: an unfinished task of ours, not launched here, with a live session
\* of its title whose transcript is in this vault's project directory.
Rebindable(i) ==
  /\ kind = "task" /\ ~Foreign(i) /\ ~known
  /\ i.status # "completed"
  /\ sweep.live # None /\ sweep.live \in transcripts

RebindEmpty ==
  /\ sweep.listed.session = None
  /\ sweep' = IF Rebindable(sweep.listed) THEN Chosen("lock", sweep.live) ELSE Idle

SweepDecide ==
  /\ sweep.at = "decide"
  /\ Repair \/ ClearStale \/ RebindEmpty
  /\ UNCHANGED <<still, lockVars, item, by, since>>

\* repairDisplayName and clearItemSession write at once, without the lock; they may fail.
SweepWrite ==
  /\ \/ /\ sweep.at = "repair" /\ item' = [item EXCEPT !.session = sweep.target] /\ Wrote("sweep")
     \/ /\ sweep.at = "clear" /\ item' = [item EXCEPT !.session = None] /\ Wrote("sweep")
     \/ /\ sweep.at \in {"repair", "clear"} /\ UNCHANGED <<item, by, since>>
  /\ sweep' = Idle
  /\ UNCHANGED <<still, lockVars>>

\* rebindUnderLock: the wait for the lock is bounded ...
RebindLock ==
  /\ \/ /\ sweep.at = "lock" /\ Track(Sweeper, Item)
        /\ sweep' = [sweep EXCEPT !.at = "wait"] /\ UNCHANGED since
     \/ /\ sweep.at = "wait" /\ Acquire(Sweeper)
        /\ sweep' = [sweep EXCEPT !.at = "read"] /\ since' = Obstacles(item)
     \/ /\ sweep.at = "wait" /\ Cancel(Sweeper)
        /\ sweep' = Chosen("unwind", None) /\ UNCHANGED since
  /\ UNCHANGED <<still, item, by>>

\* Mutant: only the binding is read again, not the assignee.
RebindReadSession ==
  /\ sweep.at = "read"
  /\ \/ item.session = None /\ sweep' = [sweep EXCEPT !.at = "write"]
     \/ sweep' = [sweep EXCEPT !.at = "release"]
  /\ UNCHANGED <<still, lockVars, item, by, since>>

\* ... the task is read again under it, and left alone if it is bound or foreign by now (or
\* the read fails) ...
RebindRead ==
  /\ sweep.at = "read"
  /\ \/ Obstacles(item) = {} /\ sweep' = [sweep EXCEPT !.at = "write"]
     \/ sweep' = [sweep EXCEPT !.at = "release"]
  /\ UNCHANGED <<still, lockVars, item, by, since>>

RebindWrite ==
  /\ sweep.at = "write"
  /\ \/ item' = [item EXCEPT !.session = sweep.target] /\ Wrote("locked")
     \/ UNCHANGED <<item, by, since>>
  /\ sweep' = [sweep EXCEPT !.at = "release"]
  /\ UNCHANGED <<still, lockVars>>

RebindRelease ==
  /\ \/ /\ sweep.at = "release" /\ Release(Sweeper) /\ sweep' = Chosen("unwind", None)
     \/ /\ sweep.at = "unwind" /\ Unwind(Sweeper) /\ sweep' = Idle
  /\ since' = {}
  /\ UNCHANGED <<still, item, by>>

Sweep ==
  \/ SweepStart \/ SweepList \/ SweepDecide \/ SweepWrite
  \/ RebindLock \/ RebindRead \/ RebindWrite \/ RebindRelease

-----------------------------------------------------------------------------
Next ==
  \/ SetTaskSession \/ ClearSession \/ UpdateTaskPhase \/ UpdateField
  \/ Consume \/ Sweep
  \/ ExecuteCommand \/ RunShow \/ RunApprove \/ RunLaunch \/ PeerEdit \/ SessionEvent

\* The consumer and the sweep keep running, and every vault-cli call returns (the sweep's
\* are bounded).  The send of a waiter on the entry's channel is served first come, first
\* served, so a consumer whose lock is free again and again gets it.
Spec == Init /\ [][Next]_vars /\ WF_vars(Consume) /\ WF_vars(Sweep) /\ SF_vars(SetLock)

-----------------------------------------------------------------------------
(* Properties *)

\* The type of every variable; no lock's user count falls below zero.
ItemTypeOK ==
  /\ LockTypeOK
  /\ item.session \in UUIDs \cup Names \cup {None} /\ item.owner \in {user, Other, None}
  /\ outcome \in [Ids -> {"none", "queued", "ok", "failed"}]

\* A session bound by SetTaskSession or by the sweep's re-bind is never overwritten with
\* another by one of them, however long their checks wait: each reads again under the lock.
BindingKept ==
  [][by = "locked" /\ by' = "locked" /\ item.session \in UUIDs => item'.session = item.session]_vars

\* The sweep re-binds no task that was bound, or another user's, all the time it held the
\* lock: a listing that was old when the lock came decides nothing (rebindUnderLock).
RebindBlind ==
  [][RebindWrite /\ item' # item => since = {}]_vars

\* A task is never approved by a request whose answers are not in the file, whichever of the
\* answer, approval and status calls fail (approveTask's order).
AnswersBeforeApproval ==
  \A w \in {approver} \ {None} : w.answers => w.n \in item.answers

\* Every accepted write is applied or reported as failed in the end: the consumer never waits
\* for ever on a lock the sweep holds (enqueueWrite's frame; the sweep's bounded calls).
WriteAnswered ==
  \A n \in Ids : outcome[n] = "queued" ~> outcome[n] \in {"ok", "failed"}

\* What the sweep's package comment says of it: a valid id is never overwritten, and cleared
\* only if this instance launched it and its transcript is gone (cleanup.go:8).
RetentionInvariant ==
  [][by' = "sweep" /\ item.session \in UUIDs /\ item'.session # item.session =>
       item'.session = None /\ known /\ item.session \notin transcripts]_vars
=============================================================================
