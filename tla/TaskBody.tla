------------------------------ MODULE TaskBody ------------------------------
(***************************************************************************)
(* The rendered-body cache behind GET /api/tasks (pkg/board/taskbody.go)   *)
(* and the projection it holds (ListTasks, visibleRow).  A held body is    *)
(* good as long as the selected vaults' published-rows signals and every   *)
(* clock-derived field of it are unchanged; nothing else ever drops it but *)
(* the least-recently-used bound.                                          *)
(*                                                                         *)
(* A vault's task list is one row here.  The snapshot store (TaskList) is  *)
(* what its callers see of it: List publishes the vault's current row and  *)
(* moves the vault's signal when the row differs from the published one.   *)
(***************************************************************************)
EXTENDS Integers, Sequences, FiniteSets, SequencesExt

CONSTANTS Vaults,      \* configured vaults
          Queries,     \* queries: the vaults they select and their upcoming hours
          RowValues,   \* what a vault's row may be
          Readers,     \* goroutines calling ListTasksBody
          LookbackHours,
          MaxEntries,  \* taskBodyCacheMaxEntries
          MaxTime,     \* bound: the clock
          MaxChanges,  \* bound: changes of the vaults' rows
          MaxFaults    \* bound: failing projections

ASSUME TaskBodyAssumption ==
  /\ Queries \subseteq [vaults : SUBSET Vaults, upcoming : Nat]
  /\ RowValues \subseteq [kind : {"plain", "deferred", "completed"}, at : Int]
  /\ LookbackHours \in Nat /\ MaxEntries \in Nat \ {0}
  /\ {MaxTime, MaxChanges, MaxFaults} \subseteq Nat

VARIABLES
  now,                      \* the clock
  source,                   \* each vault's row as a build would derive it now
  rows, signal, signalSeq,  \* the snapshot store's published rows and signals
  entries, recency,         \* the held bodies; their queries, least recently used first
  pc, call,                 \* per reader: position and Get's locals
  changes, faults,          \* used-up bounds
  seen                      \* history: the rows each vault had during a reader's call

storeVars == <<rows, signal, signalSeq>>
cacheVars == <<entries, recency>>
vars == <<now, source, storeVars, cacheVars, pc, call, changes, faults, seen>>

NoRow    == [kind |-> "plain", at |-> 0]   \* never published: signal 0
Never    == -1                             \* the zero time: no expiry
Hidden   == [shown |-> "hidden", row |-> NoRow]
Nothing  == [v \in Vaults |-> Hidden]
NoEntry  == [body |-> Nothing, signals |-> [v \in Vaults |-> 0], expiresAt |-> Never,
             built |-> 0]
NoCall   == [query |-> [vaults |-> {}, upcoming |-> 0], todo |-> {}, started |-> 0,
             now |-> 0, projectedAt |-> 0, signals |-> [v \in Vaults |-> 0],
             body |-> Nothing, boundary |-> {}]

-----------------------------------------------------------------------------
(* The projection *)

\* visibleRow: what a row shows at an instant.
Shown(row, at, upcoming) ==
  CASE row.kind = "plain"     -> "plain"
    [] row.kind = "completed" -> IF row.at >= at - LookbackHours THEN "recent" ELSE "hidden"
    [] row.kind = "deferred"  -> IF row.at <= at THEN "plain"
                                 ELSE IF row.at <= at + upcoming THEN "upcoming"
                                 ELSE "hidden"

\* taskResponse of a visible row.
Response(row, at, upcoming) ==
  LET shown == Shown(row, at, upcoming) IN
  IF shown = "hidden" THEN Hidden ELSE [shown |-> shown, row |-> row]

\* Mutant: only the instant a deferred row becomes due is considered.
InstantsDueOnly(row, upcoming) ==
  CASE row.kind = "plain"     -> {}
    [] row.kind = "completed" -> {row.at + LookbackHours}
    [] row.kind = "deferred"  -> {row.at}

\* taskBodyBoundary's candidates for one row, ...
Instants(row, upcoming) ==
  CASE row.kind = "plain"     -> {}
    [] row.kind = "completed" -> {row.at + LookbackHours}
    [] row.kind = "deferred"  -> {row.at, row.at - upcoming}

\* ... and the earliest of them strictly after now.
Boundary(instants, at) ==
  LET later == {i \in instants : i > at} IN IF later = {} THEN Never ELSE Min(later)

-----------------------------------------------------------------------------
(* The snapshot store *)

\* snapshot.List of one vault publishes its current row.
ListVault(v) ==
  IF signal[v] > 0 /\ rows[v] = source[v]
    THEN UNCHANGED storeVars
    ELSE /\ rows' = [rows EXCEPT ![v] = source[v]]
         /\ signalSeq' = signalSeq + 1
         /\ signal' = [signal EXCEPT ![v] = signalSeq + 1]

\* taskSnapshotSignals of a selection.
Signals(vs) == [v \in Vaults |-> IF v \in vs THEN signal[v] ELSE 0]

-----------------------------------------------------------------------------
(* ListTasksBody *)

\* The request: refreshTaskSnapshots will drive each selected vault.
Begin(p, q) ==
  /\ pc[p] = "idle"
  /\ call' = [call EXCEPT ![p] = [NoCall EXCEPT !.query = q, !.todo = q.vaults,
                                                !.started = now]]
  /\ pc' = [pc EXCEPT ![p] = IF q.vaults = {} THEN "get" ELSE "drive"]
  /\ seen' = [seen EXCEPT ![p] = [v \in Vaults |-> {source[v]}]]
  /\ UNCHANGED <<now, source, storeVars, cacheVars, changes, faults>>

\* One vault of the selection is listed, on the way to position next.
Visit(p, v, next) ==
  /\ v \in call[p].todo
  /\ ListVault(v)
  /\ pc' = [pc EXCEPT ![p] = IF call[p].todo = {v} THEN next ELSE pc[p]]
  /\ UNCHANGED <<now, source, cacheVars, changes, faults, seen>>

\* Mutant: a vault that has published rows is not driven again.
DrivenOnce(p, v) ==
  /\ pc[p] = "drive"
  /\ v \in call[p].todo
  /\ IF signal[v] > 0 THEN UNCHANGED storeVars ELSE ListVault(v)
  /\ pc' = [pc EXCEPT ![p] = IF call[p].todo = {v} THEN "get" ELSE pc[p]]
  /\ call' = [call EXCEPT ![p].todo = @ \ {v}]
  /\ UNCHANGED <<now, source, cacheVars, changes, faults, seen>>

\* refreshTaskSnapshots drives every selected vault's read.
Drive(p, v) ==
  /\ pc[p] = "drive"
  /\ Visit(p, v, "get")
  /\ call' = [call EXCEPT ![p].todo = @ \ {v}]

\* Get reads the clock and the signals ...
ReadSignals(p) ==
  /\ pc[p] = "get"
  /\ call' = [call EXCEPT ![p].now = now,
                          ![p].signals = Signals(call[p].query.vaults)]
  /\ pc' = [pc EXCEPT ![p] = "lookup"]
  /\ UNCHANGED <<now, source, storeVars, cacheVars, changes, faults, seen>>

Held(q) == \E i \in DOMAIN recency : recency[i] = q
Unexpired(e, at) == e.expiresAt = Never \/ at < e.expiresAt

\* Is the held body still good for this call?
Good(c) == LET e == entries[c.query] IN
           Held(c.query) /\ e.signals = c.signals /\ Unexpired(e, c.now)

\* The held queries but this one, which is there at most once.
Without(q) ==
  IF Held(q) THEN RemoveAt(recency, CHOOSE i \in DOMAIN recency : recency[i] = q)
             ELSE recency

\* ... and looks for a held body that is still good, which it marks used, ...
Hit(p) ==
  LET q == call[p].query IN
  /\ pc[p] = "lookup"
  /\ Good(call[p])
  /\ recency' = Append(Without(q), q)
  /\ call' = [call EXCEPT ![p].body = entries[q].body, ![p].now = entries[q].built,
                          ![p].signals = NoCall.signals]
  /\ pc' = [pc EXCEPT ![p] = "return"]
  /\ UNCHANGED <<now, source, storeVars, entries, changes, faults, seen>>

\* ... dropping one that is not.
Miss(p) ==
  LET q == call[p].query IN
  /\ pc[p] = "lookup"
  /\ ~Good(call[p])
  /\ entries' = [entries EXCEPT ![q] = NoEntry]
  /\ recency' = Without(q)
  /\ call' = [call EXCEPT ![p].projectedAt = now, ![p].todo = q.vaults]
  /\ pc' = [pc EXCEPT ![p] = IF q.vaults = {} THEN "store" ELSE "project"]
  /\ UNCHANGED <<now, source, storeVars, changes, faults, seen>>

\* ListTasks projects one vault after the other at the instant it started ...
Project(p, v) ==
  /\ pc[p] = "project"
  /\ Visit(p, v, "rows")
  /\ call' = [call EXCEPT
       ![p].todo = IF @ = {v} THEN call[p].query.vaults ELSE @ \ {v},
       ![p].body[v] = Response(rows'[v], call[p].projectedAt, call[p].query.upcoming)]

\* ... and taskSnapshotRows reads the rows once more, for the boundary.
ReadRows(p, v) ==
  /\ pc[p] = "rows"
  /\ Visit(p, v, "store")
  /\ call' = [call EXCEPT
       ![p].todo = @ \ {v},
       ![p].boundary = @ \cup Instants(rows'[v], call[p].query.upcoming)]

\* A read, a projection or an encoding fails: nothing is held.
FailGet(p) ==
  /\ pc[p] \in {"drive", "project", "rows"}
  /\ faults < MaxFaults
  /\ faults' = faults + 1
  /\ call' = [call EXCEPT ![p] = NoCall]
  /\ pc' = [pc EXCEPT ![p] = "idle"]
  /\ seen' = [seen EXCEPT ![p] = [v \in Vaults |-> {}]]
  /\ UNCHANGED <<now, source, storeVars, cacheVars, changes>>

\* A body is held only if no signal moved while it was built.
Holds(c) == Signals(c.query.vaults) = c.signals

\* Mutant: the bound is checked before the body is added.
EvictedBeforeAdding(q) ==
  LET held == Without(q) IN
  Append(IF Len(held) > MaxEntries THEN Tail(held) ELSE held, q)

\* storeLocked: the new body is the most recently used one, and the least recently
\* used one goes when there are too many.
Evicted(q) ==
  LET held == Append(Without(q), q) IN
  IF Len(held) > MaxEntries THEN Tail(held) ELSE held

\* The end of Get: the signals are read again and the body is held, or not.
Store(p) ==
  LET c == call[p]
      entry == [body |-> c.body, signals |-> Signals(c.query.vaults),
                expiresAt |-> Boundary(c.boundary, c.now), built |-> c.now]
  IN
  /\ pc[p] = "store"
  /\ \/ /\ Holds(c)
        /\ recency' = Evicted(c.query)
        /\ entries' = [q \in Queries |-> IF q = c.query THEN entry
                                        ELSE IF \E i \in DOMAIN recency' : recency'[i] = q
                                          THEN entries[q] ELSE NoEntry]
     \/ /\ ~Holds(c)
        /\ UNCHANGED cacheVars
  /\ pc' = [pc EXCEPT ![p] = "return"]
  /\ call' = [call EXCEPT ![p] = [NoCall EXCEPT !.query = c.query, !.body = c.body,
                                   !.now = c.now, !.started = c.started]]
  /\ UNCHANGED <<now, source, storeVars, changes, faults, seen>>

Return(p) ==
  /\ pc[p] = "return"
  /\ pc' = [pc EXCEPT ![p] = "idle"]
  /\ call' = [call EXCEPT ![p] = NoCall]
  /\ seen' = [seen EXCEPT ![p] = [v \in Vaults |-> {}]]
  /\ UNCHANGED <<now, source, storeVars, cacheVars, changes, faults>>

-----------------------------------------------------------------------------
(* The environment *)

Tick ==
  /\ now + 1 <= MaxTime
  /\ now' = now + 1
  /\ UNCHANGED <<source, storeVars, cacheVars, pc, call, changes, faults, seen>>

\* A page or a session of the vault moves: the next List derives another row.
ChangeRow(v, r) ==
  /\ changes < MaxChanges /\ r # source[v]
  /\ changes' = changes + 1
  /\ source' = [source EXCEPT ![v] = r]
  /\ seen' = [p \in Readers |-> IF pc[p] = "idle" THEN seen[p]
                                ELSE [seen[p] EXCEPT ![v] = @ \cup {r}]]
  /\ UNCHANGED <<now, storeVars, cacheVars, pc, call, faults>>

Init ==
  /\ now = 0
  /\ source \in [Vaults -> RowValues]
  /\ rows = [v \in Vaults |-> NoRow] /\ signal = [v \in Vaults |-> 0] /\ signalSeq = 0
  /\ entries = [q \in Queries |-> NoEntry] /\ recency = <<>>
  /\ pc = [p \in Readers |-> "idle"] /\ call = [p \in Readers |-> NoCall]
  /\ changes = 0 /\ faults = 0
  /\ seen = [p \in Readers |-> [v \in Vaults |-> {}]]

Step(p) ==
  \/ ReadSignals(p) \/ Hit(p) \/ Miss(p) \/ FailGet(p) \/ Store(p) \/ Return(p)
  \/ \E v \in Vaults : Drive(p, v) \/ Project(p, v) \/ ReadRows(p, v)

Next ==
  \/ \E p \in Readers : Step(p) \/ \E q \in Queries : Begin(p, q)
  \/ Tick \/ \E v \in Vaults, r \in RowValues : ChangeRow(v, r)

Spec == Init /\ [][Next]_vars

-----------------------------------------------------------------------------
(* Properties *)

Signal == [Vaults -> Nat]
Bodies == [Vaults -> [shown : {"hidden", "plain", "upcoming", "recent"},
                      row : RowValues \cup {NoRow}]]

\* Every variable has its type, and the cache never holds more than its bound.
TypeOK ==
  /\ now \in Nat /\ source \in [Vaults -> RowValues]
  /\ rows \in [Vaults -> RowValues \cup {NoRow}]
  /\ signal \in Signal /\ signalSeq \in Nat
  /\ \A q \in Queries : /\ entries[q].body \in Bodies
                        /\ entries[q].signals \in Signal
  /\ recency \in Seq(Queries) /\ Len(recency) <= MaxEntries
  /\ pc \in [Readers -> {"idle", "drive", "get", "lookup", "project", "rows", "store",
                         "return"}]
  /\ \A p \in Readers : call[p].body \in Bodies /\ call[p].todo \subseteq Vaults

\* The one instant the boundary overlooks: a completed row is still shown at the end
\* of its lookback and no longer just after it, but a body that is built at that very
\* instant finds no later instant to expire at.
AgesOutAt(response, t) ==
  /\ response.shown = "recent"
  /\ response.row.at + LookbackHours = t

\* A body that the next request would be served is what rendering the published rows
\* now would give: no row has changed, come into view, fallen due or aged out, but for
\* the instant above.
HeldBodyCurrent ==
  \A q \in Queries :
    LET e == entries[q] IN
    Held(q) /\ e.signals = Signals(q.vaults) /\ Unexpired(e, now) =>
      \A v \in q.vaults : \/ e.body[v] = Response(rows[v], now, q.upcoming)
                          \/ AgesOutAt(e.body[v], e.built)

\* A response shows every selected vault as it was at some moment of the request,
\* whether it was rendered for it or held from an earlier one.
ServedDuringCall ==
  \A p \in Readers : pc[p] = "return" =>
    \A v \in call[p].query.vaults :
      \/ \E r \in seen[p][v], t \in call[p].started .. now :
           call[p].body[v] = Response(r, t, call[p].query.upcoming)
      \/ AgesOutAt(call[p].body[v], call[p].now)
=============================================================================
