------------------------------ MODULE WriteQueue ------------------------------
(***************************************************************************)
(* The write queue (pkg/queue): one FIFO of pending frontmatter writes per *)
(* vault, applied one at a time by a consumer goroutine that exists only   *)
(* while its vault has writes, until the service's context is cancelled.   *)
(*                                                                         *)
(* A step is one critical section of the queue mutex, the return of one    *)
(* Apply, or the cancellation.  A write is the number of its acceptance by *)
(* its vault.  The consumers of a vault are counted, not named: those at   *)
(* the head of drain's loop, and the writes being applied by the others.   *)
(***************************************************************************)
EXTENDS Integers, Sequences, FiniteSets

CONSTANTS Vaults,     \* the configured vaults
          Hung,       \* vaults an Apply of which may never return
          MaxWrites   \* bound: writes accepted per vault

ASSUME WriteQueueAssumption ==
  /\ Hung \subseteq Vaults
  /\ MaxWrites \in Nat

VARIABLES
  pending, running, done,   \* per vault: the vaultQueue; done is the number of
                            \* the vault's latest done channel, 0 if none
  open,                     \* per vault: its done channels that are not closed
  looping, applying,        \* per vault: consumers at drain's loop head; the
                            \* writes the others are applying
  consume,                  \* where the call of Consume is
  cancelled,                \* is the context Consume was called with cancelled?
  closed,
  accepted, applied, dropped   \* history: the writes taken in, applied and
                               \* dropped, per vault and in this order

queueVars   == <<pending, running, done, open>>
historyVars == <<accepted, applied, dropped>>
vars == <<queueVars, looping, applying, consume, cancelled, closed, historyVars>>

Init ==
  /\ pending = [v \in Vaults |-> <<>>]
  /\ running = [v \in Vaults |-> FALSE]
  /\ done = [v \in Vaults |-> 0]
  /\ open = [v \in Vaults |-> {}]
  /\ looping = [v \in Vaults |-> 0]
  /\ applying = [v \in Vaults |-> {}]
  /\ consume = "not called"
  /\ cancelled = FALSE
  /\ closed = FALSE
  /\ accepted = [v \in Vaults |-> <<>>]
  /\ applied = [v \in Vaults |-> <<>>]
  /\ dropped = [v \in Vaults |-> <<>>]

-----------------------------------------------------------------------------
(* The producers *)

\* Mutants: every write accepted while the consumers run starts one; only a vault's
\* first write does.
StartsConsumerAlways(v) == consume # "not called"
StartsConsumerOnce(v) == consume # "not called" /\ done[v] = 0

\* Does the write just accepted start the vault's consumer?
StartsConsumer(v) == consume # "not called" /\ ~running[v]

\* Mutant: a write that finds its vault's FIFO empty opens a new done channel.
OpensDoneIfEmpty(v) == pending[v] = <<>>

\* Does it make the vault busy?
OpensDone(v) == pending[v] = <<>> /\ ~running[v]

\* Enqueue of a valid write.  A closed queue rejects it, changing nothing.
Enqueue(v) ==
  LET w == Len(accepted[v]) + 1 IN
  /\ ~closed
  /\ w <= MaxWrites
  /\ accepted' = [accepted EXCEPT ![v] = Append(@, w)]
  /\ pending' = [pending EXCEPT ![v] = Append(@, w)]
  /\ done' = [done EXCEPT ![v] = IF OpensDone(v) THEN @ + 1 ELSE @]
  /\ open' = [open EXCEPT ![v] = IF OpensDone(v) THEN @ \cup {done[v] + 1} ELSE @]
  /\ running' = [running EXCEPT ![v] = @ \/ StartsConsumer(v)]
  /\ looping' = [looping EXCEPT ![v] = IF StartsConsumer(v) THEN @ + 1 ELSE @]
  /\ UNCHANGED <<applying, consume, cancelled, closed, applied, dropped>>

-----------------------------------------------------------------------------
(* Consume *)

\* Its first critical section starts a consumer for every vault that has writes.
Consume ==
  LET Starts(v) == pending[v] # <<>> /\ ~running[v] IN
  /\ consume = "not called"
  /\ consume' = "waiting"
  /\ running' = [v \in Vaults |-> running[v] \/ Starts(v)]
  /\ looping' = [v \in Vaults |-> IF Starts(v) THEN looping[v] + 1 ELSE looping[v]]
  /\ UNCHANGED <<pending, done, open, applying, cancelled, closed, historyVars>>

\* The service is asked to stop.
Cancel ==
  /\ consume # "not called" /\ ~cancelled
  /\ cancelled' = TRUE
  /\ UNCHANGED <<queueVars, looping, applying, consume, closed, historyVars>>

\* Consume sees it and closes the queue ...
Close ==
  /\ consume = "waiting" /\ cancelled
  /\ consume' = "closing"
  /\ closed' = TRUE
  /\ UNCHANGED <<queueVars, looping, applying, cancelled, historyVars>>

\* Mutants: only the consumers at their loop head are waited for; Consume waits for
\* every accepted write to be applied.
LoopsIdle == \A v \in Vaults : looping[v] = 0
AllApplied == \A v \in Vaults : Len(applied[v]) = Len(accepted[v])

\* ... and waits for every consumer to end.
WaitGroupIdle == \A v \in Vaults : looping[v] = 0 /\ applying[v] = {}

ConsumeReturn ==
  /\ consume = "closing"
  /\ WaitGroupIdle
  /\ consume' = "returned"
  /\ UNCHANGED <<queueVars, looping, applying, cancelled, closed, historyVars>>

-----------------------------------------------------------------------------
(* drain *)

\* A cancelled consumer drops what is left and ends.
Drop(v) ==
  /\ looping[v] > 0 /\ cancelled
  /\ dropped' = [dropped EXCEPT ![v] = @ \o pending[v]]
  /\ pending' = [pending EXCEPT ![v] = <<>>]
  /\ running' = [running EXCEPT ![v] = FALSE]
  /\ open' = [open EXCEPT ![v] = @ \ {done[v]}]
  /\ looping' = [looping EXCEPT ![v] = @ - 1]
  /\ UNCHANGED <<done, applying, consume, cancelled, closed, accepted, applied>>

\* A consumer with nothing left to apply ends.
Leave(v) ==
  /\ looping[v] > 0 /\ ~cancelled /\ pending[v] = <<>>
  /\ running' = [running EXCEPT ![v] = FALSE]
  /\ open' = [open EXCEPT ![v] = @ \ {done[v]}]
  /\ looping' = [looping EXCEPT ![v] = @ - 1]
  /\ UNCHANGED <<pending, done, applying, consume, cancelled, closed, historyVars>>

\* Mutant: the newest write is taken first.
TakeNewest(v) ==
  LET n == Len(pending[v]) IN
  /\ looping[v] > 0 /\ ~cancelled /\ n > 0
  /\ pending' = [pending EXCEPT ![v] = SubSeq(@, 1, n - 1)]
  /\ looping' = [looping EXCEPT ![v] = @ - 1]
  /\ applying' = [applying EXCEPT ![v] = @ \cup {pending[v][n]}]
  /\ UNCHANGED <<running, done, open, consume, cancelled, closed, historyVars>>

\* Otherwise it takes the oldest write ...
Take(v) ==
  /\ looping[v] > 0 /\ ~cancelled /\ pending[v] # <<>>
  /\ pending' = [pending EXCEPT ![v] = Tail(@)]
  /\ looping' = [looping EXCEPT ![v] = @ - 1]
  /\ applying' = [applying EXCEPT ![v] = @ \cup {Head(pending[v])}]
  /\ UNCHANGED <<running, done, open, consume, cancelled, closed, historyVars>>

\* ... and applies it; applyOne swallows an error and a panic.
ApplyReturn(v, w) ==
  /\ w \in applying[v]
  /\ applying' = [applying EXCEPT ![v] = @ \ {w}]
  /\ applied' = [applied EXCEPT ![v] = Append(@, w)]
  /\ looping' = [looping EXCEPT ![v] = @ + 1]
  /\ UNCHANGED <<queueVars, consume, cancelled, closed, accepted, dropped>>

Drain(v) == Drop(v) \/ Leave(v) \/ Take(v)

Next ==
  \/ \E v \in Vaults : \/ Enqueue(v) \/ Drain(v)
                       \/ \E w \in applying[v] : ApplyReturn(v, w)
  \/ Consume \/ Cancel \/ Close \/ ConsumeReturn

\* The service calls Consume when it starts, goroutines that can run do, and the
\* writes of a vault that is not hung return.
Fairness ==
  /\ WF_vars(Consume) /\ WF_vars(Close) /\ WF_vars(ConsumeReturn)
  /\ \A v \in Vaults : WF_vars(Drain(v))
  /\ \A v \in Vaults \ Hung : WF_vars(\E w \in applying[v] : ApplyReturn(v, w))

Spec == Init /\ [][Next]_vars
FairSpec == Spec /\ Fairness

-----------------------------------------------------------------------------
(* Properties *)

\* Every variable has its type.
TypeOK ==
  /\ pending \in [Vaults -> Seq(Nat)]
  /\ running \in [Vaults -> BOOLEAN]
  /\ done \in [Vaults -> Nat]
  /\ open \in [Vaults -> SUBSET Nat]
  /\ looping \in [Vaults -> Nat]
  /\ applying \in [Vaults -> SUBSET Nat]
  /\ consume \in {"not called", "waiting", "closing", "returned"}
  /\ cancelled \in BOOLEAN /\ closed \in BOOLEAN
  /\ accepted \in [Vaults -> Seq(Nat)]
  /\ applied \in [Vaults -> Seq(Nat)]
  /\ dropped \in [Vaults -> Seq(Nat)]

\* While a vault has a pending or in-flight write exactly its latest done channel is
\* open, and otherwise none: whoever got a channel from Done sees it closed when the
\* vault is idle, not earlier, and no channel is closed twice.
DoneTracksIdle ==
  \A v \in Vaults :
    open[v] = IF pending[v] # <<>> \/ running[v] THEN {done[v]} ELSE {}

\* Once the consumers run, a vault with pending writes has one consumer, never two,
\* and it applies one write at a time.
OneConsumer ==
  \A v \in Vaults :
    /\ running[v] <=> (looping[v] > 0 \/ applying[v] # {})
    /\ looping[v] = 0 \/ (looping[v] = 1 /\ applying[v] = {})
    /\ \A w, x \in applying[v] : w = x
    /\ consume # "not called" /\ pending[v] # <<>> => running[v]

\* The writes of a vault are applied in the order they were accepted, each once; the
\* ones not applied are those being applied, those still pending and, after the
\* cancellation only, those dropped.
AppliedInOrder ==
  \A v \in Vaults :
    /\ \/ /\ applying[v] = {}
          /\ accepted[v] = applied[v] \o dropped[v] \o pending[v]
       \/ /\ dropped[v] = <<>>
          /\ \E w \in applying[v] : accepted[v] = applied[v] \o <<w>> \o pending[v]
    /\ dropped[v] # <<>> => cancelled

\* When Consume has returned nothing is being applied or will be.
ReturnedMeansStopped ==
  consume = "returned" =>
    \A v \in Vaults : applying[v] = {} /\ looping[v] = 0 /\ pending[v] = <<>>

\* A write accepted for a vault whose own writes return is applied, even while
\* another vault's write hangs, unless the service stops.
WritesApplied ==
  \A v \in Vaults \ Hung, n \in 1 .. MaxWrites :
    Len(accepted[v]) >= n ~> (Len(applied[v]) >= n \/ cancelled)

\* A cancelled Consume returns, whatever was pending, unless a write hangs.
ConsumeReturns ==
  cancelled ~> (consume = "returned" \/ \E v \in Hung : applying[v] # {})
===============================================================================
