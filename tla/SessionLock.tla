---------------------------- MODULE SessionLock ----------------------------
(***************************************************************************)
(* The per-item session locks (pkg/sessionlock): a registry of entries,    *)
(* created when a caller asks for a key and evicted when its last user     *)
(* leaves.  An entry is a one-slot channel and a count of the callers      *)
(* inside the critical section or waiting for it.  A step is one critical  *)
(* section of the registry mutex or one channel operation.                 *)
(***************************************************************************)
EXTENDS Integers, FiniteSets

CONSTANTS Callers,    \* goroutines that call Lock
          Keys,       \* (vault, item) pairs
          Entries,    \* entry objects; one that nobody refers to can be reused
          None

ASSUME LockAssumption ==
  /\ IsFiniteSet(Callers)
  /\ None \notin Callers \cup Keys \cup Entries

VARIABLES
  entries,            \* registry.entries: the entry of each key
  holders, sem,       \* per entry: its users; is its channel full?
  at, key, ref        \* per caller: where it is, the key and the entry it uses

lockVars == <<entries, holders, sem, at, key, ref>>

LockInit ==
  /\ entries = [k \in Keys |-> None]
  /\ holders = [e \in Entries |-> 0]
  /\ sem = [e \in Entries |-> FALSE]
  /\ at = [c \in Callers |-> "out"]
  /\ key = [c \in Callers |-> None]
  /\ ref = [c \in Callers |-> None]

\* make(chan struct{}, 1) of a new entry.
Unused(e) == /\ \A k \in Keys : entries[k] # e
             /\ \A c \in Callers : ref[c] # e

\* Mutant: a caller is counted when it gets the lock, not when it starts to wait.
TrackUncounted(c, k) ==
  /\ at[c] = "out"
  /\ \E e \in Entries :
       /\ IF entries[k] = None THEN Unused(e) ELSE e = entries[k]
       /\ entries' = [entries EXCEPT ![k] = e]
       /\ holders' = [holders EXCEPT ![e] = IF entries[k] = None THEN 1 ELSE @]
       /\ sem' = [sem EXCEPT ![e] = IF entries[k] = None THEN FALSE ELSE @]
       /\ ref' = [ref EXCEPT ![c] = e]
  /\ at' = [at EXCEPT ![c] = "waiting"]
  /\ key' = [key EXCEPT ![c] = k]

\* Lock's critical section: find or create the entry, and count the caller as its user.
Track(c, k) ==
  /\ at[c] = "out"
  /\ \E e \in Entries :
       /\ IF entries[k] = None THEN Unused(e) ELSE e = entries[k]
       /\ entries' = [entries EXCEPT ![k] = e]
       /\ holders' = [holders EXCEPT ![e] = IF entries[k] = None THEN 1 ELSE @ + 1]
       /\ sem' = [sem EXCEPT ![e] = IF entries[k] = None THEN FALSE ELSE @]
       /\ ref' = [ref EXCEPT ![c] = e]
  /\ at' = [at EXCEPT ![c] = "waiting"]
  /\ key' = [key EXCEPT ![c] = k]

\* The select's first case: the send on the entry's channel went through.
Acquire(c) ==
  /\ at[c] = "waiting" /\ ~sem[ref[c]]
  /\ sem' = [sem EXCEPT ![ref[c]] = TRUE]
  /\ at' = [at EXCEPT ![c] = "inside"]
  /\ UNCHANGED <<entries, holders, key, ref>>

\* Its second case: the caller's context is done first.
Cancel(c) ==
  /\ at[c] = "waiting"
  /\ at' = [at EXCEPT ![c] = "leaving"]
  /\ UNCHANGED <<entries, holders, sem, key, ref>>

\* The release function takes the token out of the channel ...
Release(c) ==
  /\ at[c] = "inside" /\ sem[ref[c]]
  /\ sem' = [sem EXCEPT ![ref[c]] = FALSE]
  /\ at' = [at EXCEPT ![c] = "leaving"]
  /\ UNCHANGED <<entries, holders, key, ref>>

\* Mutant: the entry is evicted whoever still waits for it.
UnwindEvicts(c) ==
  /\ at[c] = "leaving"
  /\ holders' = [holders EXCEPT ![ref[c]] = @ - 1]
  /\ entries' = [entries EXCEPT ![key[c]] = None]
  /\ at' = [at EXCEPT ![c] = "out"]
  /\ key' = [key EXCEPT ![c] = None]
  /\ ref' = [ref EXCEPT ![c] = None]
  /\ UNCHANGED sem

\* ... and unwind, which a cancelled waiter runs too, evicts the entry with its last user.
Unwind(c) ==
  /\ at[c] = "leaving"
  /\ holders' = [holders EXCEPT ![ref[c]] = @ - 1]
  /\ entries' = IF holders[ref[c]] = 1 THEN [entries EXCEPT ![key[c]] = None] ELSE entries
  /\ at' = [at EXCEPT ![c] = "out"]
  /\ key' = [key EXCEPT ![c] = None]
  /\ ref' = [ref EXCEPT ![c] = None]
  /\ UNCHANGED sem

LockNext ==
  \E c \in Callers :
    \/ \E k \in Keys : Track(c, k)
    \/ Acquire(c) \/ Cancel(c) \/ Release(c) \/ Unwind(c)

LockSpec == LockInit /\ [][LockNext]_lockVars

-----------------------------------------------------------------------------
(* Properties *)

\* Every variable has its type; no user count falls below zero.
LockTypeOK ==
  /\ entries \in [Keys -> Entries \cup {None}]
  /\ holders \in [Entries -> Nat]
  /\ sem \in [Entries -> BOOLEAN]
  /\ at \in [Callers -> {"out", "waiting", "inside", "leaving"}]
  /\ key \in [Callers -> Keys \cup {None}]
  /\ ref \in [Callers -> Entries \cup {None}]

Users(e) == {c \in Callers : ref[c] = e}

\* The registry never parts from its users: while somebody waits for or holds a key's
\* entry, that entry is the registry's (a later caller gets the same lock), its count is
\* the number of those callers, and its channel is full exactly while one of them is
\* inside.  Entries nobody uses are not kept (Lock, release and unwind of sessionlock.go).
EntryShared ==
  /\ \A c \in Callers : /\ at[c] = "out" <=> ref[c] = None
                        /\ at[c] = "out" <=> key[c] = None
                        /\ ref[c] # None => entries[key[c]] = ref[c]
  /\ \A k, l \in Keys : entries[k] = entries[l] /\ entries[k] # None => k = l
  /\ \A k \in Keys : entries[k] # None =>
       /\ holders[entries[k]] = Cardinality(Users(entries[k]))
       /\ holders[entries[k]] > 0
  /\ \A c \in Callers : at[c] = "inside" => sem[ref[c]]
  /\ \A c, d \in Callers : at[c] = "inside" /\ at[d] = "inside" /\ ref[c] = ref[d] => c = d
  /\ \A k \in Keys : entries[k] # None /\ sem[entries[k]] =>
       \E c \in Callers : at[c] = "inside" /\ ref[c] = entries[k]

\* The refinement: a caller is inside from its send on the channel to its receive.
M == INSTANCE Mutex WITH inside <- [c \in Callers |-> IF at[c] = "inside" THEN key[c] ELSE None]

\* The locks implement a mutex per key: whatever cancelled waiters, leaving holders and
\* newcomers do, two callers are never inside one key's critical section.
MutexImplemented == M!Spec
=============================================================================
