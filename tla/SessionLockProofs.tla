-------------------------- MODULE SessionLockProofs --------------------------
(***************************************************************************)
(* Theorems about the session locks, for any number of callers, keys and   *)
(* entries: the registry never parts from its users, and it implements a   *)
(* mutex per key; and about the writers of one item that use them.         *)
(***************************************************************************)
EXTENDS ItemWrites, FiniteSetTheorems, SequenceTheorems, TLAPS

-----------------------------------------------------------------------------
(* The parts of EntryShared, one per idea *)

\* A caller that is not out has an entry and a key, and the registry has that entry.
Attached ==
  \A c \in Callers : /\ at[c] = "out" <=> ref[c] = None
                     /\ at[c] = "out" <=> key[c] = None
                     /\ ref[c] # None => entries[key[c]] = ref[c]

\* Two keys have two entries.
Apart == \A k, l \in Keys : entries[k] = entries[l] /\ entries[k] # None => k = l

Registered(e) == \E k \in Keys : entries[k] = e

\* An entry of the registry counts its users, of which there is one.
Counted ==
  \A e \in Entries : Registered(e) =>
    holders[e] = Cardinality(Users(e)) /\ holders[e] > 0

\* The token is in the channel of a registered entry exactly while its one holder is inside.
Token ==
  /\ \A c \in Callers : at[c] = "inside" => sem[ref[c]]
  /\ \A c, d \in Callers : at[c] = "inside" /\ at[d] = "inside" /\ ref[c] = ref[d] => c = d
  /\ \A e \in Entries : Registered(e) /\ sem[e] => \E c \in Callers : at[c] = "inside" /\ ref[c] = e

IInv == LockTypeOK /\ Attached /\ Apart /\ Counted /\ Token

-----------------------------------------------------------------------------
(* Users *)

\* The users of an entry are a finite set, as the callers are.
LEMMA UsersFinite ==
  ASSUME NEW e
  PROVE  IsFiniteSet(Users(e))
BY LockAssumption, FS_Subset DEF LockAssumption, Users

\* The count goes up by one with a caller that was nobody's user.
LEMMA UsersAdd ==
  ASSUME NEW e \in Entries, NEW c \in Callers, ref \in [Callers -> Entries \cup {None}],
         ref[c] # e, ref' = [ref EXCEPT ![c] = e]
  PROVE  Cardinality(Users(e)') = Cardinality(Users(e)) + 1
<1>1. Users(e)' = Users(e) \cup {c} /\ c \notin Users(e)
  BY DEF Users
<1> QED
  BY <1>1, UsersFinite, FS_AddElement

\* It goes down by one with a user that leaves.
LEMMA UsersRemove ==
  ASSUME NEW e \in Entries, NEW c \in Callers, ref \in [Callers -> Entries \cup {None}],
         ref[c] = e, ref' = [ref EXCEPT ![c] = None]
  PROVE  Cardinality(Users(e)') = Cardinality(Users(e)) - 1
<1>1. Users(e)' = Users(e) \ {c} /\ c \in Users(e)
  BY LockAssumption DEF LockAssumption, Users
<1> QED
  BY <1>1, UsersFinite, FS_RemoveElement

\* An entry whose user set stays what it was keeps its count.
LEMMA UsersOther ==
  ASSUME NEW e, NEW f, NEW c \in Callers, ref \in [Callers -> Entries \cup {None}],
         ref[c] # e, f # e, ref' = [ref EXCEPT ![c] = f]
  PROVE  Cardinality(Users(e)') = Cardinality(Users(e))
<1>1. Users(e)' = Users(e)
  BY DEF Users
<1> QED
  BY <1>1

\* A user of an entry that counts one user is that user.
LEMMA UsersOne ==
  ASSUME NEW e, NEW c \in Users(e), NEW d \in Users(e), Cardinality(Users(e)) = 1
  PROVE  c = d
BY UsersFinite, FS_Singleton

-----------------------------------------------------------------------------
(* Every action keeps the invariant *)

\* LockInit: nobody is anybody's user.
LEMMA InitInv == LockInit => IInv
BY LockAssumption DEF LockAssumption, LockInit, IInv, LockTypeOK, Attached, Apart, Counted, Token, Registered

\* Lock's first critical section, on a key without an entry and on one with.
LEMMA TrackInv ==
  ASSUME IInv, NEW c \in Callers, NEW k \in Keys, Track(c, k)
  PROVE  IInv'
<1> USE LockAssumption DEF LockAssumption
<1>1. PICK e \in Entries :
        /\ IF entries[k] = None THEN Unused(e) ELSE e = entries[k]
        /\ entries' = [entries EXCEPT ![k] = e]
        /\ holders' = [holders EXCEPT ![e] = IF entries[k] = None THEN 1 ELSE @ + 1]
        /\ sem' = [sem EXCEPT ![e] = IF entries[k] = None THEN FALSE ELSE @]
        /\ ref' = [ref EXCEPT ![c] = e]
  BY DEF Track
<1>2. at[c] = "out" /\ at' = [at EXCEPT ![c] = "waiting"] /\ key' = [key EXCEPT ![c] = k]
  BY DEF Track
<1>3. ref[c] = None /\ e # None /\ k # None
  BY <1>2 DEF IInv, Attached
<1>4. LockTypeOK'
  <2>1. holders' \in [Entries -> Nat] /\ sem' \in [Entries -> BOOLEAN]
    <3>1. CASE entries[k] = None
      BY <3>1, <1>1 DEF IInv, LockTypeOK
    <3>2. CASE entries[k] # None
      BY <3>2, <1>1 DEF IInv, LockTypeOK
    <3> QED
      BY <3>1, <3>2
  <2> QED
    BY <2>1, <1>1, <1>2 DEF IInv, LockTypeOK
<1>5. \A d \in Callers : d # c /\ ref[d] = e => entries[k] = e
  BY <1>1 DEF Unused
<1>6. \A l \in Keys : l # k => entries[l] # e
  <2>1. CASE entries[k] = None
    BY <1>1, <2>1 DEF Unused
  <2>2. CASE entries[k] # None
    BY <1>1, <1>3, <2>2 DEF IInv, Apart
  <2> QED
    BY <2>1, <2>2
<1>7. Attached'
  <2>1. ASSUME NEW d \in Callers, d # c, ref[d] # None
        PROVE  entries'[key'[d]] = ref'[d]
    <3>1. entries[key[d]] = ref[d] /\ key[d] \in Keys
      BY <2>1 DEF IInv, Attached, LockTypeOK
    <3>2. CASE key[d] = k
      BY <3>1, <3>2, <2>1, <1>1, <1>2 DEF IInv, LockTypeOK
    <3>3. CASE key[d] # k
      BY <3>1, <3>3, <2>1, <1>1, <1>2 DEF IInv, LockTypeOK
    <3> QED
      BY <3>2, <3>3
  <2> QED
    BY <2>1, <1>1, <1>2, <1>3 DEF IInv, Attached, LockTypeOK
<1>8. Apart'
  BY <1>1, <1>6 DEF IInv, Apart, LockTypeOK
<1>9. Counted'
  <2> SUFFICES ASSUME NEW f \in Entries, Registered(f)'
               PROVE  holders'[f] = Cardinality(Users(f)') /\ holders'[f] > 0
    BY DEF Counted
  <2>1. CASE f # e
    <3>1. Registered(f)
      BY <2>1, <1>1 DEF Registered, IInv, LockTypeOK
    <3>2. holders'[f] = holders[f]
      BY <2>1, <1>1 DEF IInv, LockTypeOK
    <3>3. Cardinality(Users(f)') = Cardinality(Users(f))
      BY <2>1, <1>1, <1>3, UsersOther DEF IInv, LockTypeOK
    <3> QED
      BY <3>1, <3>2, <3>3 DEF IInv, Counted
  <2>2. CASE f = e /\ entries[k] = None
    <3>1. Users(e) = {}
      BY <2>2, <1>1 DEF Unused, Users
    <3>2. Cardinality(Users(e)') = Cardinality(Users(e)) + 1
      BY <1>1, <1>3, UsersAdd DEF IInv, LockTypeOK
    <3>3. holders'[e] = 1
      BY <2>2, <1>1 DEF IInv, LockTypeOK
    <3> QED
      BY <2>2, <3>1, <3>2, <3>3, FS_EmptySet
  <2>3. CASE f = e /\ entries[k] # None
    <3>1. Registered(e) /\ holders[e] \in Nat
      BY <2>3, <1>1 DEF Registered, IInv, LockTypeOK
    <3>2. Cardinality(Users(e)') = Cardinality(Users(e)) + 1
      BY <1>1, <1>3, UsersAdd DEF IInv, LockTypeOK
    <3>3. holders'[e] = holders[e] + 1
      BY <2>3, <1>1 DEF IInv, LockTypeOK
    <3> QED
      BY <2>3, <3>1, <3>2, <3>3 DEF IInv, Counted
  <2> QED
    BY <2>1, <2>2, <2>3
<1>10. Token'
  <2>1. \A d \in Callers : at'[d] = "inside" =>
          at[d] = "inside" /\ d # c /\ ref'[d] = ref[d] /\ ref[d] \in Entries
    BY <1>1, <1>2 DEF IInv, LockTypeOK, Attached
  <2>2. \A f \in Entries : Registered(f)' /\ sem'[f] => Registered(f) /\ sem[f]
    <3>1. CASE entries[k] = None
      BY <3>1, <1>1 DEF Registered, IInv, LockTypeOK
    <3>2. CASE entries[k] # None
      BY <3>2, <1>1 DEF Registered, IInv, LockTypeOK
    <3> QED
      BY <3>1, <3>2
  <2>3. \A d \in Callers : at'[d] = "inside" => sem'[ref'[d]]
    <3> SUFFICES ASSUME NEW d \in Callers, at'[d] = "inside" PROVE sem'[ref[d]]
      BY <2>1
    <3>1. sem[ref[d]] /\ ref[d] \in Entries /\ d # c
      BY <2>1 DEF IInv, Token
    <3>2. CASE ref[d] # e
      BY <3>1, <3>2, <1>1 DEF IInv, LockTypeOK
    <3>3. CASE ref[d] = e
      BY <3>1, <3>3, <1>1, <1>3, <1>5 DEF IInv, LockTypeOK
    <3> QED
      BY <3>2, <3>3
  <2>4. \A f \in Entries : Registered(f)' /\ sem'[f] => \E d \in Callers : at'[d] = "inside" /\ ref'[d] = f
    <3> SUFFICES ASSUME NEW f \in Entries, Registered(f), sem[f]
                 PROVE  \E d \in Callers : at'[d] = "inside" /\ ref'[d] = f
      BY <2>2
    <3>1. PICK d \in Callers : at[d] = "inside" /\ ref[d] = f
      BY DEF IInv, Token
    <3> QED
      BY <3>1, <1>1, <1>2 DEF IInv, LockTypeOK
  <2> QED
    BY <2>1, <2>3, <2>4 DEF IInv, Token
<1> QED
  BY <1>4, <1>7, <1>8, <1>9, <1>10 DEF IInv

\* The send on the channel goes through only if nobody is inside.
LEMMA AcquireInv ==
  ASSUME IInv, NEW c \in Callers, Acquire(c)
  PROVE  IInv'
<1> USE LockAssumption DEF LockAssumption
<1>1. /\ at[c] = "waiting" /\ ~sem[ref[c]]
      /\ sem' = [sem EXCEPT ![ref[c]] = TRUE] /\ at' = [at EXCEPT ![c] = "inside"]
      /\ UNCHANGED <<entries, holders, key, ref>>
  BY DEF Acquire
<1>2. ref[c] \in Entries
  BY <1>1 DEF IInv, LockTypeOK, Attached
<1>3. LockTypeOK'
  BY <1>1, <1>2 DEF IInv, LockTypeOK
<1>4. Attached' /\ Apart' /\ Counted'
  BY <1>1 DEF IInv, LockTypeOK, Attached, Apart, Counted, Registered, Users
<1>5. \A d \in Callers : at[d] = "inside" => ref[d] # ref[c] /\ d # c
  BY <1>1 DEF IInv, Token
<1>6. \A d \in Callers : at'[d] = "inside" => sem'[ref'[d]]
  <2> SUFFICES ASSUME NEW d \in Callers, at'[d] = "inside" PROVE sem'[ref[d]]
    BY <1>1
  <2>1. CASE d = c
    BY <2>1, <1>1, <1>2 DEF IInv, LockTypeOK
  <2>2. CASE d # c
    <3>1. sem[ref[d]] /\ ref[d] # ref[c] /\ ref[d] \in Entries
      BY <2>2, <1>1, <1>5 DEF IInv, LockTypeOK, Token, Attached
    <3> QED
      BY <3>1, <1>1 DEF IInv, LockTypeOK
  <2> QED
    BY <2>1, <2>2
<1>7. \A d, f \in Callers : at'[d] = "inside" /\ at'[f] = "inside" /\ ref'[d] = ref'[f] => d = f
  BY <1>1, <1>5 DEF IInv, LockTypeOK, Token
<1>8. ASSUME NEW e \in Entries, Registered(e)', sem'[e]
      PROVE  \E d \in Callers : at'[d] = "inside" /\ ref'[d] = e
  <2>1. CASE e = ref[c]
    BY <2>1, <1>1 DEF IInv, LockTypeOK
  <2>2. CASE e # ref[c]
    <3>1. Registered(e) /\ sem[e]
      BY <2>2, <1>8, <1>1 DEF Registered, IInv, LockTypeOK
    <3>2. PICK d \in Callers : at[d] = "inside" /\ ref[d] = e
      BY <3>1 DEF IInv, Token
    <3> QED
      BY <3>2, <1>1 DEF IInv, LockTypeOK
  <2> QED
    BY <2>1, <2>2
<1> QED
  BY <1>3, <1>4, <1>6, <1>7, <1>8 DEF IInv, Token

\* A waiter that gives up stays counted until it unwinds.
LEMMA CancelInv ==
  ASSUME IInv, NEW c \in Callers, Cancel(c)
  PROVE  IInv'
<1>1. /\ at[c] = "waiting" /\ at' = [at EXCEPT ![c] = "leaving"]
      /\ UNCHANGED <<entries, holders, sem, key, ref>>
  BY DEF Cancel
<1>2. LockTypeOK' /\ Attached' /\ Apart' /\ Counted'
  <2>1. LockTypeOK' /\ Apart'
    BY <1>1 DEF IInv, LockTypeOK, Apart
  <2>2. Attached'
    BY <1>1 DEF IInv, LockTypeOK, Attached
  <2>3. Counted'
    BY <1>1 DEF IInv, Counted, Registered, Users
  <2> QED
    BY <2>1, <2>2, <2>3
<1>3. \A d \in Callers : at'[d] = "inside" <=> at[d] = "inside"
  BY <1>1 DEF IInv, LockTypeOK
<1>4. Token'
  BY <1>1, <1>3 DEF IInv, Token, Registered
<1> QED
  BY <1>2, <1>4 DEF IInv

\* The release function empties the channel of the entry its caller alone was inside of.
LEMMA ReleaseInv ==
  ASSUME IInv, NEW c \in Callers, Release(c)
  PROVE  IInv'
<1> USE LockAssumption DEF LockAssumption
<1>1. /\ at[c] = "inside"
      /\ sem' = [sem EXCEPT ![ref[c]] = FALSE] /\ at' = [at EXCEPT ![c] = "leaving"]
      /\ UNCHANGED <<entries, holders, key, ref>>
  BY DEF Release
<1>2. ref[c] \in Entries
  BY <1>1 DEF IInv, LockTypeOK, Attached
<1>3. LockTypeOK' /\ Attached' /\ Apart' /\ Counted'
  BY <1>1, <1>2 DEF IInv, LockTypeOK, Attached, Apart, Counted, Registered, Users
<1>4. \A d \in Callers : at'[d] = "inside" => at[d] = "inside" /\ ref[d] # ref[c]
  BY <1>1 DEF IInv, LockTypeOK, Token
<1>5. \A d \in Callers : at'[d] = "inside" => sem'[ref'[d]]
  <2> SUFFICES ASSUME NEW d \in Callers, at'[d] = "inside" PROVE sem'[ref[d]]
    BY <1>1
  <2>1. sem[ref[d]] /\ ref[d] # ref[c] /\ ref[d] \in Entries
    BY <1>4 DEF IInv, LockTypeOK, Token, Attached
  <2> QED
    BY <2>1, <1>1 DEF IInv, LockTypeOK
<1>6. ASSUME NEW e \in Entries, Registered(e)', sem'[e]
      PROVE  \E d \in Callers : at'[d] = "inside" /\ ref'[d] = e
  <2>1. Registered(e) /\ sem[e] /\ e # ref[c]
    BY <1>6, <1>1, <1>2 DEF Registered, IInv, LockTypeOK
  <2>2. PICK d \in Callers : at[d] = "inside" /\ ref[d] = e
    BY <2>1 DEF IInv, Token
  <2> QED
    BY <2>1, <2>2, <1>1 DEF IInv, LockTypeOK
<1> QED
  BY <1>1, <1>3, <1>4, <1>5, <1>6 DEF IInv, Token

\* unwind: an entry is evicted with its last user and with no other.
LEMMA UnwindInv ==
  ASSUME IInv, NEW c \in Callers, Unwind(c)
  PROVE  IInv'
<1> USE LockAssumption DEF LockAssumption
<1> DEFINE e == ref[c]
           k == key[c]
<1>1. /\ at[c] = "leaving"
      /\ holders' = [holders EXCEPT ![e] = @ - 1]
      /\ entries' = IF holders[e] = 1 THEN [entries EXCEPT ![k] = None] ELSE entries
      /\ at' = [at EXCEPT ![c] = "out"]
      /\ key' = [key EXCEPT ![c] = None] /\ ref' = [ref EXCEPT ![c] = None]
      /\ UNCHANGED sem
  BY DEF Unwind
<1>2. e \in Entries /\ k \in Keys /\ entries[k] = e
  BY <1>1 DEF IInv, LockTypeOK, Attached
<1>3. holders[e] = Cardinality(Users(e)) /\ holders[e] \in Nat \ {0}
  <2>1. Registered(e)
    BY <1>2 DEF Registered
  <2> QED
    BY <1>2, <2>1 DEF IInv, LockTypeOK, Counted
<1>4. LockTypeOK'
  <2>1. holders' \in [Entries -> Nat]
    BY <1>1, <1>2, <1>3 DEF IInv, LockTypeOK
  <2>2. entries' \in [Keys -> Entries \cup {None}]
    BY <1>1, <1>2 DEF IInv, LockTypeOK
  <2> QED
    BY <2>1, <2>2, <1>1 DEF IInv, LockTypeOK
<1>5. \A d \in Callers : holders[e] = 1 /\ ref[d] = e => d = c
  BY <1>3, UsersOne DEF Users
<1>6. Attached'
  <2>1. ASSUME NEW d \in Callers, d # c, ref[d] # None
        PROVE  entries'[key'[d]] = ref'[d]
    <3>1. entries[key[d]] = ref[d] /\ key[d] \in Keys /\ key'[d] = key[d] /\ ref'[d] = ref[d]
      BY <2>1, <1>1 DEF IInv, Attached, LockTypeOK
    <3>2. CASE holders[e] = 1
      <4>1. key[d] # k
        BY <3>1, <3>2, <2>1, <1>2, <1>5
      <4> QED
        BY <4>1, <3>1, <3>2, <1>1, <1>2 DEF IInv, LockTypeOK
    <3>3. CASE holders[e] # 1
      BY <3>1, <3>3, <1>1
    <3> QED
      BY <3>2, <3>3
  <2> QED
    BY <2>1, <1>1 DEF IInv, Attached, LockTypeOK
<1>7. Apart'
  <2>1. CASE holders[e] = 1
    BY <2>1, <1>1, <1>2 DEF IInv, Apart, LockTypeOK
  <2>2. CASE holders[e] # 1
    BY <2>2, <1>1 DEF IInv, Apart
  <2> QED
    BY <2>1, <2>2
<1>8. \A f \in Entries : Registered(f)' => Registered(f) /\ (f = e => holders[e] # 1)
  <2>1. CASE holders[e] = 1
    BY <2>1, <1>1, <1>2 DEF Registered, IInv, Apart, LockTypeOK
  <2>2. CASE holders[e] # 1
    BY <2>2, <1>1 DEF Registered
  <2> QED
    BY <2>1, <2>2
<1>9. Counted'
  <2> SUFFICES ASSUME NEW f \in Entries, Registered(f)'
               PROVE  holders'[f] = Cardinality(Users(f)') /\ holders'[f] > 0
    BY DEF Counted
  <2>1. CASE f # e
    <3>1. holders'[f] = holders[f]
      BY <2>1, <1>1 DEF IInv, LockTypeOK
    <3>2. Cardinality(Users(f)') = Cardinality(Users(f))
      BY <2>1, <1>1, UsersOther DEF IInv, LockTypeOK
    <3> QED
      BY <3>1, <3>2, <1>8 DEF IInv, Counted
  <2>2. CASE f = e
    <3>1. holders'[f] = holders[e] - 1
      BY <2>2, <1>1, <1>2 DEF IInv, LockTypeOK
    <3>2. Cardinality(Users(f)') = Cardinality(Users(f)) - 1
      BY <2>2, <1>1, UsersRemove DEF IInv, LockTypeOK
    <3> QED
      BY <2>2, <3>1, <3>2, <1>3, <1>8
  <2> QED
    BY <2>1, <2>2
<1>10. \A d \in Callers : at'[d] = "inside" <=> at[d] = "inside"
  BY <1>1 DEF IInv, LockTypeOK
<1>11. \A d \in Callers : at[d] = "inside" => ref'[d] = ref[d]
  BY <1>1 DEF IInv, LockTypeOK
<1>12. Token'
  BY <1>1, <1>8, <1>10, <1>11 DEF IInv, Token
<1> QED
  BY <1>4, <1>6, <1>7, <1>9, <1>12 DEF IInv

\* Every step, and a step that changes nothing.
LEMMA NextInv == IInv /\ [LockNext]_lockVars => IInv'
<1> SUFFICES ASSUME IInv, [LockNext]_lockVars PROVE IInv'
  OBVIOUS
<1>1. CASE LockNext
  BY <1>1, TrackInv, AcquireInv, CancelInv, ReleaseInv, UnwindInv DEF LockNext
<1>2. CASE UNCHANGED lockVars
  BY <1>2 DEF lockVars, IInv, LockTypeOK, Attached, Apart, Counted, Registered, Users, Token
<1> QED
  BY <1>1, <1>2

-----------------------------------------------------------------------------
(* The theorems *)

\* What EntryShared says is what the parts say.
LEMMA SharedFromParts == IInv => EntryShared
<1> SUFFICES ASSUME IInv PROVE EntryShared
  OBVIOUS
<1>1. \A k \in Keys : entries[k] # None => entries[k] \in Entries /\ Registered(entries[k])
  BY DEF IInv, LockTypeOK, Registered
<1>2. \A k \in Keys : entries[k] # None =>
        /\ holders[entries[k]] = Cardinality(Users(entries[k])) /\ holders[entries[k]] > 0
  BY <1>1 DEF IInv, Counted
<1>3. \A k \in Keys : entries[k] # None /\ sem[entries[k]] =>
        \E c \in Callers : at[c] = "inside" /\ ref[c] = entries[k]
  BY <1>1 DEF IInv, Token
<1> QED
  BY <1>2, <1>3 DEF EntryShared, IInv, Attached, Apart, Token

\* For any number of callers and keys, every variable of the registry keeps its type and no
\* count of users falls below zero (registry.Lock and unwind).
THEOREM LockTypes == LockSpec => []LockTypeOK
<1>1. IInv => LockTypeOK
  BY DEF IInv
<1> QED
  BY InitInv, NextInv, <1>1, PTL DEF LockSpec

\* For any number of callers and keys, whoever waits for or holds a key uses the entry that
\* the registry hands to the next caller, entries count their users exactly and go with the
\* last of them, and the channel is full exactly while its one holder is inside.
THEOREM LockEntryShared == LockSpec => []EntryShared
BY InitInv, NextInv, SharedFromParts, PTL DEF LockSpec

\* The key whose critical section each caller is in.
Inside == [c \in Callers |-> IF at[c] = "inside" THEN key[c] ELSE None]

\* The initial state of the registry is that of the mutexes.
LEMMA InitImplements == LockInit => M!Init
BY DEF LockInit, M!Init

\* A send on the channel enters, a receive leaves, and no other step shows.
LEMMA StepImplements ==
  ASSUME IInv, [LockNext]_lockVars
  PROVE  M!Next \/ UNCHANGED Inside
<1> USE LockAssumption DEF LockAssumption
<1>1. CASE UNCHANGED lockVars
  BY <1>1 DEF lockVars, Inside
<1>2. ASSUME NEW c \in Callers, NEW k \in Keys, Track(c, k)
      PROVE  UNCHANGED Inside
  BY <1>2 DEF Track, Inside, IInv, LockTypeOK
<1>3. ASSUME NEW c \in Callers, Acquire(c)
      PROVE  \E k \in Keys : M!Enter(c, k)
  <2>1. PICK k \in Keys : key[c] = k
    BY <1>3 DEF Acquire, IInv, LockTypeOK, Attached
  <2>2. entries[k] = ref[c] /\ ~sem[ref[c]] /\ at[c] = "waiting"
    BY <1>3, <2>1 DEF Acquire, IInv, LockTypeOK, Attached
  <2>3. \A d \in Callers : at[d] = "inside" => key[d] # k
    <3> SUFFICES ASSUME NEW d \in Callers, at[d] = "inside", key[d] = k PROVE FALSE
      OBVIOUS
    <3>1. ref[d] = ref[c] /\ sem[ref[d]]
      BY <2>2 DEF IInv, LockTypeOK, Attached, Token
    <3> QED
      BY <3>1, <2>2
  <2>4. Inside[c] = None /\ \A d \in Callers : Inside[d] # k
    BY <2>2, <2>3 DEF Inside
  <2>5. Inside' = [Inside EXCEPT ![c] = k]
    BY <1>3, <2>1 DEF Acquire, Inside, IInv, LockTypeOK
  <2>6. M!Enter(c, k)
    BY <2>4, <2>5 DEF M!Enter, Inside
  <2> QED
    BY <2>6
<1>4. ASSUME NEW c \in Callers, Cancel(c)
      PROVE  UNCHANGED Inside
  BY <1>4 DEF Cancel, Inside, IInv, LockTypeOK
<1>5. ASSUME NEW c \in Callers, Release(c)
      PROVE  M!Leave(c)
  <2>1. Inside[c] # None
    BY <1>5 DEF Release, Inside, IInv, Attached
  <2>2. Inside' = [Inside EXCEPT ![c] = None]
    BY <1>5 DEF Release, Inside, IInv, LockTypeOK
  <2> QED
    BY <2>1, <2>2 DEF M!Leave, Inside
<1>6. ASSUME NEW c \in Callers, Unwind(c)
      PROVE  UNCHANGED Inside
  BY <1>6 DEF Unwind, Inside, IInv, LockTypeOK
<1>7. CASE LockNext
  <2>1. PICK c \in Callers : \/ \E k \in Keys : Track(c, k)
                             \/ Acquire(c) \/ Cancel(c) \/ Release(c) \/ Unwind(c)
    BY <1>7 DEF LockNext
  <2>2. CASE Acquire(c)
    BY <2>2, <1>3 DEF M!Next
  <2>3. CASE Release(c)
    BY <2>3, <1>5 DEF M!Next
  <2> QED
    BY <2>1, <2>2, <2>3, <1>2, <1>4, <1>6
<1> QED
  BY <1>1, <1>7

\* For any number of callers and keys the registry of counted, evicted and recreated entries
\* implements one mutex per key: whatever cancelled waiters, leaving holders and newcomers
\* do, two callers are never inside the critical section of one key.
THEOREM LockImplementsMutex == LockSpec => MutexImplemented
<1>1. IInv /\ [LockNext]_lockVars => M!Next \/ UNCHANGED Inside
  BY StepImplements
<1>2. (M!Next \/ UNCHANGED Inside) <=> [M!Next]_Inside
  OBVIOUS
<1> QED
  BY InitInv, NextInv, InitImplements, <1>1, <1>2, PTL DEF LockSpec, MutexImplemented, M!Spec, Inside

-----------------------------------------------------------------------------
(* The writers of one item: the inductive invariant *)

Args == UUIDs \cup Names \cup {None} \cup {"status", "owner", "flag", "planning", "done"}
Statuses == {"todo", "hold", "completed", "next", "in_progress", None}
Items == [session : UUIDs \cup Names \cup {None}, phase : Args \cup {"todo"},
          status : Statuses, owner : {user, Other, None}, approved : BOOLEAN,
          answers : SUBSET Ids]
Writes == {w \in [n : Ids, op : {"set", "clear", "phase", "field"}, arg : Args,
                  answers : BOOLEAN] :
             /\ w.op = "set" => w.arg \in UUIDs \cup Names
             /\ w.op = "field" => w.arg \in {"status", "owner", "flag"}}
Listings == [session : UUIDs \cup Names \cup {None}, owner : {user, Other, None},
             status : Statuses] \cup {None}
Sweeps == [at : {"idle", "list", "decide", "repair", "clear", "lock", "wait", "read",
                 "write", "release", "unwind"},
           listed : Listings, live : UUIDs \cup {None}, target : UUIDs \cup {None}]

\* The consumer's steps between SetTaskSession's write and its report, and the steps of the
\* consumer and of the sweep in the critical section.
Setting == {"lock", "wait", "read", "write", "release", "unwind"}
Section == {"read", "write", "release"}

\* The item and what the sweep looks at have their types.
ItemTypes == item \in Items /\ live \in UUIDs \cup {None} /\ transcripts \subseteq UUIDs

\* The consumer's position goes with the write it applies.
WriterTypes ==
  /\ pending \in Seq(Writes) /\ outcome \in [Ids -> {"none", "queued", "ok", "failed"}]
  /\ pc \in Setting \cup {"idle", "clear", "clear_marker", "show", "answer", "approve",
                          "set_phase", "status", "field"}
  /\ next \in Statuses /\ result \in {"none", "ok", "failed"}
  /\ pc # "idle" => work \in Writes
  /\ pc \in Setting => work.op = "set"
  /\ pc = "field" => work.op = "field"

\* The sweep has a target when it needs one.
SweepTypes ==
  /\ sweep \in Sweeps
  /\ sweep.at \in {"repair", "lock", "wait", "read", "write", "release"} => sweep.target \in UUIDs

\* Who is in the critical section of the item holds its lock.
Locked ==
  /\ pc \in Section \cup {"wait"} => key[Consumer] = Item
  /\ pc \in Section => at[Consumer] = "inside"
  /\ sweep.at \in Section \cup {"wait"} => key[Sweeper] = Item
  /\ sweep.at \in Section => at[Sweeper] = "inside"

\* What the check under the lock found of a binding made under the lock still holds.
Checked ==
  /\ pc = "write" /\ by = "locked" /\ item.session \in UUIDs => item.session = work.arg
  /\ sweep.at = "write" /\ by = "locked" => item.session = None

\* What has held since the sweep got the lock holds when it reads, and is nothing when it
\* writes.
Watched ==
  /\ sweep.at = "read" => since \subseteq Obstacles(item)
  /\ sweep.at = "write" => since = {}

\* A write about to approve has recorded its answers; so had the one that approved.
AnswersFirst ==
  /\ pc = "approve" /\ work.answers => work.n \in item.answers
  /\ AnswersBeforeApproval

ItemInv == /\ IInv /\ ItemTypes /\ WriterTypes /\ SweepTypes
           /\ Locked /\ Checked /\ Watched /\ AnswersFirst

\* A write of the item by somebody, or none.
Touched(who) ==
  /\ item' \in Items /\ item.answers \subseteq item'.answers
  /\ by' = IF item'.session # item.session THEN who ELSE by
  /\ \/ since' = since \cap Obstacles(item')
     \/ item' = item /\ since' = since

-----------------------------------------------------------------------------
(* The writers of one item: what a step keeps *)

\* The consumer and the sweep are never both in the critical section.
LEMMA Exclusive ==
  ASSUME LockUsers, ItemInv
  PROVE  ~(pc \in Section /\ sweep.at \in Section)
<1> SUFFICES ASSUME at[Consumer] = "inside", at[Sweeper] = "inside",
                    key[Consumer] = Item, key[Sweeper] = Item
             PROVE  FALSE
  BY DEF ItemInv, Locked
<1>1. Consumer \in Callers /\ Sweeper \in Callers /\ Consumer # Sweeper
  BY DEF LockUsers
<1>2. ref[Consumer] = entries[Item] /\ ref[Sweeper] = entries[Item]
  BY <1>1 DEF ItemInv, IInv, Attached
<1> QED
  BY <1>1, <1>2 DEF ItemInv, IInv, Token

\* Answers stay in the file.
LEMMA AnswersKept ==
  ASSUME ItemInv, item.answers \subseteq item'.answers, approver' = approver
  PROVE  AnswersBeforeApproval'
BY DEF ItemInv, AnswersFirst, AnswersBeforeApproval

\* A write outside the lock leaves what was checked under it, and the sweep's watch, true.
LEMMA UnlockedInv ==
  ASSUME LockUsers, ItemInv, UNCHANGED lockVars, UNCHANGED sweep,
         NEW who, who # "locked", Touched(who),
         live' \in UUIDs \cup {None}, transcripts' \subseteq UUIDs, WriterTypes',
         (pc' = pc /\ work' = work) \/ pc' \notin Section \cup {"wait"},
         AnswersFirst'
  PROVE  ItemInv'
<1>1. IInv'
  BY NextInv DEF ItemInv
<1>2. ItemTypes' /\ SweepTypes'
  BY DEF ItemInv, ItemTypes, Touched, SweepTypes
<1>3. Locked'
  BY DEF ItemInv, Locked, lockVars, Section
<1>4. by' = "locked" => item'.session = item.session /\ by = "locked"
  BY DEF Touched
<1>5. Checked'
  BY <1>4 DEF ItemInv, Checked, Section
<1>6. Watched'
  BY DEF ItemInv, Watched, Touched
<1> QED
  BY <1>1, <1>2, <1>3, <1>5, <1>6 DEF ItemInv

\* A step that leaves the item and its history alone touches it in nobody's name.
LEMMA Untouched ==
  ASSUME ItemTypes, UNCHANGED <<item, by, since>>, NEW who
  PROVE  Touched(who)
BY DEF ItemTypes, Touched

\* A change of the item by one of its writers.
LEMMA WroteTouches ==
  ASSUME NEW who, Wrote(who), item' \in Items, item.answers \subseteq item'.answers
  PROVE  Touched(who)
BY DEF Wrote, Touched

-----------------------------------------------------------------------------
(* The request path, and those who write on their own goroutine *)

\* What becomes of the item's fields.
LEMMA ItemFields ==
  ASSUME ItemTypes
  PROVE  /\ item.session \in UUIDs \cup Names \cup {None} /\ item.answers \subseteq Ids
         /\ \A s \in UUIDs \cup Names \cup {None} :
              /\ [item EXCEPT !.session = s] \in Items
              /\ [item EXCEPT !.session = s].answers = item.answers
         /\ \A f \in Args \cup {"todo"} :
              /\ [item EXCEPT !.phase = f] \in Items
              /\ [item EXCEPT !.phase = f].answers = item.answers
         /\ \A f \in Statuses :
              /\ [item EXCEPT !.status = f] \in Items
              /\ [item EXCEPT !.status = f].answers = item.answers
         /\ \A o \in {user, Other, None} :
              /\ [item EXCEPT !.owner = o] \in Items
              /\ [item EXCEPT !.owner = o].answers = item.answers
         /\ \A n \in Ids :
              /\ [item EXCEPT !.answers = item.answers \cup {n}] \in Items
              /\ [item EXCEPT !.answers = item.answers \cup {n}].answers = item.answers \cup {n}
BY DEF ItemTypes, Items

\* An approved item, and a completed one.
LEMMA ItemMoves ==
  ASSUME ItemTypes
  PROVE  /\ Approved \in Items /\ Approved.answers = item.answers
         /\ [item EXCEPT !.status = "completed", !.phase = "done"] \in Items
         /\ [item EXCEPT !.status = "completed", !.phase = "done"].answers = item.answers
BY DEF ItemTypes, Items, Approved, Args, Statuses

\* A write joins the queue.
LEMMA AcceptInv ==
  ASSUME LockUsers, ItemInv, NEW op \in {"set", "clear", "phase", "field"}, NEW arg \in Args,
         NEW answers \in BOOLEAN,
         op = "set" => arg \in UUIDs \cup Names,
         op = "field" => arg \in {"status", "owner", "flag"},
         Accept(op, arg, answers)
  PROVE  ItemInv'
<1>1. PICK n \in Ids :
        /\ pending' = Append(pending, [n |-> n, op |-> op, arg |-> arg, answers |-> answers])
        /\ outcome' = [outcome EXCEPT ![n] = "queued"]
  BY DEF Accept
<1>2. UNCHANGED <<lockVars, kind, item, live, transcripts, known, work, pc, next, result,
                  runner, sweep, by, since, approver>>
  BY DEF Accept
<1>3. ItemTypes /\ WriterTypes /\ AnswersFirst
  BY DEF ItemInv
<1>4. [n |-> n, op |-> op, arg |-> arg, answers |-> answers] \in Writes
  BY DEF Writes
<1>5. pending' \in Seq(Writes)
  BY <1>1, <1>3, <1>4, AppendProperties DEF WriterTypes
<1>6. outcome' \in [Ids -> {"none", "queued", "ok", "failed"}]
  BY <1>1, <1>3 DEF WriterTypes
<1>7. WriterTypes'
  BY <1>2, <1>3, <1>5, <1>6 DEF WriterTypes
<1>8. AnswersFirst'
  BY <1>2, <1>3 DEF AnswersFirst, AnswersBeforeApproval
<1>9. Touched("free")
  BY <1>2, <1>3, Untouched
<1>10. live' \in UUIDs \cup {None} /\ transcripts' \subseteq UUIDs
  BY <1>2, <1>3 DEF ItemTypes
<1> QED
  BY <1>2, <1>7, <1>8, <1>9, <1>10, UnlockedInv

\* The requests that are queued.
LEMMA RequestInv ==
  ASSUME LockUsers, ItemInv, SetTaskSession \/ ClearSession \/ UpdateTaskPhase \/ UpdateField
  PROVE  ItemInv'
<1>1. CASE SetTaskSession
  <2>1. PICK v \in UUIDs \cup Names :
           \E stored \in Stored(v) : Accept("set", stored, FALSE)
    BY <1>1 DEF SetTaskSession
  <2>2. PICK stored \in UUIDs \cup Names : Accept("set", stored, FALSE)
    BY <2>1 DEF Stored
  <2> QED
    BY <2>2, AcceptInv DEF Args
<1>2. CASE ClearSession
  BY <1>2, AcceptInv DEF ClearSession, Args
<1>3. CASE UpdateTaskPhase
  <2>1. PICK phase \in {"planning", "done"}, answers \in BOOLEAN : Accept("phase", phase, answers)
    BY <1>3 DEF UpdateTaskPhase
  <2> QED
    BY <2>1, AcceptInv DEF Args
<1>4. CASE UpdateField
  <2>1. PICK f \in {"status", "owner", "flag"} : Accept("field", f, FALSE)
    BY <1>4 DEF UpdateField
  <2> QED
    BY <2>1, AcceptInv DEF Args
<1> QED
  BY <1>1, <1>2, <1>3, <1>4

\* A step of a goroutine that has no part in the queue, the lock or the sweep.
LEMMA FreeInv ==
  ASSUME LockUsers, ItemInv, UNCHANGED quiet, UNCHANGED approver,
         live' \in UUIDs \cup {None}, transcripts' \subseteq UUIDs, Touched("free")
  PROVE  ItemInv'
<1>1. UNCHANGED lockVars /\ UNCHANGED sweep /\ UNCHANGED <<pending, work, outcome, pc, next, result>>
  BY DEF quiet, writeVars
<1>2. WriterTypes'
  BY <1>1 DEF ItemInv, WriterTypes
<1>3. AnswersFirst'
  BY <1>1, AnswersKept DEF ItemInv, AnswersFirst, Touched
<1> QED
  BY <1>1, <1>2, <1>3, UnlockedInv

\* The commands, the launch, the peers and the sessions.
LEMMA DirectInv ==
  ASSUME LockUsers, ItemInv,
         \/ ExecuteCommand \/ RunShow \/ RunApprove \/ RunLaunch \/ PeerEdit \/ SessionEvent
  PROVE  ItemInv'
<1>0. ItemTypes
  BY DEF ItemInv
<1>1. CASE ExecuteCommand
  <2>1. Touched("free")
    BY <1>0, <1>1, ItemMoves, WroteTouches DEF ExecuteCommand
  <2> QED
    BY <1>0, <1>1, <2>1, FreeInv DEF ExecuteCommand, ItemTypes
<1>2. CASE RunShow
  BY <1>0, <1>2, Untouched, FreeInv DEF RunShow, ItemTypes
<1>3. CASE RunApprove
  <2>1. item' \in Items /\ item.answers \subseteq item'.answers
    <3>1. item' = Approved \/ item' = [item EXCEPT !.status = "next"] \/ item' = item
      BY <1>3 DEF RunApprove
    <3> QED
      BY <1>0, <3>1, ItemMoves, ItemFields DEF Statuses, ItemTypes
  <2>2. Touched("free")
    BY <1>3, <2>1, WroteTouches DEF RunApprove
  <2> QED
    BY <1>0, <1>3, <2>2, FreeInv DEF RunApprove, ItemTypes
<1>4. CASE RunLaunch
  <2>1. /\ \/ item' = item \/ \E u \in UUIDs \cup {None} : item' = [item EXCEPT !.session = u]
        /\ live' \in UUIDs \cup {None} /\ transcripts' \subseteq UUIDs
    BY <1>0, <1>4 DEF RunLaunch, ItemTypes
  <2>2. item' \in Items /\ item.answers \subseteq item'.answers
    <3>1. CASE item' = item
      BY <1>0, <3>1 DEF ItemTypes
    <3>2. ASSUME NEW u \in UUIDs \cup {None}, item' = [item EXCEPT !.session = u]
          PROVE  item' \in Items /\ item.answers \subseteq item'.answers
      BY <1>0, <3>2 DEF ItemTypes, Items
    <3> QED
      BY <2>1, <3>1, <3>2
  <2>3. Touched("free")
    BY <1>4, <2>2, WroteTouches DEF RunLaunch
  <2> QED
    BY <1>4, <2>1, <2>3, FreeInv DEF RunLaunch
<1>5. CASE PeerEdit
  <2>1. \/ \E s \in {None} \cup UUIDs : item' = [item EXCEPT !.session = s]
        \/ \E o \in {None, Other} : item' = [item EXCEPT !.owner = o]
    BY <1>5 DEF PeerEdit
  <2>2. item' \in Items /\ item.answers \subseteq item'.answers
    <3>1. ASSUME NEW u \in {None} \cup UUIDs, item' = [item EXCEPT !.session = u]
          PROVE  item' \in Items /\ item.answers \subseteq item'.answers
      BY <1>0, <3>1 DEF ItemTypes, Items
    <3>2. ASSUME NEW o \in {None, Other}, item' = [item EXCEPT !.owner = o]
          PROVE  item' \in Items /\ item.answers \subseteq item'.answers
      BY <1>0, <3>2 DEF ItemTypes, Items
    <3> QED
      BY <2>1, <3>1, <3>2
  <2>3. Touched("free")
    BY <1>5, <2>2, WroteTouches DEF PeerEdit
  <2> QED
    BY <1>0, <1>5, <2>3, FreeInv DEF PeerEdit, ItemTypes
<1>6. CASE SessionEvent
  <2>1. live' \in UUIDs \cup {None} /\ transcripts' \subseteq UUIDs
    BY <1>0, <1>6 DEF SessionEvent, ItemTypes
  <2>2. UNCHANGED <<item, by, since>> /\ UNCHANGED quiet /\ UNCHANGED approver
    BY <1>6 DEF SessionEvent
  <2> QED
    BY <1>0, <2>1, <2>2, Untouched, FreeInv
<1> QED
  BY <1>1, <1>2, <1>3, <1>4, <1>5, <1>6

-----------------------------------------------------------------------------
(* The consumer's steps outside the lock *)

\* A step of the consumer outside the lock.
LEMMA ConsumerInv ==
  ASSUME LockUsers, ItemInv, UNCHANGED <<lockVars, sweep, live, transcripts>>,
         Touched("free"), WriterTypes', pc' \notin Section \cup {"wait"}, AnswersFirst'
  PROVE  ItemInv'
<1>1. live' \in UUIDs \cup {None} /\ transcripts' \subseteq UUIDs
  BY DEF ItemInv, ItemTypes
<1>2. UNCHANGED lockVars /\ UNCHANGED sweep
  OBVIOUS
<1> QED
  BY <1>1, <1>2, UnlockedInv

\* Reporting a write leaves the consumer idle.
LEMMA ReportTypes ==
  ASSUME WriterTypes, NEW r \in {"ok", "failed"}, pc # "idle", Report(r), pending' = pending
  PROVE  WriterTypes' /\ pc' = "idle"
<1>1. outcome' \in [Ids -> {"none", "queued", "ok", "failed"}]
  BY DEF Report, WriterTypes
<1> QED
  BY <1>1 DEF Report, WriterTypes, Statuses, Setting

\* The consumer goes on to its next step of the same write.
LEMMA GotoTypes ==
  ASSUME WriterTypes, NEW step, Goto(step), pc # "idle", pending' = pending,
         step \in {"clear_marker", "approve", "status"} \/ (pc \in Setting /\ step \in Setting)
  PROVE  WriterTypes' /\ pc' = step
BY DEF Goto, WriterTypes, Setting

\* The consumer takes the oldest write.
LEMMA DequeueInv ==
  ASSUME LockUsers, ItemInv, Dequeue
  PROVE  ItemInv'
<1>1. ItemTypes /\ WriterTypes /\ AnswersFirst
  BY DEF ItemInv
<1>2. /\ pending # << >> /\ work' = Head(pending) /\ pending' = Tail(pending)
      /\ pc' = FirstStep(Head(pending).op)
      /\ UNCHANGED <<lockVars, sweep, live, transcripts>> /\ UNCHANGED <<item, by, since>>
      /\ UNCHANGED <<outcome, next, result, approver>>
  BY DEF Dequeue
<1>3. pending \in Seq(Writes) /\ Tail(pending) \in Seq(Writes)
  BY <1>1, <1>2, HeadTailProperties DEF WriterTypes
<1>4. PICK w \in Writes : w = Head(pending)
  BY <1>1, <1>2, HeadTailProperties DEF WriterTypes
<1>5. \/ w.op = "set" /\ pc' = "lock"
      \/ w.op = "clear" /\ pc' = "clear"
      \/ w.op = "phase" /\ pc' = "show"
      \/ w.op = "field" /\ pc' = "field"
  BY <1>2, <1>4 DEF FirstStep, Writes
<1>6. WriterTypes'
  BY <1>1, <1>2, <1>3, <1>4, <1>5 DEF WriterTypes, Setting
<1>7. AnswersFirst' /\ pc' \notin Section \cup {"wait"}
  BY <1>1, <1>2, <1>5 DEF AnswersFirst, AnswersBeforeApproval, Section
<1> QED
  BY <1>1, <1>2, <1>6, <1>7, Untouched, ConsumerInv

\* The consumer reports a write from outside the lock.
LEMMA ReportInv ==
  ASSUME LockUsers, ItemInv, UNCHANGED <<envVars, lockVars>>, approver' = approver,
         Touched("free"), NEW r \in {"ok", "failed"}, pc # "idle", Report(r)
  PROVE  ItemInv'
<1>1. UNCHANGED <<lockVars, sweep, live, transcripts>> /\ pending' = pending
  BY DEF envVars
<1>2. WriterTypes' /\ pc' = "idle"
  BY <1>1, ReportTypes DEF ItemInv
<1>3. AnswersFirst'
  BY <1>2, AnswersKept DEF AnswersFirst, Touched
<1> QED
  BY <1>1, <1>2, <1>3, ConsumerInv DEF Section

\* The consumer goes on with a write outside the lock.
LEMMA GotoInv ==
  ASSUME LockUsers, ItemInv, UNCHANGED <<envVars, lockVars>>, AnswersBeforeApproval',
         Touched("free"), NEW step \in {"clear_marker", "approve", "status"}, pc # "idle",
         Goto(step), step = "approve" /\ work.answers => work.n \in item'.answers
  PROVE  ItemInv'
<1>1. UNCHANGED <<lockVars, sweep, live, transcripts>> /\ pending' = pending /\ work' = work
  BY DEF envVars, Goto
<1>2. WriterTypes' /\ pc' = step
  BY <1>1, GotoTypes DEF ItemInv
<1>3. AnswersFirst'
  BY <1>1, <1>2 DEF AnswersFirst
<1> QED
  BY <1>1, <1>2, <1>3, ConsumerInv DEF Section

\* The status, assignee and flag routes' one call.
LEMMA WriteFieldInv ==
  ASSUME LockUsers, ItemInv, WriteField
  PROVE  ItemInv'
<1>1. ItemTypes /\ WriterTypes /\ pc = "field" /\ approver' = approver
      /\ UNCHANGED <<envVars, lockVars>>
  BY DEF ItemInv, WriteField
<1>2. CASE /\ item' = CASE work.arg = "status" -> [item EXCEPT !.status = "hold"]
                        [] work.arg = "owner" -> [item EXCEPT !.owner = user]
                        [] work.arg = "flag" -> item
           /\ Report("ok") /\ Wrote("free")
  <2>1. work.arg \in {"status", "owner", "flag"}
    BY <1>1 DEF WriterTypes, Writes
  <2>2. \/ item' = item
        \/ item' = [item EXCEPT !.status = "hold"]
        \/ item' = [item EXCEPT !.owner = user]
    BY <1>2, <2>1
  <2>3. item' \in Items /\ item.answers \subseteq item'.answers
    BY <1>1, <2>2 DEF ItemTypes, Items, Statuses
  <2> QED
    BY <1>1, <1>2, <2>3, WroteTouches, ReportInv
<1>3. CASE Report("failed") /\ UNCHANGED <<item, by, since>>
  BY <1>1, <1>3, Untouched, ReportInv
<1> QED
  BY <1>2, <1>3 DEF WriteField

\* A reset's two calls.
LEMMA WriteClearInv ==
  ASSUME LockUsers, ItemInv, WriteClear
  PROVE  ItemInv'
<1>1. ItemTypes /\ WriterTypes /\ approver' = approver /\ UNCHANGED <<envVars, lockVars>>
  BY DEF ItemInv, WriteClear
<1>2. CASE /\ pc = "clear" /\ item' = [item EXCEPT !.session = None]
           /\ Goto("clear_marker") /\ Wrote("free")
  <2>1. item' \in Items /\ item.answers \subseteq item'.answers
    BY <1>1, <1>2 DEF ItemTypes, Items
  <2>2. AnswersBeforeApproval'
    BY <1>1, <2>1, AnswersKept
  <2> QED
    BY <1>1, <1>2, <2>1, <2>2, WroteTouches, GotoInv
<1>3. CASE /\ pc \in {"clear", "clear_marker"} /\ UNCHANGED <<item, by, since>>
           /\ \E r \in {"ok", "failed"} : Report(r)
  BY <1>1, <1>3, Untouched, ReportInv
<1> QED
  BY <1>2, <1>3 DEF WriteClear

\* The phase write decides between an approval and a plain move.
LEMMA ShowPhaseInv ==
  ASSUME LockUsers, ItemInv, ShowPhase
  PROVE  ItemInv'
<1>1. ItemTypes /\ WriterTypes /\ AnswersFirst /\ pc = "show"
  BY DEF ItemInv, ShowPhase
<1>2. /\ UNCHANGED <<envVars, lockVars, item, by, since, approver>>
      /\ UNCHANGED <<work, outcome, result>>
      /\ next' \in {"next", "completed", "in_progress", None}
      /\ \/ pc' \in {"answer", "set_phase"}
         \/ pc' = "approve" /\ ~work.answers
  BY DEF ShowPhase
<1>3. UNCHANGED <<lockVars, sweep, live, transcripts>> /\ pending' = pending
  BY <1>2 DEF envVars
<1>4. WriterTypes'
  BY <1>1, <1>2, <1>3 DEF WriterTypes, Statuses, Setting
<1>5. AnswersFirst' /\ pc' \notin Section \cup {"wait"}
  BY <1>1, <1>2 DEF AnswersFirst, AnswersBeforeApproval, Section
<1> QED
  BY <1>1, <1>2, <1>3, <1>4, <1>5, Untouched, ConsumerInv

\* The answers are in the file when the approval starts.
LEMMA AnswerInv ==
  ASSUME LockUsers, ItemInv, Answer
  PROVE  ItemInv'
<1>1. ItemTypes /\ WriterTypes /\ pc = "answer" /\ approver' = approver
      /\ UNCHANGED <<envVars, lockVars>>
  BY DEF ItemInv, Answer
<1>2. CASE /\ item' = [item EXCEPT !.answers = item.answers \cup {work.n}]
           /\ Goto("approve") /\ Wrote("free")
  <2>1. work.n \in Ids
    BY <1>1 DEF WriterTypes, Writes
  <2>2. item' \in Items /\ item'.answers = item.answers \cup {work.n}
    BY <1>1, <1>2, <2>1 DEF ItemTypes, Items
  <2>3. item.answers \subseteq item'.answers /\ work.n \in item'.answers
    BY <2>2
  <2>4. AnswersBeforeApproval' /\ Touched("free")
    BY <1>1, <1>2, <2>2, <2>3, AnswersKept, WroteTouches
  <2> QED
    BY <1>1, <1>2, <2>3, <2>4, GotoInv
<1>3. CASE Report("failed") /\ UNCHANGED <<item, by, since>>
  BY <1>1, <1>3, Untouched, ReportInv
<1>4. \/ item' = [item EXCEPT !.answers = item.answers \cup {work.n}] /\ Goto("approve") /\ Wrote("free")
      \/ Report("failed") /\ UNCHANGED <<item, by, since>>
  BY DEF Answer
<1> QED
  BY <1>2, <1>3, <1>4

\* The approving write has its answers in the file.
LEMMA ApproveInv ==
  ASSUME LockUsers, ItemInv, Approve
  PROVE  ItemInv'
<1>1. ItemTypes /\ WriterTypes /\ AnswersFirst /\ pc = "approve"
      /\ UNCHANGED <<envVars, lockVars>>
  BY DEF ItemInv, Approve
<1>2. CASE item' = Approved /\ approver' = work /\ Goto("status") /\ Wrote("free")
  <2>1. item' \in Items /\ item'.answers = item.answers
    BY <1>1, <1>2, ItemMoves
  <2>2. Touched("free")
    BY <1>2, <2>1, WroteTouches
  <2>3. AnswersBeforeApproval'
    BY <1>1, <1>2, <2>1 DEF AnswersFirst, AnswersBeforeApproval
  <2> QED
    BY <1>1, <1>2, <2>2, <2>3, GotoInv
<1>3. CASE Report("failed") /\ UNCHANGED <<item, by, since, approver>>
  BY <1>1, <1>3, Untouched, ReportInv
<1> QED
  BY <1>2, <1>3 DEF Approve

\* A plain move of the phase.
LEMMA SetPhaseInv ==
  ASSUME LockUsers, ItemInv, SetPhase
  PROVE  ItemInv'
<1>1. ItemTypes /\ WriterTypes /\ pc = "set_phase" /\ approver' = approver
      /\ UNCHANGED <<envVars, lockVars>>
  BY DEF ItemInv, SetPhase
<1>2. CASE /\ item' = [item EXCEPT !.phase = work.arg] /\ Wrote("free")
           /\ Report("ok") \/ Goto("status")
  <2>1. work.arg \in Args
    BY <1>1 DEF WriterTypes, Writes
  <2>2. item' \in Items /\ item.answers \subseteq item'.answers
    BY <1>1, <1>2, <2>1 DEF ItemTypes, Items
  <2>3. Touched("free") /\ AnswersBeforeApproval'
    BY <1>1, <1>2, <2>2, AnswersKept, WroteTouches
  <2> QED
    BY <1>1, <1>2, <2>3, ReportInv, GotoInv
<1>3. CASE Report("failed") /\ UNCHANGED <<item, by, since>>
  BY <1>1, <1>3, Untouched, ReportInv
<1> QED
  BY <1>2, <1>3 DEF SetPhase

\* The status that goes with the phase.
LEMMA SetStatusInv ==
  ASSUME LockUsers, ItemInv, SetStatus
  PROVE  ItemInv'
<1>1. ItemTypes /\ WriterTypes /\ pc = "status" /\ approver' = approver
      /\ UNCHANGED <<envVars, lockVars>>
  BY DEF ItemInv, SetStatus
<1>2. CASE item' = [item EXCEPT !.status = next] /\ Report("ok") /\ Wrote("free")
  <2>1. item' \in Items /\ item.answers \subseteq item'.answers
    BY <1>1, <1>2 DEF ItemTypes, Items, WriterTypes
  <2> QED
    BY <1>1, <1>2, <2>1, WroteTouches, ReportInv
<1>3. CASE Report("failed") /\ UNCHANGED <<item, by, since>>
  BY <1>1, <1>3, Untouched, ReportInv
<1> QED
  BY <1>2, <1>3 DEF SetStatus

-----------------------------------------------------------------------------
(* The consumer's steps with the lock *)

\* A step of one caller of the lock leaves the others where they are.
LEMMA LockStep ==
  ASSUME LockUsers, ItemInv, NEW c \in {Consumer, Sweeper},
         \/ Track(c, Item) \/ Acquire(c) \/ Cancel(c) \/ Release(c) \/ Unwind(c)
  PROVE  /\ IInv' /\ LockNext
         /\ \A d \in Callers : d # c => at'[d] = at[d] /\ key'[d] = key[d]
         /\ Track(c, Item) => key'[c] = Item
         /\ Acquire(c) => at'[c] = "inside" /\ key'[c] = key[c]
<1>1. c \in Callers /\ Item \in Keys /\ IInv
  BY DEF LockUsers, ItemInv
<1>2. LockNext
  BY <1>1 DEF LockNext
<1>3. IInv'
  BY <1>1, <1>2, NextInv
<1>4. at \in [Callers -> {"out", "waiting", "inside", "leaving"}]
      /\ key \in [Callers -> Keys \cup {None}]
  BY <1>1 DEF IInv, LockTypeOK
<1> QED
  BY <1>1, <1>2, <1>3, <1>4 DEF Track, Acquire, Cancel, Release, Unwind

\* A step of the consumer with the lock that leaves the item alone.
LEMMA ConsumerLockInv ==
  ASSUME LockUsers, ItemInv, UNCHANGED unlocked, IInv', WriterTypes',
         at'[Sweeper] = at[Sweeper], key'[Sweeper] = key[Sweeper], pc' # "approve",
         pc' \in Section \cup {"wait"} => key'[Consumer] = Item,
         pc' \in Section => at'[Consumer] = "inside",
         pc' = "write" /\ item.session \in UUIDs => item.session = work'.arg
  PROVE  ItemInv'
<1>1. UNCHANGED <<item, live, transcripts, sweep, by, since, approver>>
  BY DEF unlocked, envVars
<1>2. ItemTypes' /\ SweepTypes'
  BY <1>1 DEF ItemInv, ItemTypes, SweepTypes
<1>3. Locked'
  BY <1>1 DEF ItemInv, Locked
<1>4. Checked' /\ Watched' /\ AnswersFirst'
  BY <1>1 DEF ItemInv, Checked, Watched, AnswersFirst, AnswersBeforeApproval, Obstacles, Foreign
<1> QED
  BY <1>2, <1>3, <1>4 DEF ItemInv

\* The consumer asks for the lock, and gets it.
LEMMA SetLockInv ==
  ASSUME LockUsers, ItemInv, SetLock
  PROVE  ItemInv'
<1>1. UNCHANGED unlocked /\ pending' = pending /\ WriterTypes /\ Locked
  BY DEF SetLock, unlocked, envVars, ItemInv
<1>2. Sweeper \in Callers /\ Sweeper # Consumer
  BY DEF LockUsers
<1>3. CASE pc = "lock" /\ Track(Consumer, Item) /\ Goto("wait")
  <2>1. WriterTypes' /\ pc' = "wait"
    BY <1>1, <1>3, GotoTypes DEF Setting
  <2>2. /\ IInv' /\ at'[Sweeper] = at[Sweeper] /\ key'[Sweeper] = key[Sweeper]
        /\ key'[Consumer] = Item
    BY <1>2, <1>3, LockStep
  <2> QED
    BY <1>1, <2>1, <2>2, ConsumerLockInv DEF Section
<1>4. CASE pc = "wait" /\ Acquire(Consumer) /\ Goto("read")
  <2>1. WriterTypes' /\ pc' = "read"
    BY <1>1, <1>4, GotoTypes DEF Setting
  <2>2. /\ IInv' /\ at'[Sweeper] = at[Sweeper] /\ key'[Sweeper] = key[Sweeper]
        /\ at'[Consumer] = "inside" /\ key'[Consumer] = key[Consumer]
    BY <1>2, <1>4, LockStep
  <2>3. key[Consumer] = Item
    BY <1>1, <1>4 DEF Locked
  <2> QED
    BY <1>1, <2>1, <2>2, <2>3, ConsumerLockInv
<1> QED
  BY <1>3, <1>4 DEF SetLock

\* The binding is read again under the lock: a session with another id is left alone.
LEMMA SetReadInv ==
  ASSUME LockUsers, ItemInv, SetRead
  PROVE  ItemInv'
<1>1. /\ UNCHANGED unlocked /\ UNCHANGED lockVars /\ pending' = pending /\ work' = work
      /\ pc = "read" /\ WriterTypes /\ Locked
      /\ \/ ~Conflict(item.session, work.arg) /\ Goto("write")
         \/ pc' = "release" /\ result' = "failed" /\ UNCHANGED <<work, outcome, next>>
  BY DEF SetRead, Goto, unlocked, envVars, ItemInv
<1>2. IInv' /\ at' = at /\ key' = key
  BY <1>1, NextInv DEF ItemInv, lockVars
<1>3. WriterTypes' /\ pc' \in {"write", "release"}
  BY <1>1, GotoTypes DEF WriterTypes, Setting
<1>4. key[Consumer] = Item /\ at[Consumer] = "inside"
  BY <1>1 DEF Locked, Section
<1>5. pc' = "write" /\ item.session \in UUIDs => item.session = work'.arg
  BY <1>1 DEF Conflict
<1> QED
  BY <1>1, <1>2, <1>3, <1>4, <1>5, ConsumerLockInv

\* The write under the lock: nothing the sweep has checked is waiting for it.
LEMMA SetWriteInv ==
  ASSUME LockUsers, ItemInv, SetWrite
  PROVE  ItemInv'
<1>1. /\ UNCHANGED lockVars /\ UNCHANGED <<live, transcripts, pending, sweep, approver>>
      /\ UNCHANGED <<work, outcome, next>>
      /\ pc = "write" /\ pc' = "release" /\ result' \in {"ok", "failed"}
      /\ \/ item' = [item EXCEPT !.session = work.arg] /\ Wrote("locked")
         \/ UNCHANGED <<item, by, since>>
      /\ ItemTypes /\ WriterTypes
  BY DEF SetWrite, envVars, ItemInv
<1>2. IInv' /\ at' = at /\ key' = key
  BY <1>1, NextInv DEF ItemInv, lockVars
<1>3. WriterTypes'
  BY <1>1 DEF WriterTypes, Setting
<1>4. work.arg \in UUIDs \cup Names
  BY <1>1 DEF WriterTypes, Writes, Setting
<1>5. Touched("locked")
  <2>1. ASSUME item' = [item EXCEPT !.session = work.arg], Wrote("locked")
        PROVE  Touched("locked")
    <3>1. item' \in Items /\ item.answers \subseteq item'.answers
      BY <1>1, <1>4, <2>1 DEF ItemTypes, Items
    <3> QED
      BY <2>1, <3>1, WroteTouches
  <2> QED
    BY <1>1, <2>1, Untouched
<1>6. ItemTypes' /\ SweepTypes'
  BY <1>1, <1>5 DEF ItemInv, ItemTypes, SweepTypes, Touched
<1>7. Locked' /\ AnswersFirst'
  BY <1>1, <1>2, <1>5, AnswersKept DEF ItemInv, Locked, AnswersFirst, Section, Touched
<1>8. sweep.at \notin Section
  BY <1>1, Exclusive DEF Section
<1>9. Checked' /\ Watched'
  BY <1>1, <1>8 DEF Checked, Watched, Section
<1> QED
  BY <1>2, <1>3, <1>6, <1>7, <1>9 DEF ItemInv

\* The lock is released before the outcome is reported.
LEMMA SetReleaseInv ==
  ASSUME LockUsers, ItemInv, SetRelease
  PROVE  ItemInv'
<1>1. UNCHANGED unlocked /\ pending' = pending /\ WriterTypes
  BY DEF SetRelease, unlocked, envVars, ItemInv
<1>2. Sweeper \in Callers /\ Sweeper # Consumer
  BY DEF LockUsers
<1>3. CASE pc = "release" /\ Release(Consumer) /\ Goto("unwind")
  <2>1. WriterTypes' /\ pc' = "unwind"
    BY <1>1, <1>3, GotoTypes DEF Setting
  <2>2. IInv' /\ at'[Sweeper] = at[Sweeper] /\ key'[Sweeper] = key[Sweeper]
    BY <1>2, <1>3, LockStep
  <2> QED
    BY <1>1, <2>1, <2>2, ConsumerLockInv DEF Section
<1>4. CASE pc = "unwind" /\ Unwind(Consumer) /\ Report(result)
  <2>1. outcome' \in [Ids -> {"none", "queued", "ok", "failed"}]
    BY <1>1, <1>4 DEF WriterTypes, Report
  <2>2. WriterTypes' /\ pc' = "idle"
    BY <1>1, <1>4, <2>1 DEF WriterTypes, Report, Statuses, Setting
  <2>3. IInv' /\ at'[Sweeper] = at[Sweeper] /\ key'[Sweeper] = key[Sweeper]
    BY <1>2, <1>4, LockStep
  <2> QED
    BY <1>1, <2>2, <2>3, ConsumerLockInv DEF Section
<1> QED
  BY <1>3, <1>4 DEF SetRelease

-----------------------------------------------------------------------------
(* The sweep *)

\* A step of the sweep outside the lock.
LEMMA SweepFreeInv ==
  ASSUME LockUsers, ItemInv, UNCHANGED still, UNCHANGED lockVars, Touched("sweep"),
         SweepTypes', sweep'.at \notin Section \cup {"wait"}
  PROVE  ItemInv'
<1>1. UNCHANGED <<live, transcripts, approver>>
      /\ UNCHANGED <<pending, work, outcome, pc, next, result>>
  BY DEF still, writeVars
<1>2. IInv' /\ at' = at /\ key' = key
  BY NextInv DEF ItemInv, lockVars
<1>3. ItemTypes' /\ WriterTypes'
  BY <1>1 DEF ItemInv, ItemTypes, WriterTypes, Touched
<1>4. Locked' /\ AnswersFirst'
  BY <1>1, <1>2, AnswersKept DEF ItemInv, Locked, AnswersFirst, Touched
<1>5. Checked' /\ Watched'
  BY <1>1 DEF ItemInv, Checked, Watched, Touched, Section
<1> QED
  BY <1>2, <1>3, <1>4, <1>5 DEF ItemInv

\* A step of the sweep with the lock that leaves the item alone.
LEMMA SweepLockInv ==
  ASSUME LockUsers, ItemInv, UNCHANGED still, item' = item, by' = by, IInv', SweepTypes',
         at'[Consumer] = at[Consumer], key'[Consumer] = key[Consumer],
         sweep'.at \in Section \cup {"wait"} => key'[Sweeper] = Item,
         sweep'.at \in Section => at'[Sweeper] = "inside",
         sweep'.at = "write" => item.session = None /\ since' = {},
         sweep'.at = "read" => since' \subseteq Obstacles(item)
  PROVE  ItemInv'
<1>1. UNCHANGED <<live, transcripts, approver>>
      /\ UNCHANGED <<pending, work, outcome, pc, next, result>>
  BY DEF still, writeVars
<1>2. ItemTypes' /\ WriterTypes'
  BY <1>1 DEF ItemInv, ItemTypes, WriterTypes
<1>3. Locked'
  BY <1>1 DEF ItemInv, Locked
<1>4. AnswersFirst'
  BY <1>1 DEF ItemInv, AnswersFirst, AnswersBeforeApproval
<1>5. Checked'
  BY <1>1 DEF ItemInv, Checked
<1>6. Watched'
  BY DEF Watched, Obstacles, Foreign
<1> QED
  BY <1>2, <1>3, <1>4, <1>5, <1>6 DEF ItemInv

\* The sweep's position moves on.
LEMMA SweepAt ==
  ASSUME SweepTypes
  PROVE  /\ \A p \in {"wait", "read", "write", "release"} :
              sweep.target \in UUIDs => [sweep EXCEPT !.at = p] \in Sweeps
                /\ [sweep EXCEPT !.at = p].at = p
                /\ [sweep EXCEPT !.at = p].target = sweep.target
         /\ Idle \in Sweeps /\ Idle.at = "idle"
         /\ \A p \in {"repair", "clear", "lock", "unwind"}, u \in UUIDs \cup {None} :
              Chosen(p, u) \in Sweeps /\ Chosen(p, u).at = p /\ Chosen(p, u).target = u
BY DEF SweepTypes, Sweeps, Idle, Chosen, Listings

\* The sweep lists the item.
LEMMA SweepListInv ==
  ASSUME LockUsers, ItemInv, SweepStart \/ SweepList
  PROVE  ItemInv'
<1>1. ItemTypes /\ SweepTypes /\ UNCHANGED still /\ UNCHANGED lockVars
      /\ UNCHANGED <<item, by, since>>
  BY DEF ItemInv, SweepStart, SweepList
<1>2. SweepTypes' /\ sweep'.at \notin Section \cup {"wait"}
  <2>1. CASE sweep' = [Idle EXCEPT !.at = "list", !.live = live]
    BY <1>1, <2>1 DEF SweepTypes, Sweeps, Idle, Section, Listings, ItemTypes
  <2>2. CASE sweep' = [sweep EXCEPT !.at = "decide",
               !.listed = [session |-> item.session, owner |-> item.owner, status |-> item.status]]
    BY <1>1, <2>2 DEF SweepTypes, Sweeps, Section, Listings, ItemTypes, Items
  <2>3. CASE sweep' = Idle
    BY <1>1, <2>3, SweepAt DEF SweepTypes, Section
  <2> QED
    BY <2>1, <2>2, <2>3 DEF SweepStart, SweepList
<1> QED
  BY <1>1, <1>2, Untouched, SweepFreeInv

\* The sweep decides what to do about the listed item.
LEMMA SweepDecideInv ==
  ASSUME LockUsers, ItemInv, SweepDecide
  PROVE  ItemInv'
<1>1. ItemTypes /\ SweepTypes /\ UNCHANGED still /\ UNCHANGED lockVars
      /\ UNCHANGED <<item, by, since>>
  BY DEF ItemInv, SweepDecide
<1>2. sweep' \in {Idle, Chosen("clear", None)} \/
      \E u \in UUIDs : sweep' \in {Chosen("repair", u), Chosen("lock", u)}
  <2>1. CASE Repair
    BY <1>1, <2>1 DEF Repair, ItemTypes
  <2>2. CASE ClearStale
    BY <2>2 DEF ClearStale
  <2>3. CASE RebindEmpty
    BY <1>1, <2>3 DEF RebindEmpty, Rebindable, ItemTypes
  <2> QED
    BY <2>1, <2>2, <2>3 DEF SweepDecide
<1>3. SweepTypes' /\ sweep'.at \notin Section \cup {"wait"}
  BY <1>1, <1>2, SweepAt DEF SweepTypes, Section
<1> QED
  BY <1>1, <1>3, Untouched, SweepFreeInv

\* The sweep's writes without the lock.
LEMMA SweepWriteInv ==
  ASSUME LockUsers, ItemInv, SweepWrite
  PROVE  ItemInv'
<1>1. ItemTypes /\ SweepTypes /\ UNCHANGED still /\ UNCHANGED lockVars /\ sweep' = Idle
  BY DEF ItemInv, SweepWrite
<1>2. SweepTypes' /\ sweep'.at \notin Section \cup {"wait"}
  BY <1>1, SweepAt DEF SweepTypes, Section
<1>3. Touched("sweep")
  <2>1. ASSUME NEW u \in UUIDs \cup {None}, item' = [item EXCEPT !.session = u], Wrote("sweep")
        PROVE  Touched("sweep")
    <3>1. item' \in Items /\ item.answers \subseteq item'.answers
      BY <1>1, <2>1 DEF ItemTypes, Items
    <3> QED
      BY <2>1, <3>1, WroteTouches
  <2>2. CASE sweep.at = "repair" /\ item' = [item EXCEPT !.session = sweep.target] /\ Wrote("sweep")
    BY <1>1, <2>1, <2>2 DEF SweepTypes
  <2>3. CASE item' = [item EXCEPT !.session = None] /\ Wrote("sweep")
    BY <2>1, <2>3
  <2>4. CASE UNCHANGED <<item, by, since>>
    BY <1>1, <2>4, Untouched
  <2> QED
    BY <2>2, <2>3, <2>4 DEF SweepWrite
<1> QED
  BY <1>1, <1>2, <1>3, SweepFreeInv

\* The sweep asks for the lock, gets it, or gives up.
LEMMA RebindLockInv ==
  ASSUME LockUsers, ItemInv, RebindLock
  PROVE  ItemInv'
<1>1. SweepTypes /\ Locked /\ UNCHANGED still /\ item' = item /\ by' = by
  BY DEF ItemInv, RebindLock
<1>2. Consumer \in Callers /\ Sweeper # Consumer
  BY DEF LockUsers
<1>3. CASE sweep.at = "lock" /\ Track(Sweeper, Item) /\ sweep' = [sweep EXCEPT !.at = "wait"]
  <2>1. SweepTypes' /\ sweep'.at = "wait"
    BY <1>1, <1>3, SweepAt DEF SweepTypes
  <2>2. /\ IInv' /\ at'[Consumer] = at[Consumer] /\ key'[Consumer] = key[Consumer]
        /\ key'[Sweeper] = Item
    BY <1>2, <1>3, LockStep
  <2> QED
    BY <1>1, <2>1, <2>2, SweepLockInv DEF Section
<1>4. CASE /\ sweep.at = "wait" /\ Acquire(Sweeper) /\ sweep' = [sweep EXCEPT !.at = "read"]
           /\ since' = Obstacles(item)
  <2>1. SweepTypes' /\ sweep'.at = "read"
    BY <1>1, <1>4, SweepAt DEF SweepTypes
  <2>2. /\ IInv' /\ at'[Consumer] = at[Consumer] /\ key'[Consumer] = key[Consumer]
        /\ at'[Sweeper] = "inside" /\ key'[Sweeper] = key[Sweeper]
    BY <1>2, <1>4, LockStep
  <2>3. key[Sweeper] = Item
    BY <1>1, <1>4 DEF Locked
  <2> QED
    BY <1>1, <1>4, <2>1, <2>2, <2>3, SweepLockInv
<1>5. CASE sweep.at = "wait" /\ Cancel(Sweeper) /\ sweep' = Chosen("unwind", None)
  <2>1. SweepTypes' /\ sweep'.at = "unwind"
    BY <1>1, <1>5, SweepAt DEF SweepTypes
  <2>2. IInv' /\ at'[Consumer] = at[Consumer] /\ key'[Consumer] = key[Consumer]
    BY <1>2, <1>5, LockStep
  <2> QED
    BY <1>1, <2>1, <2>2, SweepLockInv DEF Section
<1> QED
  BY <1>3, <1>4, <1>5 DEF RebindLock

\* The task is read again under the lock: it is unbound and ours, or it is left alone.
LEMMA RebindReadInv ==
  ASSUME LockUsers, ItemInv, RebindRead
  PROVE  ItemInv'
<1>1. /\ SweepTypes /\ Locked /\ Watched /\ UNCHANGED still /\ UNCHANGED lockVars
      /\ UNCHANGED <<item, by, since>> /\ sweep.at = "read"
      /\ \/ Obstacles(item) = {} /\ sweep' = [sweep EXCEPT !.at = "write"]
         \/ sweep' = [sweep EXCEPT !.at = "release"]
  BY DEF ItemInv, RebindRead
<1>2. IInv' /\ at' = at /\ key' = key
  BY <1>1, NextInv DEF ItemInv, lockVars
<1>3. SweepTypes' /\ sweep'.at \in {"write", "release"}
      /\ (sweep'.at = "write" => Obstacles(item) = {})
  <2>1. sweep.target \in UUIDs
    BY <1>1 DEF SweepTypes
  <2>2. CASE Obstacles(item) = {} /\ sweep' = [sweep EXCEPT !.at = "write"]
    BY <1>1, <2>1, <2>2, SweepAt DEF SweepTypes
  <2>3. CASE sweep' = [sweep EXCEPT !.at = "release"]
    BY <1>1, <2>1, <2>3, SweepAt DEF SweepTypes
  <2> QED
    BY <1>1, <2>2, <2>3
<1>4. sweep'.at = "write" => item.session = None /\ since' = {}
  BY <1>1, <1>3 DEF Obstacles, Watched
<1>5. key[Sweeper] = Item /\ at[Sweeper] = "inside"
  BY <1>1 DEF Locked, Section
<1> QED
  BY <1>1, <1>2, <1>3, <1>4, <1>5, SweepLockInv

\* The re-bind under the lock: nothing the consumer has checked is waiting for it.
LEMMA RebindWriteInv ==
  ASSUME LockUsers, ItemInv, RebindWrite
  PROVE  ItemInv'
<1>1. /\ ItemTypes /\ SweepTypes /\ Locked /\ UNCHANGED still /\ UNCHANGED lockVars
      /\ sweep.at = "write" /\ sweep' = [sweep EXCEPT !.at = "release"]
      /\ \/ item' = [item EXCEPT !.session = sweep.target] /\ Wrote("locked")
         \/ UNCHANGED <<item, by, since>>
  BY DEF ItemInv, RebindWrite
<1>2. UNCHANGED <<live, transcripts, approver>>
      /\ UNCHANGED <<pending, work, outcome, pc, next, result>>
  BY <1>1 DEF still, writeVars
<1>3. IInv' /\ at' = at /\ key' = key
  BY <1>1, NextInv DEF ItemInv, lockVars
<1>4. SweepTypes' /\ sweep'.at = "release"
  BY <1>1, SweepAt DEF SweepTypes
<1>5. Touched("locked")
  <2>1. ASSUME item' = [item EXCEPT !.session = sweep.target], Wrote("locked")
        PROVE  Touched("locked")
    <3>1. item' \in Items /\ item.answers \subseteq item'.answers
      BY <1>1, <2>1 DEF ItemTypes, Items, SweepTypes
    <3> QED
      BY <2>1, <3>1, WroteTouches
  <2> QED
    BY <1>1, <2>1, Untouched
<1>6. ItemTypes' /\ WriterTypes'
  BY <1>2, <1>5 DEF ItemInv, ItemTypes, WriterTypes, Touched
<1>7. Locked' /\ AnswersFirst'
  BY <1>1, <1>2, <1>3, <1>4, <1>5, AnswersKept
  DEF ItemInv, Locked, AnswersFirst, Section, Touched
<1>8. pc \notin Section
  BY <1>1, Exclusive DEF Section
<1>9. Checked' /\ Watched'
  BY <1>2, <1>4, <1>8 DEF Checked, Watched, Section
<1> QED
  BY <1>3, <1>4, <1>6, <1>7, <1>9 DEF ItemInv

\* The sweep leaves the lock.
LEMMA RebindReleaseInv ==
  ASSUME LockUsers, ItemInv, RebindRelease
  PROVE  ItemInv'
<1>1. SweepTypes /\ UNCHANGED still /\ item' = item /\ by' = by
  BY DEF ItemInv, RebindRelease
<1>2. Consumer \in Callers /\ Sweeper # Consumer
  BY DEF LockUsers
<1>3. Release(Sweeper) \/ Unwind(Sweeper)
  BY DEF RebindRelease
<1>4. IInv' /\ at'[Consumer] = at[Consumer] /\ key'[Consumer] = key[Consumer]
  BY <1>2, <1>3, LockStep
<1>5. SweepTypes' /\ sweep'.at \in {"unwind", "idle"}
  BY <1>1, SweepAt DEF RebindRelease, SweepTypes
<1> QED
  BY <1>1, <1>4, <1>5, SweepLockInv DEF Section

-----------------------------------------------------------------------------
(* The writers of one item: the theorems *)

\* Initially nobody writes.
LEMMA ItemInitInv ==
  ASSUME LockUsers, Init
  PROVE  ItemInv
<1>1. IInv
  BY InitInv DEF Init
<1>2. ItemTypes
  <2>1. PICK s \in {None} \cup Names :
          item = [session |-> s, phase |-> "todo", status |-> "todo", owner |-> None,
                  approved |-> FALSE, answers |-> {}]
    BY DEF Init
  <2>2. item \in Items
    BY <2>1 DEF Items, Statuses
  <2> QED
    BY <2>2 DEF Init, ItemTypes
<1>3. WriterTypes
  BY DEF Init, WriterTypes, Statuses, Setting
<1>4. SweepTypes
  BY DEF Init, SweepTypes, Sweeps, Idle, Listings
<1>5. Locked /\ Checked /\ Watched /\ AnswersFirst
  BY DEF Init, Idle, Locked, Checked, Watched, AnswersFirst, AnswersBeforeApproval, Section
<1> QED
  BY <1>1, <1>2, <1>3, <1>4, <1>5 DEF ItemInv

\* Every step keeps the invariant.
LEMMA ItemNextInv ==
  ASSUME LockUsers, ItemInv, [Next]_vars
  PROVE  ItemInv'
<1>1. CASE SetTaskSession \/ ClearSession \/ UpdateTaskPhase \/ UpdateField
  BY <1>1, RequestInv
<1>2. CASE Consume
  BY <1>2, DequeueInv, WriteFieldInv, WriteClearInv, ShowPhaseInv, AnswerInv, ApproveInv,
     SetPhaseInv, SetStatusInv, SetLockInv, SetReadInv, SetWriteInv, SetReleaseInv DEF Consume
<1>3. CASE Sweep
  BY <1>3, SweepListInv, SweepDecideInv, SweepWriteInv, RebindLockInv, RebindReadInv,
     RebindWriteInv, RebindReleaseInv DEF Sweep
<1>4. CASE \/ ExecuteCommand \/ RunShow \/ RunApprove \/ RunLaunch \/ PeerEdit \/ SessionEvent
  BY <1>4, DirectInv
<1>5. CASE UNCHANGED vars
  <2>1. UNCHANGED quiet /\ UNCHANGED approver /\ UNCHANGED <<item, by, since>>
        /\ UNCHANGED <<live, transcripts>>
    BY <1>5 DEF vars, quiet
  <2>2. ItemTypes
    BY DEF ItemInv
  <2> QED
    BY <2>1, <2>2, Untouched, FreeInv DEF ItemTypes
<1> QED
  BY <1>1, <1>2, <1>3, <1>4, <1>5 DEF Next

\* A step writes the item under the lock only in SetTaskSession's write and the re-bind.
LEMMA LockedWriters ==
  ASSUME ItemInv, [Next]_vars, by' = "locked", item'.session # item.session
  PROVE  \/ SetWrite /\ item' = [item EXCEPT !.session = work.arg]
         \/ RebindWrite
<1>1. \A who : Wrote(who) => who = "locked"
  BY DEF Wrote
<1>2. CASE SetTaskSession \/ ClearSession \/ UpdateTaskPhase \/ UpdateField
  BY <1>2 DEF SetTaskSession, ClearSession, UpdateTaskPhase, UpdateField, Accept
<1>3. CASE Consume
  BY <1>1, <1>3 DEF Consume, Dequeue, WriteField, WriteClear, ShowPhase, Answer, Approve,
                    SetPhase, SetStatus, SetLock, SetRead, SetWrite, SetRelease, unlocked
<1>4. CASE Sweep
  BY <1>1, <1>4 DEF Sweep, SweepStart, SweepList, SweepDecide, SweepWrite, RebindLock,
                    RebindRead, RebindRelease
<1>5. CASE \/ ExecuteCommand \/ RunShow \/ RunApprove \/ RunLaunch \/ PeerEdit \/ SessionEvent
  BY <1>1, <1>5 DEF ExecuteCommand, RunShow, RunApprove, RunLaunch, PeerEdit, SessionEvent
<1>6. CASE UNCHANGED vars
  BY <1>6 DEF vars
<1> QED
  BY <1>2, <1>3, <1>4, <1>5, <1>6 DEF Next

\* A binding made under the lock is not overwritten under the lock.
LEMMA BindingStep ==
  ASSUME ItemInv, [Next]_vars, by = "locked", by' = "locked", item.session \in UUIDs
  PROVE  item'.session = item.session
<1> SUFFICES ASSUME item'.session # item.session PROVE FALSE
  OBVIOUS
<1>1. CASE SetWrite /\ item' = [item EXCEPT !.session = work.arg]
  <2>1. item.session = work.arg /\ item \in Items
    BY <1>1 DEF ItemInv, Checked, SetWrite, ItemTypes
  <2> QED
    BY <1>1, <2>1 DEF Items
<1>2. CASE RebindWrite
  <2>1. item.session = None
    BY <1>2 DEF ItemInv, Checked, RebindWrite
  <2> QED
    BY <2>1, ItemAssumption
<1> QED
  BY <1>1, <1>2, LockedWriters

\* A step of the item's writers is a step of the locks, or leaves them alone.
LEMMA LocksStep ==
  ASSUME LockUsers, ItemInv, [Next]_vars
  PROVE  [LockNext]_lockVars
<1>1. CASE SetTaskSession \/ ClearSession \/ UpdateTaskPhase \/ UpdateField
  BY <1>1 DEF SetTaskSession, ClearSession, UpdateTaskPhase, UpdateField, Accept
<1>2. CASE Consume
  <2>1. CASE SetLock \/ SetRelease
    BY <2>1, LockStep DEF SetLock, SetRelease
  <2>2. CASE ~(SetLock \/ SetRelease)
    BY <1>2, <2>2 DEF Consume, Dequeue, WriteField, WriteClear, ShowPhase, Answer, Approve,
                      SetPhase, SetStatus, SetRead, SetWrite
  <2> QED
    BY <2>1, <2>2
<1>3. CASE Sweep
  <2>1. CASE RebindLock \/ RebindRelease
    BY <2>1, LockStep DEF RebindLock, RebindRelease
  <2>2. CASE ~(RebindLock \/ RebindRelease)
    BY <1>3, <2>2 DEF Sweep, SweepStart, SweepList, SweepDecide, SweepWrite, RebindRead,
                      RebindWrite
  <2> QED
    BY <2>1, <2>2
<1>4. CASE \/ ExecuteCommand \/ RunShow \/ RunApprove \/ RunLaunch \/ PeerEdit \/ SessionEvent
  BY <1>4 DEF ExecuteCommand, RunShow, RunApprove, RunLaunch, PeerEdit, SessionEvent, quiet
<1>5. CASE UNCHANGED vars
  BY <1>5 DEF vars
<1> QED
  BY <1>1, <1>2, <1>3, <1>4, <1>5 DEF Next

\* For any number of lock callers, writes and session ids, the item, the outcomes and the
\* locks keep their types, and no lock's count of users falls below zero.
THEOREM ItemTypesKept ==
  ASSUME LockUsers
  PROVE  Spec => []ItemTypeOK
<1>1. Init => ItemInv
  BY ItemInitInv
<1>2. ItemInv /\ [Next]_vars => ItemInv'
  BY ItemNextInv
<1>3. ItemInv => ItemTypeOK
  BY DEF ItemInv, IInv, ItemTypes, WriterTypes, Items, ItemTypeOK
<1> QED
  BY <1>1, <1>2, <1>3, PTL DEF Spec

\* Whichever of the answer, approval and status calls fail, and whatever else writes the
\* item meanwhile, no task is approved by a queued request whose answers are not in the
\* file (approveTask's order).
THEOREM AnswersPrecedeApproval ==
  ASSUME LockUsers
  PROVE  Spec => []AnswersBeforeApproval
<1>1. Init => ItemInv
  BY ItemInitInv
<1>2. ItemInv /\ [Next]_vars => ItemInv'
  BY ItemNextInv
<1>3. ItemInv => AnswersBeforeApproval
  BY DEF ItemInv, AnswersFirst
<1> QED
  BY <1>1, <1>2, <1>3, PTL DEF Spec

\* A session id bound under the item's lock, by SetTaskSession or by the sweep's re-bind, is
\* never replaced by another under that lock, however stale the writer's first check was.
THEOREM BindingsKept ==
  ASSUME LockUsers
  PROVE  Spec => BindingKept
<1>1. Init => ItemInv
  BY ItemInitInv
<1>2. ItemInv /\ [Next]_vars => ItemInv'
  BY ItemNextInv
<1>3. ItemInv /\ [Next]_vars =>
        [by = "locked" /\ by' = "locked" /\ item.session \in UUIDs
           => item'.session = item.session]_vars
  BY BindingStep
<1> QED
  BY <1>1, <1>2, <1>3, PTL DEF Spec, BindingKept

\* The sweep's re-bind never writes an id to a task that was bound, or another user's, all
\* the time the sweep held the lock: it acts on what it reads under it (rebindUnderLock).
THEOREM RebindsLook ==
  ASSUME LockUsers
  PROVE  Spec => RebindBlind
<1>1. Init => ItemInv
  BY ItemInitInv
<1>2. ItemInv /\ [Next]_vars => ItemInv'
  BY ItemNextInv
<1>3. ItemInv /\ [Next]_vars => [RebindWrite /\ item' # item => since = {}]_vars
  BY DEF ItemInv, Watched, RebindWrite
<1> QED
  BY <1>1, <1>2, <1>3, PTL DEF Spec, RebindBlind

\* Used by the item's writers, too, the locks implement one mutex per key: the consumer and
\* the sweep are never both inside the item's critical section.
THEOREM WritersExclude ==
  ASSUME LockUsers
  PROVE  Spec => MutexImplemented
<1>1. Init => ItemInv /\ M!Init
  BY ItemInitInv, InitImplements DEF Init
<1>2. ItemInv /\ [Next]_vars => ItemInv'
  BY ItemNextInv
<1>3. ItemInv /\ [Next]_vars => M!Next \/ UNCHANGED Inside
  BY LocksStep, StepImplements DEF ItemInv
<1>4. (M!Next \/ UNCHANGED Inside) <=> [M!Next]_Inside
  OBVIOUS
<1> QED
  BY <1>1, <1>2, <1>3, <1>4, PTL DEF Spec, MutexImplemented, M!Spec, Inside
==============================================================================
