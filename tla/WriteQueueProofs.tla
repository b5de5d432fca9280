--------------------------- MODULE WriteQueueProofs ---------------------------
(***************************************************************************)
(* Theorems about the write queue, for any set of vaults and any number of *)
(* writes.                                                                 *)
(***************************************************************************)
EXTENDS WriteQueue, SequenceTheorems, TLAPS

-----------------------------------------------------------------------------
(* Sequences *)

\* What Take does to the pending writes: the first one and the rest make them up.
LEMMA HeadTail ==
  ASSUME NEW S, NEW s \in Seq(S), s # <<>>
  PROVE  s = <<Head(s)>> \o Tail(s)
<1>1. /\ Head(s) \in S /\ Tail(s) \in Seq(S) /\ Len(Tail(s)) = Len(s) - 1
      /\ \A i \in 1 .. Len(Tail(s)) : Tail(s)[i] = s[i + 1]
  BY HeadTailProperties
<1>2. <<Head(s)>> \in Seq(S) /\ Len(<<Head(s)>>) = 1 /\ Head(s) = s[1]
      /\ <<Head(s)>>[1] = Head(s)
  BY <1>1
<1> DEFINE t == <<Head(s)>> \o Tail(s)
<1>3. /\ t \in Seq(S) /\ Len(t) = Len(s)
      /\ \A i \in 1 .. Len(s) : t[i] = IF i <= 1 THEN <<Head(s)>>[i] ELSE Tail(s)[i - 1]
  BY <1>1, <1>2, ConcatProperties, EmptySeq
<1>4. \A i \in 1 .. Len(s) : s[i] = t[i]
  <2> SUFFICES ASSUME NEW i \in 1 .. Len(s) PROVE s[i] = t[i]
    OBVIOUS
  <2>1. CASE i = 1
    BY <2>1, <1>2, <1>3
  <2>2. CASE i > 1
    <3>1. Len(s) \in Nat /\ i - 1 \in 1 .. Len(Tail(s)) /\ (i - 1) + 1 = i
      BY <2>2, <1>1, LenProperties
    <3>2. t[i] = Tail(s)[i - 1]
      BY <2>2, <1>3
    <3> QED
      BY <3>1, <3>2, <1>1
  <2> QED
    BY <2>1, <2>2, LenProperties
<1> HIDE DEF t
<1>5. s = t
  BY <1>3, <1>4, SeqEqual, LenProperties
<1> QED
  BY <1>5 DEF t

\* Appending to the last of the parts appends to the whole.
LEMMA AppendConcat ==
  \A s, t \in Seq(Nat), e \in Nat : Append(s \o t, e) = s \o Append(t, e)
<1> SUFFICES ASSUME NEW s \in Seq(Nat), NEW t \in Seq(Nat), NEW e \in Nat
             PROVE  Append(s \o t, e) = s \o Append(t, e)
  OBVIOUS
<1>1. /\ Append(s \o t, e) = (s \o t) \o <<e>>
      /\ Append(t, e) = t \o <<e>>
      /\ <<e>> \in Seq(Nat)
  BY ConcatProperties, AppendIsConcat
<1> QED
  BY <1>1, ConcatAssociative

\* Concatenation, for sequences of writes.
LEMMA ConcatWrites ==
  \A s, t \in Seq(Nat) : s \o t \in Seq(Nat) /\ s \o <<>> = s
BY ConcatProperties, ConcatEmptySeq

\* Concatenation is associative.
LEMMA ConcatAssoc ==
  \A s, t, u \in Seq(Nat) : (s \o t) \o u = s \o (t \o u)
BY ConcatAssociative

\* A write joins a FIFO.
LEMMA AppendWrite ==
  ASSUME NEW s \in Seq(Nat), NEW e \in Nat
  PROVE  Append(s, e) \in Seq(Nat) /\ Append(s, e) # <<>>
BY AppendProperties

-----------------------------------------------------------------------------
(* The inductive invariant *)

\* Consume closes the queue before it waits for the consumers, and only after the
\* cancellation; nothing is dropped or refused before.
Phases ==
  /\ closed <=> consume \in {"closing", "returned"}
  /\ closed => cancelled
  /\ cancelled => consume # "not called"

Inv == TypeOK /\ Phases /\ OneConsumer /\ DoneTracksIdle /\ AppliedInOrder

\* The type of each vault's state.
LEMMA VaultTypes ==
  ASSUME TypeOK, NEW v \in Vaults
  PROVE  /\ pending[v] \in Seq(Nat) /\ accepted[v] \in Seq(Nat)
         /\ applied[v] \in Seq(Nat) /\ dropped[v] \in Seq(Nat)
         /\ running[v] \in BOOLEAN /\ done[v] \in Nat /\ open[v] \subseteq Nat
         /\ looping[v] \in Nat /\ applying[v] \subseteq Nat
BY DEF TypeOK

\* The queue starts empty, idle and open.
LEMMA InitInv == Init => Inv
<1> SUFFICES ASSUME Init PROVE Inv
  OBVIOUS
<1>1. <<>> \in Seq(Nat) /\ <<>> \o <<>> \o <<>> = <<>>
  BY EmptySeq, ConcatEmptySeq
<1>2. TypeOK
  BY <1>1 DEF Init, TypeOK
<1>3. Phases
  BY DEF Init, Phases
<1>4. OneConsumer
  <2>1. \A v \in Vaults : /\ looping[v] = 0 /\ applying[v] = {} /\ running[v] = FALSE
                          /\ pending[v] = <<>>
    BY DEF Init
  <2>2. ~(0 > 0)
    OBVIOUS
  <2> QED
    BY <2>1, <2>2, Zenon DEF OneConsumer
<1>5. DoneTracksIdle
  BY DEF Init, DoneTracksIdle
<1>6. AppliedInOrder
  BY <1>1 DEF Init, AppliedInOrder
<1> QED
  BY <1>2, <1>3, <1>4, <1>5, <1>6 DEF Inv

\* Enqueue keeps the invariant: the write joins the end of its vault's FIFO, and the
\* consumer it may start is the vault's only one.
LEMMA EnqueueInv ==
  ASSUME Inv, NEW v \in Vaults, Enqueue(v)
  PROVE  Inv'
<1> DEFINE w == Len(accepted[v]) + 1
<1>1. TypeOK /\ Phases /\ OneConsumer /\ DoneTracksIdle /\ AppliedInOrder
  BY DEF Inv
<1>2. w \in Nat /\ pending[v] \in Seq(Nat) /\ accepted[v] \in Seq(Nat)
  BY <1>1, VaultTypes, LenProperties
<1>3. /\ accepted' = [accepted EXCEPT ![v] = Append(@, w)]
      /\ pending' = [pending EXCEPT ![v] = Append(@, w)]
  BY DEF Enqueue
<1> HIDE DEF w
<1>4. /\ Append(pending[v], w) \in Seq(Nat) /\ Append(pending[v], w) # <<>>
      /\ Append(accepted[v], w) \in Seq(Nat)
  BY <1>2, AppendWrite
<1>5. UNCHANGED <<applying, consume, cancelled, closed, applied, dropped>>
  BY DEF Enqueue
<1>6. TypeOK'
  <2>1. pending' \in [Vaults -> Seq(Nat)] /\ accepted' \in [Vaults -> Seq(Nat)]
    BY <1>1, <1>3, <1>4 DEF TypeOK
  <2>2. running' \in [Vaults -> BOOLEAN]
    <3>1. /\ running \in [Vaults -> BOOLEAN]
          /\ running' = [running EXCEPT ![v] = @ \/ StartsConsumer(v)]
      BY <1>1 DEF TypeOK, Enqueue
    <3> QED
      BY <3>1
  <2>3. done' \in [Vaults -> Nat]
    <3>1. /\ done \in [Vaults -> Nat]
          /\ done' = [done EXCEPT ![v] = IF OpensDone(v) THEN @ + 1 ELSE @]
      BY <1>1 DEF TypeOK, Enqueue
    <3> QED
      BY <3>1
  <2>4. looping' \in [Vaults -> Nat]
    <3>1. /\ looping \in [Vaults -> Nat]
          /\ looping' = [looping EXCEPT ![v] = IF StartsConsumer(v) THEN @ + 1 ELSE @]
      BY <1>1 DEF TypeOK, Enqueue
    <3> QED
      BY <3>1
  <2>5. open' \in [Vaults -> SUBSET Nat]
    <3>1. /\ open \in [Vaults -> SUBSET Nat] /\ done[v] \in Nat
          /\ open' = [open EXCEPT ![v] = IF OpensDone(v) THEN @ \cup {done[v] + 1} ELSE @]
      BY <1>1 DEF TypeOK, Enqueue
    <3>2. open[v] \in SUBSET Nat /\ open[v] \cup {done[v] + 1} \in SUBSET Nat
      BY <3>1
    <3> QED
      BY <3>1, <3>2
  <2> QED
    BY <1>1, <1>5, <2>1, <2>2, <2>3, <2>4, <2>5 DEF TypeOK
<1>7. Phases'
  BY <1>1, <1>5 DEF Phases
<1>8. OneConsumer'
  <2> SUFFICES ASSUME NEW u \in Vaults
               PROVE  /\ running'[u] <=> (looping'[u] > 0 \/ applying'[u] # {})
                      /\ looping'[u] = 0 \/ (looping'[u] = 1 /\ applying'[u] = {})
                      /\ \A x, y \in applying'[u] : x = y
                      /\ consume' # "not called" /\ pending'[u] # <<>> => running'[u]
    BY DEF OneConsumer
  <2>1. /\ running'[u] = IF u = v THEN running[v] \/ StartsConsumer(v) ELSE running[u]
        /\ looping'[u] = IF u = v /\ StartsConsumer(v) THEN looping[v] + 1 ELSE looping[u]
        /\ applying'[u] = applying[u] /\ consume' = consume
        /\ u # v => pending'[u] = pending[u]
    BY <1>1 DEF Enqueue, TypeOK
  <2>2. looping[u] \in Nat /\ running[u] \in BOOLEAN
    BY <1>1, VaultTypes
  <2>3. CASE u = v /\ StartsConsumer(v)
    <3>1. consume # "not called" /\ running[v] = FALSE
      BY <2>2, <2>3 DEF StartsConsumer
    <3>2. /\ ~(looping[v] > 0) /\ applying[v] = {}
          /\ looping[v] \in Nat
      BY <1>1, <2>2, <2>3, <3>1, Zenon DEF OneConsumer
    <3>3. looping'[u] = 1 /\ looping'[u] > 0 /\ applying'[u] = {}
      BY <2>1, <2>3, <3>2
    <3>4. running'[u]
      BY <2>1, <2>3, Zenon
    <3> QED
      BY <3>3, <3>4, Zenon
  <2>4. CASE u = v /\ ~StartsConsumer(v)
    <3>1. running'[v] = running[v] /\ (consume = "not called" \/ running[v])
      BY <2>1, <2>2, <2>4 DEF StartsConsumer
    <3> QED
      BY <1>1, <2>1, <2>4, <3>1 DEF OneConsumer
  <2>5. CASE u # v
    BY <1>1, <2>1, <2>5 DEF OneConsumer
  <2> QED
    BY <2>3, <2>4, <2>5
<1>9. DoneTracksIdle'
  BY <1>1, <1>3, <1>4 DEF TypeOK, DoneTracksIdle, Enqueue, OpensDone, StartsConsumer
<1>10. AppliedInOrder'
  <2> SUFFICES ASSUME NEW u \in Vaults
               PROVE  /\ \/ /\ applying'[u] = {}
                            /\ accepted'[u] = applied'[u] \o dropped'[u] \o pending'[u]
                         \/ /\ dropped'[u] = <<>>
                            /\ \E x \in applying'[u] :
                                 accepted'[u] = applied'[u] \o <<x>> \o pending'[u]
                      /\ dropped'[u] # <<>> => cancelled'
    BY DEF AppliedInOrder
  <2>1. /\ accepted'[u] = IF u = v THEN Append(accepted[v], w) ELSE accepted[u]
        /\ pending'[u] = IF u = v THEN Append(pending[v], w) ELSE pending[u]
        /\ applied'[u] = applied[u] /\ dropped'[u] = dropped[u]
        /\ applying'[u] = applying[u] /\ cancelled' = cancelled
    BY <1>1, <1>3, <1>5 DEF TypeOK
  <2>2. CASE u # v
    BY <2>1, <2>2, <1>1 DEF AppliedInOrder
  <2>3. CASE u = v
    <3>1. ASSUME NEW s \in Seq(Nat), accepted[v] = s \o pending[v]
          PROVE  Append(accepted[v], w) = s \o Append(pending[v], w)
      <4>1. Append(s \o pending[v], w) = s \o Append(pending[v], w)
        BY <1>2, AppendConcat, Zenon
      <4> QED
        BY <3>1, <4>1
    <3>2. applied[v] \o dropped[v] \in Seq(Nat)
      BY <1>1, VaultTypes, ConcatProperties
    <3>3. ASSUME NEW x \in applying[v] PROVE applied[v] \o <<x>> \in Seq(Nat)
      <4>1. x \in Nat /\ applied[v] \in Seq(Nat)
        BY <1>1, VaultTypes
      <4>2. <<x>> \in Seq(Nat)
        BY <4>1
      <4> QED
        BY <4>1, <4>2, ConcatProperties
    <3> QED
      BY <2>1, <2>3, <1>1, <3>1, <3>2, <3>3 DEF AppliedInOrder
  <2> QED
    BY <2>2, <2>3
<1> QED
  BY <1>6, <1>7, <1>8, <1>9, <1>10 DEF Inv

\* Consume keeps it: no vault has a consumer yet, and each vault with writes gets one.
LEMMA ConsumeInv ==
  ASSUME Inv, Consume
  PROVE  Inv'
<1> DEFINE Starts(u) == pending[u] # <<>> /\ ~running[u]
<1>1. TypeOK /\ Phases /\ OneConsumer /\ DoneTracksIdle /\ AppliedInOrder
  BY DEF Inv
<1>2. /\ consume = "not called" /\ consume' = "waiting"
      /\ UNCHANGED <<pending, done, open, applying, cancelled, closed, historyVars>>
  BY DEF Consume
<1>3. /\ running' = [u \in Vaults |-> running[u] \/ Starts(u)]
      /\ looping' = [u \in Vaults |-> IF Starts(u) THEN looping[u] + 1 ELSE looping[u]]
  BY DEF Consume
<1>4. TypeOK'
  <2>1. running' \in [Vaults -> BOOLEAN]
    BY <1>3
  <2>2. looping' \in [Vaults -> Nat]
    <3>1. looping \in [Vaults -> Nat]
      BY <1>1 DEF TypeOK
    <3> HIDE DEF Starts
    <3> QED
      BY <1>3, <3>1
  <2> QED
    BY <1>1, <1>2, <2>1, <2>2 DEF TypeOK, historyVars
<1>5. Phases'
  BY <1>1, <1>2 DEF Phases
<1>6. OneConsumer'
  <2> SUFFICES ASSUME NEW u \in Vaults
               PROVE  /\ running'[u] <=> (looping'[u] > 0 \/ applying'[u] # {})
                      /\ looping'[u] = 0 \/ (looping'[u] = 1 /\ applying'[u] = {})
                      /\ \A x, y \in applying'[u] : x = y
                      /\ consume' # "not called" /\ pending'[u] # <<>> => running'[u]
    BY DEF OneConsumer
  <2>1. CASE Starts(u)
    <3>1. ~(looping[u] > 0) /\ applying[u] = {} /\ looping[u] \in Nat
      BY <1>1, <2>1, VaultTypes, Zenon DEF OneConsumer
    <3>2. looping'[u] = 1 /\ looping'[u] > 0 /\ applying'[u] = {}
      <4> HIDE DEF Starts
      <4>1. looping'[u] = looping[u] + 1 /\ applying'[u] = applying[u]
        BY <1>2, <1>3, <2>1
      <4> QED
        BY <3>1, <4>1
    <3>3. running'[u]
      BY <1>3, <2>1, Zenon
    <3> QED
      BY <3>2, <3>3, Zenon
  <2>2. CASE ~Starts(u)
    <3>1. /\ running'[u] = (running[u] \/ FALSE) /\ looping'[u] = looping[u]
          /\ applying'[u] = applying[u] /\ pending'[u] = pending[u]
      BY <1>2, <1>3, <2>2
    <3>2. running[u] \in BOOLEAN
      BY <1>1, VaultTypes
    <3> QED
      BY <1>1, <2>2, <3>1, <3>2, Zenon DEF OneConsumer
  <2> QED
    BY <2>1, <2>2
<1>7. DoneTracksIdle'
  <2> SUFFICES ASSUME NEW u \in Vaults
               PROVE  open'[u] = IF pending'[u] # <<>> \/ running'[u]
                                   THEN {done'[u]} ELSE {}
    BY DEF DoneTracksIdle
  <2>1. /\ running'[u] = (running[u] \/ Starts(u)) /\ open'[u] = open[u]
        /\ done'[u] = done[u] /\ pending'[u] = pending[u]
    BY <1>2, <1>3
  <2> QED
    BY <1>1, <2>1 DEF DoneTracksIdle
<1>8. AppliedInOrder'
  BY <1>1, <1>2 DEF AppliedInOrder, historyVars
<1> QED
  BY <1>4, <1>5, <1>6, <1>7, <1>8 DEF Inv

\* So do the cancellation, the closing of the queue and the return of Consume.
LEMMA StopInv ==
  ASSUME Inv, Cancel \/ Close \/ ConsumeReturn
  PROVE  Inv'
<1>1. TypeOK /\ Phases /\ OneConsumer /\ DoneTracksIdle /\ AppliedInOrder
  BY DEF Inv
<1>2. UNCHANGED <<queueVars, looping, applying, historyVars>>
  BY DEF Cancel, Close, ConsumeReturn
<1>3. /\ cancelled => cancelled'
      /\ cancelled' \in BOOLEAN /\ closed' \in BOOLEAN
      /\ consume' \in {"not called", "waiting", "closing", "returned"}
      /\ consume = "not called" => consume' = "not called"
      /\ consume' # "not called" => consume # "not called"
  BY <1>1 DEF Cancel, Close, ConsumeReturn, TypeOK
<1>4. TypeOK'
  BY <1>1, <1>2, <1>3 DEF TypeOK, queueVars, historyVars
<1>5. Phases'
  <2>1. CASE Cancel
    BY <1>1, <2>1 DEF Phases, Cancel, TypeOK
  <2>2. CASE Close
    BY <1>1, <2>2 DEF Phases, Close, TypeOK
  <2>3. CASE ConsumeReturn
    BY <1>1, <2>3 DEF Phases, ConsumeReturn, TypeOK
  <2> QED
    BY <2>1, <2>2, <2>3
<1>6. OneConsumer'
  BY <1>1, <1>2, <1>3 DEF OneConsumer, queueVars
<1>7. DoneTracksIdle'
  BY <1>1, <1>2 DEF DoneTracksIdle, queueVars
<1>8. AppliedInOrder'
  BY <1>1, <1>2, <1>3 DEF AppliedInOrder, queueVars, historyVars
<1> QED
  BY <1>4, <1>5, <1>6, <1>7, <1>8 DEF Inv

\* A consumer at its loop head is its vault's only one and applies nothing.
LEMMA AtLoopHead ==
  ASSUME TypeOK, OneConsumer, DoneTracksIdle, NEW v \in Vaults, looping[v] > 0
  PROVE  looping[v] = 1 /\ applying[v] = {} /\ running[v] /\ open[v] = {done[v]}
<1>1. looping[v] = 1 /\ applying[v] = {}
  <2>1. looping[v] = 0 \/ (looping[v] = 1 /\ applying[v] = {})
    BY Zenon DEF OneConsumer
  <2> QED
    BY <2>1
<1>2. running[v]
  BY Zenon DEF OneConsumer
<1> QED
  BY <1>1, <1>2 DEF DoneTracksIdle

\* A consumer that ends, dropping what is left or having found nothing left, leaves
\* its vault idle and the vault's done channel closed.
LEMMA EndInv ==
  ASSUME Inv, NEW v \in Vaults, Drop(v) \/ Leave(v)
  PROVE  Inv'
<1>1. TypeOK /\ Phases /\ OneConsumer /\ DoneTracksIdle /\ AppliedInOrder
  BY DEF Inv
<1>2. looping[v] > 0
  BY DEF Drop, Leave
<1>3. looping[v] = 1 /\ applying[v] = {} /\ running[v] /\ open[v] = {done[v]}
  BY <1>1, <1>2, AtLoopHead
<1>4. /\ running' = [running EXCEPT ![v] = FALSE]
      /\ open' = [open EXCEPT ![v] = @ \ {done[v]}]
      /\ looping' = [looping EXCEPT ![v] = @ - 1]
      /\ UNCHANGED <<done, applying, consume, cancelled, closed, accepted, applied>>
  BY DEF Drop, Leave, historyVars
<1>5. pending' = [pending EXCEPT ![v] = <<>>]
  BY <1>1 DEF Drop, Leave, TypeOK
<1>6. dropped' = [dropped EXCEPT ![v] = @ \o pending[v]]
  <2>1. CASE Drop(v)
    BY <2>1 DEF Drop
  <2>2. CASE Leave(v)
    <3>1. pending[v] = <<>> /\ dropped' = dropped
      BY <2>2 DEF Leave, historyVars
    <3>2. dropped[v] \in Seq(Nat) /\ <<>> \in Seq(Nat)
      BY <1>1, VaultTypes
    <3>3. dropped[v] \o pending[v] = dropped[v]
      BY <3>1, <3>2, ConcatWrites
    <3> QED
      BY <1>1, <3>1, <3>3 DEF TypeOK
  <2> QED
    BY <2>1, <2>2
<1>7. TypeOK'
  <2>1. dropped[v] \o pending[v] \in Seq(Nat) /\ <<>> \in Seq(Nat)
    BY <1>1, VaultTypes, ConcatWrites
  <2>2. pending' \in [Vaults -> Seq(Nat)] /\ dropped' \in [Vaults -> Seq(Nat)]
    BY <1>1, <1>5, <1>6, <2>1 DEF TypeOK
  <2>3. running' \in [Vaults -> BOOLEAN] /\ open' \in [Vaults -> SUBSET Nat]
    BY <1>1, <1>4 DEF TypeOK
  <2>4. looping' \in [Vaults -> Nat]
    <3>1. looping \in [Vaults -> Nat]
      BY <1>1 DEF TypeOK
    <3> QED
      BY <1>3, <1>4, <3>1
  <2> QED
    BY <1>1, <1>4, <2>2, <2>3, <2>4 DEF TypeOK
<1>8. Phases'
  BY <1>1, <1>4 DEF Phases
<1>9. OneConsumer'
  <2> SUFFICES ASSUME NEW u \in Vaults
               PROVE  /\ running'[u] <=> (looping'[u] > 0 \/ applying'[u] # {})
                      /\ looping'[u] = 0 \/ (looping'[u] = 1 /\ applying'[u] = {})
                      /\ \A x, y \in applying'[u] : x = y
                      /\ consume' # "not called" /\ pending'[u] # <<>> => running'[u]
    BY DEF OneConsumer
  <2>1. CASE u = v
    <3>1. looping'[u] = 0 /\ ~(looping'[u] > 0) /\ applying'[u] = {}
      <4>1. looping'[v] = looping[v] - 1 /\ applying' = applying
        BY <1>1, <1>4 DEF TypeOK
      <4> QED
        BY <1>3, <2>1, <4>1
    <3>2. running'[u] = FALSE /\ pending'[u] = <<>>
      BY <1>1, <1>4, <1>5, <2>1 DEF TypeOK
    <3> QED
      BY <3>1, <3>2, Zenon
  <2>2. CASE u # v
    <3>1. /\ looping'[u] = looping[u] /\ applying'[u] = applying[u]
          /\ running'[u] = running[u] /\ pending'[u] = pending[u] /\ consume' = consume
      BY <1>1, <1>4, <1>5, <2>2 DEF TypeOK
    <3> QED
      BY <1>1, <3>1, Zenon DEF OneConsumer
  <2> QED
    BY <2>1, <2>2
<1>10. DoneTracksIdle'
  <2> SUFFICES ASSUME NEW u \in Vaults
               PROVE  open'[u] = IF pending'[u] # <<>> \/ running'[u]
                                   THEN {done'[u]} ELSE {}
    BY DEF DoneTracksIdle
  <2>1. CASE u = v
    BY <1>1, <1>3, <1>4, <1>5, <2>1 DEF TypeOK
  <2>2. CASE u # v
    BY <1>1, <1>4, <1>5, <2>2 DEF DoneTracksIdle, TypeOK
  <2> QED
    BY <2>1, <2>2
<1>11. AppliedInOrder'
  <2> SUFFICES ASSUME NEW u \in Vaults
               PROVE  /\ \/ /\ applying'[u] = {}
                            /\ accepted'[u] = applied'[u] \o dropped'[u] \o pending'[u]
                         \/ /\ dropped'[u] = <<>>
                            /\ \E x \in applying'[u] :
                                 accepted'[u] = applied'[u] \o <<x>> \o pending'[u]
                      /\ dropped'[u] # <<>> => cancelled'
    BY DEF AppliedInOrder
  <2>1. CASE u = v
    <3>1. /\ applying'[v] = {} /\ accepted'[v] = accepted[v] /\ applied'[v] = applied[v]
          /\ dropped'[v] = dropped[v] \o pending[v] /\ pending'[v] = <<>>
      BY <1>1, <1>3, <1>4, <1>5, <1>6 DEF TypeOK
    <3>2. accepted[v] = applied[v] \o dropped[v] \o pending[v]
      BY <1>1, <1>3 DEF AppliedInOrder
    <3>3. applied[v] \in Seq(Nat) /\ dropped[v] \in Seq(Nat) /\ pending[v] \in Seq(Nat)
      BY <1>1, VaultTypes
    <3>4. accepted[v] = applied[v] \o (dropped[v] \o pending[v]) \o <<>>
      <4>1. accepted[v] = applied[v] \o (dropped[v] \o pending[v])
        BY <3>2, <3>3, ConcatAssoc
      <4>2. applied[v] \o (dropped[v] \o pending[v]) \in Seq(Nat)
        BY <3>3, ConcatWrites, Zenon
      <4> QED
        BY <4>1, <4>2, ConcatWrites, Zenon
    <3>5. dropped'[v] # <<>> => cancelled'
      <4>1. CASE Drop(v)
        BY <4>1 DEF Drop
      <4>2. CASE Leave(v)
        BY <1>1, <4>2 DEF Leave, historyVars, AppliedInOrder
      <4> QED
        BY <4>1, <4>2
    <3> QED
      BY <2>1, <3>1, <3>4, <3>5
  <2>2. CASE u # v
    BY <1>1, <1>4, <1>5, <1>6, <2>2 DEF AppliedInOrder, TypeOK
  <2> QED
    BY <2>1, <2>2
<1> QED
  BY <1>7, <1>8, <1>9, <1>10, <1>11 DEF Inv

\* The consumer takes the oldest pending write.
LEMMA TakeInv ==
  ASSUME Inv, NEW v \in Vaults, Take(v)
  PROVE  Inv'
<1>1. TypeOK /\ Phases /\ OneConsumer /\ DoneTracksIdle /\ AppliedInOrder
  BY DEF Inv
<1>2. looping[v] > 0 /\ ~cancelled /\ pending[v] # <<>>
  BY DEF Take
<1>3. looping[v] = 1 /\ applying[v] = {} /\ running[v] /\ open[v] = {done[v]}
  BY <1>1, <1>2, AtLoopHead
<1>4. /\ applied[v] \in Seq(Nat) /\ pending[v] \in Seq(Nat)
      /\ pending[v] = <<Head(pending[v])>> \o Tail(pending[v])
      /\ Head(pending[v]) \in Nat /\ Tail(pending[v]) \in Seq(Nat)
  <2>1. pending[v] \in Seq(Nat) /\ applied[v] \in Seq(Nat)
    BY <1>1, VaultTypes
  <2> QED
    BY <2>1, <1>2, HeadTail, HeadTailProperties
<1> DEFINE h == Head(pending[v])
           t == Tail(pending[v])
<1>5. /\ pending' = [pending EXCEPT ![v] = t]
      /\ looping' = [looping EXCEPT ![v] = @ - 1]
      /\ applying' = [applying EXCEPT ![v] = @ \cup {h}]
      /\ UNCHANGED <<running, done, open, consume, cancelled, closed, historyVars>>
  BY DEF Take
<1>6. pending[v] = <<h>> \o t /\ h \in Nat /\ t \in Seq(Nat)
  BY <1>4
<1> HIDE DEF h, t
<1>7. TypeOK'
  <2>1. pending' \in [Vaults -> Seq(Nat)]
    BY <1>1, <1>5, <1>6 DEF TypeOK
  <2>2. looping' \in [Vaults -> Nat]
    <3>1. looping \in [Vaults -> Nat]
      BY <1>1 DEF TypeOK
    <3> QED
      BY <1>3, <1>5, <3>1
  <2>3. applying' \in [Vaults -> SUBSET Nat]
    <3>1. applying \in [Vaults -> SUBSET Nat]
      BY <1>1 DEF TypeOK
    <3> QED
      BY <1>3, <1>5, <1>6, <3>1
  <2> QED
    BY <1>1, <1>5, <2>1, <2>2, <2>3 DEF TypeOK, historyVars
<1>8. Phases'
  BY <1>1, <1>5 DEF Phases
<1>9. OneConsumer'
  <2> SUFFICES ASSUME NEW u \in Vaults
               PROVE  /\ running'[u] <=> (looping'[u] > 0 \/ applying'[u] # {})
                      /\ looping'[u] = 0 \/ (looping'[u] = 1 /\ applying'[u] = {})
                      /\ \A x, y \in applying'[u] : x = y
                      /\ consume' # "not called" /\ pending'[u] # <<>> => running'[u]
    BY DEF OneConsumer
  <2>1. CASE u = v
    <3>1. looping'[u] = 0 /\ ~(looping'[u] > 0) /\ applying'[u] = {h}
      <4>1. looping'[v] = looping[v] - 1 /\ applying'[v] = applying[v] \cup {h}
        BY <1>1, <1>5 DEF TypeOK
      <4> QED
        BY <1>3, <2>1, <4>1
    <3>2. running'[u]
      BY <1>3, <1>5, <2>1
    <3> QED
      BY <3>1, <3>2, Zenon
  <2>2. CASE u # v
    <3>1. /\ looping'[u] = looping[u] /\ applying'[u] = applying[u]
          /\ running'[u] = running[u] /\ pending'[u] = pending[u] /\ consume' = consume
      BY <1>1, <1>5, <2>2 DEF TypeOK
    <3> QED
      BY <1>1, <3>1, Zenon DEF OneConsumer
  <2> QED
    BY <2>1, <2>2
<1>10. DoneTracksIdle'
  <2> SUFFICES ASSUME NEW u \in Vaults
               PROVE  open'[u] = IF pending'[u] # <<>> \/ running'[u]
                                   THEN {done'[u]} ELSE {}
    BY DEF DoneTracksIdle
  <2>1. CASE u = v
    BY <1>3, <1>5, <2>1
  <2>2. CASE u # v
    BY <1>1, <1>5, <2>2 DEF DoneTracksIdle, TypeOK
  <2> QED
    BY <2>1, <2>2
<1>11. AppliedInOrder'
  <2> SUFFICES ASSUME NEW u \in Vaults
               PROVE  /\ \/ /\ applying'[u] = {}
                            /\ accepted'[u] = applied'[u] \o dropped'[u] \o pending'[u]
                         \/ /\ dropped'[u] = <<>>
                            /\ \E x \in applying'[u] :
                                 accepted'[u] = applied'[u] \o <<x>> \o pending'[u]
                      /\ dropped'[u] # <<>> => cancelled'
    BY DEF AppliedInOrder
  <2>1. CASE u = v
    <3>1. /\ applying'[v] = {h} /\ pending'[v] = t
          /\ accepted' = accepted /\ applied' = applied /\ dropped' = dropped
      BY <1>1, <1>3, <1>5 DEF TypeOK, historyVars
    <3>2. dropped[v] = <<>> /\ accepted[v] = applied[v] \o <<>> \o pending[v]
      BY <1>1, <1>2, <1>3 DEF AppliedInOrder
    <3>3. <<h>> \in Seq(Nat)
      BY <1>6
    <3>4. accepted[v] = applied[v] \o <<h>> \o t
      <4>1. accepted[v] = applied[v] \o pending[v]
        BY <3>2, <1>4, ConcatWrites, Zenon
      <4>2. applied[v] \o (<<h>> \o t) = applied[v] \o <<h>> \o t
        BY <3>3, <1>4, <1>6, ConcatAssoc
      <4> QED
        BY <4>1, <4>2, <1>6, Zenon
    <3> QED
      BY <2>1, <3>1, <3>2, <3>4
  <2>2. CASE u # v
    BY <1>1, <1>5, <2>2 DEF AppliedInOrder, TypeOK, historyVars
  <2> QED
    BY <2>1, <2>2
<1> QED
  BY <1>7, <1>8, <1>9, <1>10, <1>11 DEF Inv

\* The write being applied was the only one, and its consumer goes on.
LEMMA ApplyReturnInv ==
  ASSUME Inv, NEW v \in Vaults, NEW w \in applying[v], ApplyReturn(v, w)
  PROVE  Inv'
<1>1. TypeOK /\ Phases /\ OneConsumer /\ DoneTracksIdle /\ AppliedInOrder
  BY DEF Inv
<1>2. applying[v] = {w} /\ looping[v] = 0 /\ running[v]
  <2>1. \A x \in applying[v] : x = w
    BY <1>1, Zenon DEF OneConsumer
  <2>2. running[v] /\ (looping[v] = 0 \/ applying[v] = {})
    BY <1>1, Zenon DEF OneConsumer
  <2> QED
    BY <2>1, <2>2
<1>3. /\ applying' = [applying EXCEPT ![v] = @ \ {w}]
      /\ applied' = [applied EXCEPT ![v] = Append(@, w)]
      /\ looping' = [looping EXCEPT ![v] = @ + 1]
      /\ UNCHANGED <<queueVars, consume, cancelled, closed, accepted, dropped>>
  BY DEF ApplyReturn
<1>4. /\ w \in Nat /\ applied[v] \in Seq(Nat) /\ pending[v] \in Seq(Nat)
  BY <1>1, <1>2, VaultTypes
<1>5. Append(applied[v], w) \in Seq(Nat) /\ Append(applied[v], w) = applied[v] \o <<w>>
  BY <1>4, AppendWrite, AppendIsConcat
<1>6. TypeOK'
  <2>1. applied' \in [Vaults -> Seq(Nat)]
    BY <1>1, <1>3, <1>5 DEF TypeOK
  <2>2. looping' \in [Vaults -> Nat]
    <3>1. looping \in [Vaults -> Nat]
      BY <1>1 DEF TypeOK
    <3> QED
      BY <1>3, <3>1
  <2>3. applying' \in [Vaults -> SUBSET Nat]
    BY <1>1, <1>3 DEF TypeOK
  <2> QED
    BY <1>1, <1>3, <2>1, <2>2, <2>3 DEF TypeOK, queueVars
<1>7. Phases'
  BY <1>1, <1>3 DEF Phases
<1>8. OneConsumer'
  <2> SUFFICES ASSUME NEW u \in Vaults
               PROVE  /\ running'[u] <=> (looping'[u] > 0 \/ applying'[u] # {})
                      /\ looping'[u] = 0 \/ (looping'[u] = 1 /\ applying'[u] = {})
                      /\ \A x, y \in applying'[u] : x = y
                      /\ consume' # "not called" /\ pending'[u] # <<>> => running'[u]
    BY DEF OneConsumer
  <2>1. CASE u = v
    <3>1. looping'[u] = 1 /\ looping'[u] > 0 /\ applying'[u] = {}
      <4>1. looping'[v] = looping[v] + 1 /\ applying'[v] = applying[v] \ {w}
        BY <1>1, <1>3 DEF TypeOK
      <4> QED
        BY <1>2, <2>1, <4>1
    <3>2. running'[u]
      BY <1>2, <1>3, <2>1 DEF queueVars
    <3> QED
      BY <3>1, <3>2, Zenon
  <2>2. CASE u # v
    <3>1. /\ looping'[u] = looping[u] /\ applying'[u] = applying[u]
          /\ running'[u] = running[u] /\ pending'[u] = pending[u] /\ consume' = consume
      BY <1>1, <1>3, <2>2 DEF TypeOK, queueVars
    <3> QED
      BY <1>1, <3>1, Zenon DEF OneConsumer
  <2> QED
    BY <2>1, <2>2
<1>9. DoneTracksIdle'
  BY <1>1, <1>3 DEF DoneTracksIdle, queueVars
<1>10. AppliedInOrder'
  <2> SUFFICES ASSUME NEW u \in Vaults
               PROVE  /\ \/ /\ applying'[u] = {}
                            /\ accepted'[u] = applied'[u] \o dropped'[u] \o pending'[u]
                         \/ /\ dropped'[u] = <<>>
                            /\ \E x \in applying'[u] :
                                 accepted'[u] = applied'[u] \o <<x>> \o pending'[u]
                      /\ dropped'[u] # <<>> => cancelled'
    BY DEF AppliedInOrder
  <2>1. CASE u = v
    <3>1. /\ applying'[v] = {} /\ pending' = pending /\ cancelled' = cancelled
          /\ applied'[v] = applied[v] \o <<w>>
          /\ accepted' = accepted /\ dropped' = dropped
      BY <1>1, <1>2, <1>3, <1>5 DEF TypeOK, queueVars
    <3>2. dropped[v] = <<>> /\ accepted[v] = applied[v] \o <<w>> \o pending[v]
      BY <1>1, <1>2 DEF AppliedInOrder
    <3>3. applied[v] \o <<w>> \o <<>> = applied[v] \o <<w>>
      BY <1>5, ConcatWrites
    <3> QED
      BY <2>1, <3>1, <3>2, <3>3
  <2>2. CASE u # v
    BY <1>1, <1>3, <2>2 DEF AppliedInOrder, TypeOK, queueVars
  <2> QED
    BY <2>1, <2>2
<1> QED
  BY <1>6, <1>7, <1>8, <1>9, <1>10 DEF Inv

\* Every step of the queue keeps the invariant.
LEMMA NextInv ==
  ASSUME Inv, [Next]_vars
  PROVE  Inv'
<1>1. ASSUME NEW v \in Vaults, Enqueue(v) PROVE Inv'
  BY <1>1, EnqueueInv
<1>2. ASSUME NEW v \in Vaults, Drain(v) PROVE Inv'
  <2>1. CASE Drop(v) \/ Leave(v)
    BY <2>1, EndInv
  <2>2. CASE Take(v)
    BY <2>2, TakeInv
  <2> QED
    BY <1>2, <2>1, <2>2 DEF Drain
<1>3. ASSUME NEW v \in Vaults, NEW w \in applying[v], ApplyReturn(v, w) PROVE Inv'
  BY <1>3, ApplyReturnInv
<1>4. CASE Consume
  BY <1>4, ConsumeInv
<1>5. CASE Cancel \/ Close \/ ConsumeReturn
  BY <1>5, StopInv
<1>6. CASE UNCHANGED vars
  <2>1. TypeOK'
    BY <1>6 DEF vars, queueVars, historyVars, Inv, TypeOK
  <2>2. Phases' /\ OneConsumer'
    BY <1>6, Zenon DEF vars, queueVars, historyVars, Inv, Phases, OneConsumer
  <2>3. DoneTracksIdle' /\ AppliedInOrder'
    BY <1>6 DEF vars, queueVars, historyVars, Inv, DoneTracksIdle, AppliedInOrder
  <2> QED
    BY <2>1, <2>2, <2>3 DEF Inv
<1> QED
  BY <1>1, <1>2, <1>3, <1>4, <1>5, <1>6 DEF Next

\* Inv always holds.
THEOREM Invariant == Spec => []Inv
<1>1. Init => Inv
  BY InitInv
<1>2. Inv /\ [Next]_vars => Inv'
  BY NextInv
<1> QED
  BY <1>1, <1>2, PTL DEF Spec

-----------------------------------------------------------------------------
(* The theorems *)

\* Enqueue, Consume and drain never leave a vault with two consumers, nor with
\* pending writes and none: however many producers race however many consumers.
THEOREM QueueOneConsumer == Spec => []OneConsumer
<1>1. Inv => OneConsumer
  BY DEF Inv
<1> QED
  BY <1>1, Invariant, PTL

\* drain closes the channel Done returned when, and only when, its vault is idle, and
\* never closes one twice.
THEOREM QueueDone == Spec => []DoneTracksIdle
<1>1. Inv => DoneTracksIdle
  BY DEF Inv
<1> QED
  BY <1>1, Invariant, PTL

\* The writes of a vault are applied in the order of their Enqueues, each once, and
\* none is lost before the cancellation.
THEOREM QueueOrder == Spec => []AppliedInOrder
<1>1. Inv => AppliedInOrder
  BY DEF Inv
<1> QED
  BY <1>1, Invariant, PTL

\* Consume returns only when no write is being applied or pending, and nothing is
\* started or accepted after that.
THEOREM QueueStopped == Spec => []ReturnedMeansStopped
<1> DEFINE Stopped == consume = "returned" => \A v \in Vaults : running[v] = FALSE
<1>1. Init => Stopped
  BY DEF Init
<1>2. ASSUME Inv, Inv', Stopped, [Next]_vars PROVE Stopped'
  <2> SUFFICES ASSUME consume' = "returned", NEW v \in Vaults PROVE running'[v] = FALSE
    OBVIOUS
  <2>1. TypeOK /\ Phases /\ OneConsumer /\ running'[v] \in BOOLEAN
    BY <1>2, VaultTypes DEF Inv, TypeOK
  <2>2. CASE consume # "returned"
    <3>1. ConsumeReturn
      BY <1>2, <2>2 DEF Next, Drain, Enqueue, Consume, Cancel, Close, Drop, Leave, Take,
                        ApplyReturn, vars
    <3>2. running' = running /\ looping[v] = 0 /\ applying[v] = {}
      BY <3>1 DEF ConsumeReturn, WaitGroupIdle, queueVars
    <3>3. ~(looping[v] > 0)
      BY <3>2
    <3>4. ~running[v]
      BY <2>1, <3>2, <3>3, Zenon DEF OneConsumer
    <3> QED
      BY <2>1, <3>2, <3>4
  <2>3. CASE consume = "returned"
    <3>1. closed /\ running[v] = FALSE
      BY <1>2, <2>1, <2>3 DEF Phases
    <3>2. ~(looping[v] > 0)
      BY <2>1, <3>1, Zenon DEF OneConsumer
    <3>3. ~Drain(v)
      BY <3>2 DEF Drain, Drop, Leave, Take
    <3>4. \A u \in Vaults : ~Enqueue(u)
      BY <3>1 DEF Enqueue
    <3>5. ~Consume
      BY <2>3 DEF Consume
    <3>6. running'[v] = running[v]
      BY <1>2, <2>1, <3>3, <3>4, <3>5 DEF Next, Drain, Cancel, Close, ConsumeReturn, Drop,
                        Leave, Take, ApplyReturn, vars, queueVars, TypeOK
    <3> QED
      BY <3>1, <3>6
  <2> QED
    BY <2>2, <2>3
<1>3. Inv /\ Stopped => ReturnedMeansStopped
  <2> SUFFICES ASSUME Inv, Stopped, consume = "returned", NEW v \in Vaults
               PROVE  applying[v] = {} /\ looping[v] = 0 /\ pending[v] = <<>>
    BY DEF ReturnedMeansStopped
  <2>1. running[v] = FALSE /\ looping[v] \in Nat /\ OneConsumer
    BY VaultTypes DEF Inv
  <2>2. applying[v] = {} /\ ~(looping[v] > 0) /\ pending[v] = <<>>
    BY <2>1, Zenon DEF OneConsumer
  <2> QED
    BY <2>1, <2>2
<1> HIDE DEF Stopped
<1> QED
  BY <1>1, <1>2, <1>3, Invariant, PTL DEF Spec
=============================================================================
