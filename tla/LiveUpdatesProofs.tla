-------------------------- MODULE LiveUpdatesProofs --------------------------
(***************************************************************************)
(* Theorems about the watch handler and the websocket hub, for any set of  *)
(* browsers, any cap, any queue depth and any number of events: the queue  *)
(* bounds hold and a queue is closed once, frames follow the refreshes     *)
(* they announce, and the hub implements the feed without gaps.            *)
(***************************************************************************)
EXTENDS LiveUpdates, FiniteSetTheorems, SequenceTheorems, TLAPS

-----------------------------------------------------------------------------
(* The inductive invariant *)

EventSteps == {"none", "refresh", "invalidate", "publish", "done", "dropped", "pushed"}
Messages == Events \cup {Pong}

Types ==
  /\ ready \in BOOLEAN /\ stopping \in BOOLEAN
  /\ page \in 0..MaxEvents /\ index \in 0..MaxEvents /\ status \in 0..MaxEvents
  /\ event \in [Events -> EventSteps]
  /\ clients \in SUBSET Clients /\ unclosed \in SUBSET Clients
  /\ send \in [Clients -> Seq(Messages)] /\ closed \in [Clients -> Nat]
  /\ conn \in [Clients -> {"none", "open", "closed"}] /\ peer \in [Clients -> BOOLEAN]
  /\ read \in [Clients -> {"none", "run", "done"}]
  /\ pump \in [Clients -> {"none", "run", "write", "done"}]
  /\ closer \in [Clients -> {"none", "run", "done", "returned"}]
  /\ held \in [Clients -> Messages] /\ cancelled \in [Clients -> BOOLEAN]
  /\ pings \in Nat
  /\ log \in Seq(Events) /\ from \in [Clients -> Nat] /\ got \in [Clients -> Seq(Events)]

\* The registry within its cap, the queues within theirs.
Bounded ==
  /\ IsFiniteSet(clients) /\ Cardinality(clients) <= MaxClients
  /\ \A c \in Clients : Len(send[c]) <= Buffer

\* A client is registered between its upgrade and the return of its request, has nothing
\* before, and leaves the registry when its queue is closed.
Registered ==
  \A c \in Clients :
    /\ conn[c] = "none" => closer[c] = "none"
    /\ c \in clients => closer[c] \in {"run", "done"}
    /\ closer[c] = "none" <=> pump[c] = "none"
    /\ closer[c] = "none" => send[c] = <<>> /\ got[c] = <<>> /\ held[c] = Pong
    /\ closed[c] = IF closer[c] # "none" /\ c \notin clients THEN 1 ELSE 0

\* Events start in their order, and each handler has done what lies behind it.
Refreshed ==
  /\ \A e \in Events : event[e] # "none" => \A q \in 1..(e - 1) : event[q] # "none"
  /\ page > 0 => event[page] # "none"
  /\ index <= page /\ status <= page
  /\ \A e \in Events : event[e] \in {"refresh", "invalidate", "publish", "done"} => e <= page
  /\ \A e \in Events : event[e] \in {"invalidate", "publish", "done"} => e <= index
  /\ \A e \in Events : event[e] \in {"publish", "done"} => e <= status

\* A frame is published once, at the end of its handler or at once.
Distinct(L) == \A i, j \in 1..Len(L) : L[i] = L[j] => i = j

Published == Distinct(log) /\ \A i \in 1..Len(log) : event[log[i]] \in {"done", "pushed"}

\* Nobody has a frame that was not published.
Known == {Pong} \cup {log[j] : j \in 1..Len(log)}

FramesLogged ==
  \A c \in Clients : /\ held[c] \in Known
                     /\ \A i \in 1..Len(send[c]) : send[c][i] \in Known
                     /\ \A i \in 1..Len(got[c]) : got[c][i] \in Known

\* The frames of the log that have left the client's queue.
Taken(c) == from[c] + Len(got[c]) + IF pump[c] = "write" /\ held[c] # Pong THEN 1 ELSE 0

\* A queue q holds, in their order, exactly the frames of the log L after the a-th up to the
\* m-th, pongs aside.
Backlog(q, L, a, m) ==
  /\ \A i \in 1..Len(q) : q[i] # Pong => \E j \in (a + 1)..m : L[j] = q[i]
  /\ \A j \in (a + 1)..m : \E i \in 1..Len(q) : q[i] = L[j]
  /\ \A i, k \in 1..Len(q) : \A j, l \in 1..Len(L) : i < k /\ q[i] = L[j] /\ q[k] = L[l] => j < l

\* A running pump holds the next frame or none; a registered client is owed all of the log.
GaplessAt(c) ==
  pump[c] \in {"run", "write"} =>
    /\ Taken(c) <= Len(log)
    /\ pump[c] = "write" /\ held[c] # Pong => held[c] = log[Taken(c)]
    /\ \E m \in Taken(c)..Len(log) : (c \in clients => m = Len(log)) /\ Backlog(send[c], log, Taken(c), m)

Gapless == \A c \in Clients : GaplessAt(c)

IInv == Types /\ Bounded /\ Registered /\ Refreshed /\ Published /\ FramesLogged /\ Gapless

-----------------------------------------------------------------------------
(* Types *)

\* The cap, the depth of a queue and the bounds are natural numbers.
LEMMA Constants == Buffer \in Nat /\ MaxClients \in Nat /\ MaxEvents \in Nat /\ MaxPings \in Nat
BY HubAssumption DEF HubAssumption

\* Broadcast keeps the hub's types.
LEMMA BroadcastTypes ==
  ASSUME Types, NEW e \in Events, Broadcast(e)
  PROVE  /\ clients' \in SUBSET Clients /\ unclosed' \in SUBSET Clients
         /\ send' \in [Clients -> Seq(Messages)] /\ closed' \in [Clients -> Nat]
<1>1. ASSUME NEW c \in Clients
      PROVE  Append(send[c], e) \in Seq(Messages) /\ send[c] \in Seq(Messages)
  BY AppendProperties DEF Types, Messages
<1> QED
  BY <1>1 DEF Types, Broadcast, Deregister

\* So does Send.
LEMMA SendToTypes ==
  ASSUME Types, NEW c \in Clients, SendTo(c, Pong)
  PROVE  /\ clients' \in SUBSET Clients /\ unclosed' \in SUBSET Clients
         /\ send' \in [Clients -> Seq(Messages)] /\ closed' \in [Clients -> Nat]
<1>1. Append(send[c], Pong) \in Seq(Messages)
  BY AppendProperties DEF Types, Messages
<1>2. CASE c \notin clients
  BY <1>2 DEF Types, SendTo, hubVars
<1>3. CASE c \in clients /\ ~Full(c)
  BY <1>1, <1>3 DEF Types, SendTo
<1>4. CASE c \in clients /\ Full(c)
  <2>1. Deregister({c}) /\ unclosed' = unclosed \cup {c} /\ send' = send
    BY <1>4 DEF SendTo
  <2> QED
    BY <2>1 DEF Types, Deregister
<1> QED
  BY <1>2, <1>3, <1>4

\* Every step keeps the types.
LEMMA TypesStep == Types /\ [Next]_vars => Types'
<1> SUFFICES ASSUME Types, [Next]_vars PROVE Types'
  OBVIOUS
<1> USE Constants
<1>1. ASSUME NEW c \in Clients, Upgrade(c) PROVE Types'
  <2>1. Len(log) \in Nat
    BY LenProperties DEF Types
  <2>2. CASE Admitted
    <3>0. /\ conn' = [conn EXCEPT ![c] = "open"] /\ clients' = clients \cup {c}
          /\ from' = [from EXCEPT ![c] = Len(log)] /\ read' = [read EXCEPT ![c] = "run"]
      BY <1>1, <2>2 DEF Upgrade
    <3>1. conn' \in [Clients -> {"none", "open", "closed"}] /\ clients' \in SUBSET Clients
      BY <3>0 DEF Types
    <3>2. from' \in [Clients -> Nat] /\ read' \in [Clients -> {"none", "run", "done"}]
      BY <2>1, <3>0 DEF Types
    <3>3. /\ pump' \in [Clients -> {"none", "run", "write", "done"}]
          /\ closer' \in [Clients -> {"none", "run", "done", "returned"}]
      BY <1>1, <2>2 DEF Upgrade, Types
    <3> QED
      BY <1>1, <3>1, <3>2, <3>3 DEF Upgrade, Types, pageVars
  <2>3. CASE ~Admitted
    BY <1>1, <2>3 DEF Upgrade, Types, pageVars
  <2> QED
    BY <2>2, <2>3
<1>2. ASSUME NEW c \in Clients, ReadPing(c) PROVE Types'
  BY <1>2, SendToTypes DEF ReadPing, Types, notConn, pageVars, connVars
<1>3. ASSUME NEW c \in Clients, ReadEnds(c) PROVE Types'
  BY <1>3 DEF ReadEnds, Types, notConn, pageVars, hubVars
<1>4. ASSUME NEW c \in Clients, PumpTake(c) PROVE Types'
  <2>1. Head(send[c]) \in Messages /\ Tail(send[c]) \in Seq(Messages)
    BY <1>4, HeadTailProperties DEF PumpTake, Types
  <2> QED
    BY <1>4, <2>1 DEF PumpTake, Types, notConn, pageVars
<1>5. ASSUME NEW c \in Clients, PumpWrite(c) PROVE Types'
  <2>1. held[c] # Pong => Append(got[c], held[c]) \in Seq(Events)
    BY AppendProperties DEF Types, Messages
  <2> QED
    BY <1>5, <2>1 DEF PumpWrite, Types, notConn, pageVars, hubVars, Messages
<1>6. ASSUME NEW c \in Clients, PumpEnd(c) PROVE Types'
  BY <1>6 DEF PumpEnd, Types, notConn, pageVars, hubVars
<1>7. ASSUME NEW c \in Clients, CloseOnCancel(c) PROVE Types'
  BY <1>7 DEF CloseOnCancel, Types, notConn, pageVars, hubVars
<1>8. ASSUME NEW c \in Clients, Return(c) PROVE Types'
  <2>1. <<>> \in Seq(Messages)
    BY EmptySeq
  <2>2. /\ clients' \in SUBSET Clients /\ closed' \in [Clients -> Nat]
        /\ conn' \in [Clients -> {"none", "open", "closed"}]
    <3>1. CASE c \in clients
      <4>1. Deregister({c}) /\ conn' = [conn EXCEPT ![c] = "closed"]
        BY <1>8, <3>1 DEF Return, Disconnect
      <4> QED
        BY <4>1 DEF Types, Deregister
    <3>2. CASE c \notin clients
      BY <1>8, <3>2 DEF Return, Types, Disconnect
    <3> QED
      BY <3>1, <3>2
  <2> QED
    BY <1>8, <2>1, <2>2 DEF Return, Types, pageVars, history
<1>9. ASSUME NEW c \in Clients, CancelRequest(c) PROVE Types'
  BY <1>9 DEF CancelRequest, Types, notConn, pageVars, hubVars
<1>10. ASSUME NEW c \in Clients, CloseDropped(c) PROVE Types'
  BY <1>10 DEF CloseDropped, Types, pageVars, connVars, history
<1>11. ASSUME NEW c \in Clients, PeerLeaves(c) PROVE Types'
  BY <1>11 DEF PeerLeaves, Types, pageVars, hubVars, connVars, history
<1>12. ASSUME NEW e \in Events, Handle(e) PROVE Types'
  <2>1. Append(log, e) \in Seq(Events)
    BY AppendProperties DEF Types
  <2>2. CASE event[e] # "publish"
    BY <1>12, <2>2 DEF Handle, Types, EventSteps, pageVars, hubVars, connVars, notEvent
  <2>3. CASE event[e] = "publish"
    BY <1>12, <2>1, <2>3, BroadcastTypes DEF Handle, Types, EventSteps, pageVars, connVars, notEvent
  <2> QED
    BY <2>2, <2>3
<1>13. ASSUME NEW e \in Events, Change(e) PROVE Types'
  BY <1>13 DEF Change, Types, EventSteps, Events, hubVars, connVars, notEvent
<1>14. ASSUME NEW e \in Events, Publish(e) PROVE Types'
  <2>1. Append(log, e) \in Seq(Events)
    BY AppendProperties DEF Types
  <2> QED
    BY <1>14, <2>1, BroadcastTypes DEF Publish, Types, EventSteps, pageVars, connVars, notEvent
<1>15. CASE MarkReady \/ Shutdown
  BY <1>15 DEF MarkReady, Shutdown, Types, pageVars, hubVars, connVars, history
<1>16. CASE Stopped \/ UNCHANGED vars
  BY <1>16 DEF Stopped, vars, Types, pageVars, hubVars, connVars, history
<1> QED
  BY <1>1, <1>2, <1>3, <1>4, <1>5, <1>6, <1>7, <1>8, <1>9, <1>10, <1>11, <1>12, <1>13, <1>14,
     <1>15, <1>16 DEF Next, Request

-----------------------------------------------------------------------------
(* The steps that the parts have in common *)

\* Every step of the manager other than a broadcast, and what it does to a registered client
\* and its queue: another client's are left alone.
Elsewhere(c) ==
  \A d \in Clients \ {c} : /\ send'[d] = send[d] /\ closed'[d] = closed[d]
                           /\ d \in clients' <=> d \in clients

\* Broadcast, client by client: kept with one frame more, dropped with its queue closed, or
\* not registered and left alone.
LEMMA BroadcastEach ==
  ASSUME Types, NEW e \in Events, Broadcast(e), NEW c \in Clients
  PROVE  \/ c \in clients /\ c \in clients' /\ ~Full(c) /\ send'[c] = Append(send[c], e) /\ closed'[c] = closed[c]
         \/ c \in clients /\ c \notin clients' /\ send'[c] = send[c] /\ closed'[c] = closed[c] + 1
         \/ c \notin clients /\ c \notin clients' /\ send'[c] = send[c] /\ closed'[c] = closed[c]
<1>1. CASE c \in clients /\ ~Full(c)
  BY <1>1 DEF Broadcast, Deregister
<1>2. CASE c \in clients /\ Full(c)
  BY <1>2 DEF Broadcast, Deregister
<1>3. CASE c \notin clients
  BY <1>3 DEF Broadcast, Deregister
<1> QED
  BY <1>1, <1>2, <1>3

\* Send, likewise, for its one client.
LEMMA SendToEach ==
  ASSUME Types, NEW c \in Clients, SendTo(c, Pong)
  PROVE  /\ Elsewhere(c)
         /\ \/ c \in clients /\ c \in clients' /\ ~Full(c) /\ send'[c] = Append(send[c], Pong) /\ closed'[c] = closed[c]
            \/ c \in clients /\ c \notin clients' /\ send'[c] = send[c] /\ closed'[c] = closed[c] + 1
            \/ c \notin clients /\ c \notin clients' /\ send'[c] = send[c] /\ closed'[c] = closed[c]
         /\ clients' \subseteq clients
<1>1. CASE c \notin clients
  BY <1>1 DEF SendTo, hubVars, Elsewhere
<1>2. CASE c \in clients /\ ~Full(c)
  BY <1>2 DEF SendTo, Elsewhere, Types
<1>3. CASE c \in clients /\ Full(c)
  <2>1. Deregister({c}) /\ unclosed' = unclosed \cup {c} /\ send' = send
    BY <1>3 DEF SendTo
  <2> QED
    BY <1>3, <2>1 DEF Deregister, Elsewhere
<1> QED
  BY <1>1, <1>2, <1>3

\* The return of a request takes its client out of the registry and its queue away.
LEMMA ReturnEach ==
  ASSUME Types, NEW c \in Clients, Return(c)
  PROVE  /\ Elsewhere(c) /\ c \notin clients' /\ clients' \subseteq clients
         /\ send'[c] = <<>> /\ closed'[c] = IF c \in clients THEN closed[c] + 1 ELSE closed[c]
         /\ \A d \in Clients : conn'[d] = "none" => conn[d] = "none"
<1>1. CASE c \in clients
  <2>1. Deregister({c}) /\ conn' = [conn EXCEPT ![c] = "closed"] /\ send' = [send EXCEPT ![c] = <<>>]
    BY <1>1 DEF Return, Disconnect
  <2> QED
    BY <1>1, <2>1 DEF Deregister, Elsewhere, Types
<1>2. CASE c \notin clients
  BY <1>2 DEF Return, Disconnect, Elsewhere, Types
<1> QED
  BY <1>1, <1>2

-----------------------------------------------------------------------------
(* Bounds *)

\* A registry that only shrinks and queues that a step has kept short stay within bounds.
LEMMA BoundedShrink ==
  ASSUME Bounded, clients' \subseteq clients, \A c \in Clients : Len(send'[c]) <= Buffer
  PROVE  Bounded'
<1>1. IsFiniteSet(clients') /\ Cardinality(clients') <= Cardinality(clients)
  BY FS_Subset DEF Bounded
<1>2. Cardinality(clients') \in Nat /\ Cardinality(clients) \in Nat
  BY <1>1, FS_CardinalityType DEF Bounded
<1> QED
  BY <1>1, <1>2, Constants DEF Bounded

\* A broadcast respects the depth of the queues: it looks at the length before it appends.
LEMMA BroadcastBounded ==
  ASSUME Types, Bounded, NEW e \in Events, Broadcast(e)
  PROVE  Bounded'
<1>1. clients' \subseteq clients
  BY DEF Broadcast, Deregister
<1>2. ASSUME NEW c \in Clients PROVE Len(send'[c]) <= Buffer
  <2>1. Len(send[c]) \in Nat /\ Len(Append(send[c], e)) = Len(send[c]) + 1
    BY LenProperties, AppendProperties DEF Types, Messages
  <2>2. Len(send[c]) <= Buffer /\ Buffer \in Nat
    BY Constants DEF Bounded
  <2> QED
    BY <2>1, <2>2, BroadcastEach DEF Full
<1> QED
  BY <1>1, <1>2, BoundedShrink

\* Every step keeps the bounds.
LEMMA BoundedStep == Types /\ Bounded /\ [Next]_vars => Bounded'
<1> SUFFICES ASSUME Types, Bounded, [Next]_vars PROVE Bounded'
  OBVIOUS
<1> DEFINE Same == clients' = clients /\ send' = send
<1>a. ASSUME Same PROVE Bounded'
  BY <1>a DEF Bounded
<1>b. ASSUME NEW c \in Clients
      PROVE  Len(send[c]) \in Nat /\ Len(send[c]) <= Buffer /\ Buffer \in Nat
  BY LenProperties, Constants DEF Types, Bounded
<1>1. ASSUME NEW c \in Clients, Upgrade(c) PROVE Bounded'
  <2>1. CASE Admitted
    <3>1. clients' = clients \cup {c} /\ send' = send /\ Cardinality(clients) < MaxClients
      BY <1>1, <2>1 DEF Upgrade, Admitted
    <3>2. /\ IsFiniteSet(clients')
          /\ Cardinality(clients') = Cardinality(clients) \/ Cardinality(clients') = Cardinality(clients) + 1
      BY <3>1, FS_AddElement DEF Bounded
    <3>3. Cardinality(clients) \in Nat
      BY FS_CardinalityType DEF Bounded
    <3> QED
      BY <3>1, <3>2, <3>3, Constants DEF Bounded
  <2>2. CASE ~Admitted
    BY <1>1, <1>a, <2>2 DEF Upgrade
  <2> QED
    BY <2>1, <2>2
<1>2. ASSUME NEW c \in Clients, ReadPing(c) PROVE Bounded'
  <2>1. SendTo(c, Pong)
    BY <1>2 DEF ReadPing
  <2>2. ASSUME NEW d \in Clients PROVE Len(send'[d]) <= Buffer
    <3>1. CASE d = c
      <4>1. Len(Append(send[c], Pong)) = Len(send[c]) + 1
        BY AppendProperties DEF Types, Messages
      <4> QED
        BY <1>b, <2>1, <3>1, <4>1, SendToEach DEF Full
    <3>2. CASE d # c
      BY <1>b, <2>1, <3>2, SendToEach DEF Elsewhere
    <3> QED
      BY <3>1, <3>2
  <2> QED
    BY <2>1, <2>2, SendToEach, BoundedShrink
<1>3. ASSUME NEW c \in Clients, PumpTake(c) PROVE Bounded'
  <2>1. Len(Tail(send[c])) = Len(send[c]) - 1
    BY <1>3, HeadTailProperties DEF PumpTake, Types
  <2>2. clients' = clients /\ send' = [send EXCEPT ![c] = Tail(send[c])]
    BY <1>3 DEF PumpTake
  <2>3. ASSUME NEW d \in Clients PROVE Len(send'[d]) <= Buffer
    BY <1>b, <2>1, <2>2 DEF Types
  <2> QED
    BY <2>2, <2>3, BoundedShrink
<1>4. ASSUME NEW c \in Clients, Return(c) PROVE Bounded'
  <2>1. Len(<<>>) = 0
    BY EmptySeq
  <2>2. ASSUME NEW d \in Clients PROVE Len(send'[d]) <= Buffer
    BY <1>4, <1>b, <2>1, ReturnEach DEF Elsewhere
  <2> QED
    BY <1>4, <2>2, ReturnEach, BoundedShrink
<1>5. ASSUME NEW e \in Events, Handle(e) PROVE Bounded'
  <2>1. Broadcast(e) \/ Same
    BY <1>5 DEF Handle, hubVars
  <2> QED
    BY <2>1, <1>a, BroadcastBounded
<1>6. ASSUME NEW e \in Events, Publish(e) PROVE Bounded'
  BY <1>6, BroadcastBounded DEF Publish
<1>7. ASSUME NEW c \in Clients,
             ReadEnds(c) \/ PumpWrite(c) \/ PumpEnd(c) \/ CloseOnCancel(c) \/ CancelRequest(c)
               \/ CloseDropped(c) \/ PeerLeaves(c)
      PROVE  Bounded'
  <2>1. Same
    BY <1>7 DEF ReadEnds, PumpWrite, PumpEnd, CloseOnCancel, CancelRequest, CloseDropped, PeerLeaves, hubVars
  <2> QED
    BY <2>1, <1>a
<1>8. ASSUME NEW e \in Events, Change(e) PROVE Bounded'
  BY <1>8, <1>a DEF Change, hubVars
<1>9. CASE MarkReady \/ Shutdown \/ Stopped \/ UNCHANGED vars
  BY <1>9, <1>a DEF MarkReady, Shutdown, Stopped, vars, hubVars
<1> QED
  BY <1>1, <1>2, <1>3, <1>4, <1>5, <1>6, <1>7, <1>8, <1>9 DEF Next, Request

-----------------------------------------------------------------------------
(* The registry and the queues *)

RegisteredAt(c) ==
  /\ conn[c] = "none" => closer[c] = "none"
  /\ c \in clients => closer[c] \in {"run", "done"}
  /\ closer[c] = "none" <=> pump[c] = "none"
  /\ closer[c] = "none" => send[c] = <<>> /\ got[c] = <<>> /\ held[c] = Pong
  /\ closed[c] = IF closer[c] # "none" /\ c \notin clients THEN 1 ELSE 0

\* A client that a step leaves as it was.
LEMMA RegisteredFrame ==
  ASSUME NEW c, RegisteredAt(c), conn'[c] = "none" => conn[c] = "none", closer'[c] = closer[c],
         c \in clients' <=> c \in clients, pump'[c] = pump[c], send'[c] = send[c], got'[c] = got[c],
         held'[c] = held[c], closed'[c] = closed[c]
  PROVE  RegisteredAt(c)'
BY DEF RegisteredAt

\* A broadcast closes the queue of each client it drops, and of no other.
LEMMA BroadcastRegistered ==
  ASSUME Types, Registered, NEW e \in Events, Broadcast(e), UNCHANGED <<conn, closer, pump, got, held>>
  PROVE  Registered'
<1> SUFFICES ASSUME NEW c \in Clients PROVE RegisteredAt(c)'
  BY DEF Registered, RegisteredAt
<1>1. RegisteredAt(c) /\ closed[c] \in Nat
  BY DEF Registered, RegisteredAt, Types
<1>2. CASE c \in clients
  BY <1>1, <1>2, BroadcastEach DEF RegisteredAt
<1>3. CASE c \notin clients
  BY <1>1, <1>3, BroadcastEach, RegisteredFrame
<1> QED
  BY <1>2, <1>3

\* Every step keeps the registry in step with the requests: whoever removes a client closes
\* its queue, and who finds it removed does not.
LEMMA RegisteredStep == Types /\ Registered /\ [Next]_vars => Registered'
<1> SUFFICES ASSUME Types, Registered, [Next]_vars PROVE Registered'
  OBVIOUS
<1>a. ASSUME NEW c \in Clients PROVE RegisteredAt(c) /\ closed[c] \in Nat
  BY DEF Registered, RegisteredAt, Types
<1>b. ASSUME \A c \in Clients : RegisteredAt(c)' PROVE Registered'
  BY <1>b DEF Registered, RegisteredAt
<1>c. ASSUME NEW c \in Clients, RegisteredAt(c)', Elsewhere(c),
             \A d \in Clients \ {c} :
                /\ conn'[d] = "none" => conn[d] = "none"
                /\ closer'[d] = closer[d] /\ pump'[d] = pump[d] /\ got'[d] = got[d] /\ held'[d] = held[d]
      PROVE  Registered'
  <2>1. ASSUME NEW d \in Clients PROVE RegisteredAt(d)'
    <3>1. CASE d = c
      BY <1>c, <3>1
    <3>2. CASE d # c
      BY <1>a, <1>c, <3>2, RegisteredFrame DEF Elsewhere
    <3> QED
      BY <3>1, <3>2
  <2> QED
    BY <1>b, <2>1
<1>1. ASSUME NEW c \in Clients, Upgrade(c) PROVE Registered'
  <2>1. CASE Admitted
    <3>1. /\ conn[c] = "none" /\ conn' = [conn EXCEPT ![c] = "open"] /\ clients' = clients \cup {c}
          /\ pump' = [pump EXCEPT ![c] = "run"] /\ closer' = [closer EXCEPT ![c] = "run"]
          /\ UNCHANGED <<send, closed, got, held>>
      BY <1>1, <2>1 DEF Upgrade
    <3>2. RegisteredAt(c)'
      BY <1>a, <3>1 DEF RegisteredAt, Types
    <3> QED
      BY <1>c, <3>1, <3>2 DEF Elsewhere, Types
  <2>2. CASE ~Admitted
    <3>1. conn' = [conn EXCEPT ![c] = "closed"] /\ UNCHANGED <<clients, pump, closer, send, closed, got, held>>
      BY <1>1, <2>2 DEF Upgrade
    <3>2. RegisteredAt(c)'
      BY <1>a, <3>1 DEF RegisteredAt, Types
    <3> QED
      BY <1>c, <3>1, <3>2 DEF Elsewhere, Types
  <2> QED
    BY <2>1, <2>2
<1>2. ASSUME NEW c \in Clients, ReadPing(c) PROVE Registered'
  <2>1. SendTo(c, Pong) /\ UNCHANGED <<conn, closer, pump, got, held>>
    BY <1>2 DEF ReadPing, connVars
  <2>2. RegisteredAt(c)'
    BY <1>a, <2>1, SendToEach DEF RegisteredAt
  <2> QED
    BY <1>c, <2>1, <2>2, SendToEach
<1>3. ASSUME NEW c \in Clients, PumpTake(c) PROVE Registered'
  <2>1. /\ pump[c] = "run" /\ pump' = [pump EXCEPT ![c] = "write"] /\ held' = [held EXCEPT ![c] = Head(send[c])]
        /\ send' = [send EXCEPT ![c] = Tail(send[c])] /\ UNCHANGED <<clients, closed, conn, closer, got>>
    BY <1>3 DEF PumpTake
  <2>2. RegisteredAt(c)'
    BY <1>a, <2>1 DEF RegisteredAt, Types
  <2> QED
    BY <1>c, <2>1, <2>2 DEF Elsewhere, Types
<1>4. ASSUME NEW c \in Clients, PumpWrite(c) PROVE Registered'
  <2>1. /\ pump[c] = "write" /\ UNCHANGED <<clients, send, closed, conn, closer>>
        /\ held' = [held EXCEPT ![c] = Pong]
        /\ pump' = [pump EXCEPT ![c] = "run"] \/ pump' = [pump EXCEPT ![c] = "done"]
        /\ \A d \in Clients \ {c} : got'[d] = got[d]
    BY <1>4 DEF PumpWrite, hubVars, Types
  <2>2. RegisteredAt(c)'
    BY <1>a, <2>1 DEF RegisteredAt, Types
  <2> QED
    BY <1>c, <2>1, <2>2 DEF Elsewhere, Types
<1>5. ASSUME NEW c \in Clients, PumpEnd(c) PROVE Registered'
  <2>1. /\ pump[c] = "run" /\ pump' = [pump EXCEPT ![c] = "done"]
        /\ UNCHANGED <<clients, send, closed, conn, closer, got, held>>
    BY <1>5 DEF PumpEnd, hubVars
  <2>2. RegisteredAt(c)'
    BY <1>a, <2>1 DEF RegisteredAt, Types
  <2> QED
    BY <1>c, <2>1, <2>2 DEF Elsewhere, Types
<1>6. ASSUME NEW c \in Clients, CloseOnCancel(c) PROVE Registered'
  <2>1. /\ closer[c] = "run" /\ closer' = [closer EXCEPT ![c] = "done"] /\ conn' = [conn EXCEPT ![c] = "closed"]
        /\ UNCHANGED <<clients, send, closed, pump, got, held>>
    BY <1>6 DEF CloseOnCancel, hubVars
  <2>2. RegisteredAt(c)'
    BY <1>a, <2>1 DEF RegisteredAt, Types
  <2> QED
    BY <1>c, <2>1, <2>2 DEF Elsewhere, Types
<1>7. ASSUME NEW c \in Clients, Return(c) PROVE Registered'
  <2>1. /\ pump[c] = "done" /\ closer[c] = "done" /\ closer' = [closer EXCEPT ![c] = "returned"]
        /\ UNCHANGED <<pump, got, held>>
    BY <1>7 DEF Return, history
  <2>2. RegisteredAt(c)'
    <3>1. /\ c \notin clients' /\ (conn'[c] = "none" => conn[c] = "none")
          /\ closed'[c] = IF c \in clients THEN closed[c] + 1 ELSE closed[c]
      BY <1>7, ReturnEach
    <3>2. closer'[c] = "returned" /\ pump'[c] = "done"
      BY <2>1 DEF Types
    <3>3. conn[c] # "none" /\ closed[c] = IF c \notin clients THEN 1 ELSE 0
      BY <1>a, <2>1 DEF RegisteredAt
    <3> QED
      BY <3>1, <3>2, <3>3 DEF RegisteredAt
  <2> QED
    BY <1>7, <1>c, <2>1, <2>2, ReturnEach DEF Types
<1>8. ASSUME NEW e \in Events, Handle(e) \/ Publish(e) PROVE Registered'
  <2>1. UNCHANGED <<conn, closer, pump, got, held>>
    BY <1>8 DEF Handle, Publish, notEvent, connVars
  <2>2. CASE Broadcast(e)
    BY <2>1, <2>2, BroadcastRegistered
  <2>3. CASE UNCHANGED hubVars
    BY <2>1, <2>3, <1>a, <1>b, RegisteredFrame DEF hubVars
  <2> QED
    BY <1>8, <2>2, <2>3 DEF Handle, Publish
<1>9. ASSUME NEW c \in Clients, ReadEnds(c) \/ CancelRequest(c) \/ PeerLeaves(c) \/ CloseDropped(c)
      PROVE  Registered'
  <2>1. /\ UNCHANGED <<clients, send, closed, closer, pump, got, held>>
        /\ conn' = conn \/ conn' = [conn EXCEPT ![c] = "closed"]
    BY <1>9 DEF ReadEnds, CancelRequest, PeerLeaves, CloseDropped, hubVars, connVars, history
  <2> QED
    BY <1>a, <1>b, <2>1, RegisteredFrame DEF Types
<1>10. ASSUME NEW e \in Events, Change(e) PROVE Registered'
  <2>1. UNCHANGED <<clients, send, closed, conn, closer, pump, got, held>>
    BY <1>10 DEF Change, notEvent, hubVars, connVars
  <2> QED
    BY <1>a, <1>b, <2>1, RegisteredFrame
<1>11. CASE MarkReady \/ Shutdown \/ Stopped \/ UNCHANGED vars
  <2>1. UNCHANGED <<clients, send, closed, conn, closer, pump, got, held>>
    BY <1>11 DEF MarkReady, Shutdown, Stopped, vars, hubVars, connVars, history
  <2> QED
    BY <1>a, <1>b, <2>1, RegisteredFrame
<1> QED
  BY <1>1, <1>2, <1>3, <1>4, <1>5, <1>6, <1>7, <1>8, <1>9, <1>10, <1>11 DEF Next, Request

-----------------------------------------------------------------------------
(* The handlers *)

\* A change is newer than the page and both caches: everything before it has arrived.
LEMMA NextIsNew ==
  ASSUME Types, Refreshed, NEW e \in Events, NextEvent(e)
  PROVE  page < e /\ page \in Nat /\ e \in Nat /\ \A q \in Events : event[q] # "none" => q < e
<1>1. e \in Nat /\ page \in Nat /\ page <= MaxEvents
  BY Constants DEF Types, Events
<1>2. ASSUME NEW q \in Events, event[q] # "none" PROVE q < e
  <2>1. SUFFICES ASSUME e < q PROVE FALSE
    BY <1>1, <1>2, <2>1, Constants DEF Events, NextEvent
  <2>2. e \in 1..(q - 1)
    BY <1>1, <2>1, Constants DEF Events
  <2> QED
    BY <1>2, <2>2 DEF Refreshed, NextEvent
<1>3. page < e
  <2>1. CASE page = 0
    BY <2>1, Constants DEF Events
  <2>2. CASE page # 0
    BY <1>1, <1>2, <2>2 DEF Refreshed, Events
  <2> QED
    BY <2>1, <2>2
<1> QED
  BY <1>1, <1>2, <1>3

\* Every step keeps the caches at least as new as what the handlers behind them have seen.
LEMMA RefreshedStep == Types /\ Refreshed /\ [Next]_vars => Refreshed'
<1> SUFFICES ASSUME Types, Refreshed, [Next]_vars PROVE Refreshed'
  OBVIOUS
<1>a. ASSUME UNCHANGED <<page, index, status, event>> PROVE Refreshed'
  BY <1>a DEF Refreshed
<1>b. page \in Nat /\ index \in Nat /\ status \in Nat /\ \A e \in Events : e \in Nat
  BY Constants DEF Types, Events
<1>1. ASSUME NEW e \in Events, Change(e) PROVE Refreshed'
  <2>1. page' = e /\ event' = [event EXCEPT ![e] = "refresh"] /\ UNCHANGED <<index, status>> /\ NextEvent(e)
    BY <1>1 DEF Change
  <2>2. page < e /\ \A q \in Events : event[q] # "none" => q < e
    BY <2>1, NextIsNew
  <2>3. \A q \in Events : event'[q] # "none" => \A p \in 1..(q - 1) : event'[p] # "none"
    <3> SUFFICES ASSUME NEW q \in Events, event'[q] # "none", NEW p \in 1..(q - 1) PROVE event'[p] # "none"
      OBVIOUS
    <3>1. p \in Events
      BY Constants DEF Events
    <3> QED
      BY <2>1, <3>1 DEF Refreshed, NextEvent, Types
  <2>4. index' <= page' /\ status' <= page' /\ event'[page'] # "none"
    BY <1>b, <2>1, <2>2 DEF Refreshed, Types
  <2>5. ASSUME NEW q \in Events
        PROVE  /\ event'[q] \in {"refresh", "invalidate", "publish", "done"} => q <= page'
               /\ event'[q] \in {"invalidate", "publish", "done"} => q <= index'
               /\ event'[q] \in {"publish", "done"} => q <= status'
    <3>1. CASE q = e
      BY <1>b, <2>1, <3>1 DEF Types
    <3>2. CASE q # e
      BY <1>b, <2>1, <2>2, <3>2 DEF Refreshed, Types
    <3> QED
      BY <3>1, <3>2
  <2> QED
    BY <2>3, <2>4, <2>5 DEF Refreshed
<1>2. ASSUME NEW e \in Events, Publish(e) PROVE Refreshed'
  <2>1. event' = [event EXCEPT ![e] = "pushed"] /\ UNCHANGED <<page, index, status>> /\ NextEvent(e)
    BY <1>2 DEF Publish, pageVars
  <2>2. \A q \in Events : event'[q] # "none" => \A p \in 1..(q - 1) : event'[p] # "none"
    <3> SUFFICES ASSUME NEW q \in Events, event'[q] # "none", NEW p \in 1..(q - 1) PROVE event'[p] # "none"
      OBVIOUS
    <3>1. p \in Events
      BY Constants DEF Events
    <3> QED
      BY <2>1, <3>1 DEF Refreshed, NextEvent, Types
  <2>3. page' > 0 => event'[page'] # "none"
    BY <2>1 DEF Refreshed, Types
  <2> QED
    BY <2>1, <2>2, <2>3 DEF Refreshed, Types
<1>3. ASSUME NEW e \in Events, Handle(e) PROVE Refreshed'
  <2>1. PICK s \in {"invalidate", "dropped", "publish", "done"} : event' = [event EXCEPT ![e] = s]
    BY <1>3 DEF Handle
  <2>2. \A q \in Events : event'[q] # "none" <=> event[q] # "none"
    BY <1>3, <2>1 DEF Handle, Types
  <2>3. \A q \in Events : event'[q] # "none" => \A p \in 1..(q - 1) : event'[p] # "none"
    <3> SUFFICES ASSUME NEW q \in Events, event'[q] # "none", NEW p \in 1..(q - 1) PROVE event'[p] # "none"
      OBVIOUS
    <3>1. p \in Events
      BY Constants DEF Events
    <3> QED
      BY <2>2, <3>1 DEF Refreshed
  <2>4. page' = page /\ (page' > 0 => event'[page'] # "none")
    <3>1. page' = page
      BY <1>3 DEF Handle, pageVars
    <3>2. page > 0 => page \in Events
      BY <1>b, Constants DEF Types, Events
    <3> QED
      BY <2>2, <3>1, <3>2 DEF Refreshed
  <2>5. index' <= page' /\ status' <= page' /\ index <= index' /\ status <= status'
    BY <1>3, <1>b DEF Handle, Refreshed, pageVars
  <2>6. ASSUME NEW q \in Events
        PROVE  /\ event'[q] \in {"refresh", "invalidate", "publish", "done"} => q <= page'
               /\ event'[q] \in {"invalidate", "publish", "done"} => q <= index'
               /\ event'[q] \in {"publish", "done"} => q <= status'
    <3>1. CASE q = e
      BY <1>3, <1>b, <2>4, <2>5, <3>1 DEF Handle, Refreshed, Types, pageVars
    <3>2. CASE q # e
      <4>1. event'[q] = event[q] /\ index' \in Nat /\ status' \in Nat
        BY <1>3, <1>b, <2>1, <3>2 DEF Handle, pageVars, Types
      <4> QED
        BY <1>b, <2>4, <2>5, <4>1 DEF Refreshed
    <3> QED
      BY <3>1, <3>2
  <2> QED
    BY <2>3, <2>4, <2>5, <2>6 DEF Refreshed
<1>4. ASSUME NEW c \in Clients, Upgrade(c) \/ ReadPing(c) \/ Request(c) \/ PeerLeaves(c) PROVE Refreshed'
  <2>1. UNCHANGED <<page, index, status, event>>
    BY <1>4 DEF Upgrade, ReadPing, Request, PeerLeaves, ReadEnds, PumpTake, PumpWrite, PumpEnd, CloseOnCancel,
                Return, CancelRequest, CloseDropped, notConn, pageVars
  <2> QED
    BY <1>a, <2>1
<1>5. CASE MarkReady \/ Shutdown \/ Stopped \/ UNCHANGED vars
  BY <1>5, <1>a DEF MarkReady, Shutdown, Stopped, vars, pageVars
<1> QED
  BY <1>1, <1>2, <1>3, <1>4, <1>5 DEF Next

-----------------------------------------------------------------------------
(* The log and a queue *)

\* What a log with one frame more holds.
LEMMA LogAppend ==
  ASSUME NEW L \in Seq(Events), NEW e \in Events
  PROVE  /\ Len(L) \in Nat /\ Len(Append(L, e)) = Len(L) + 1
         /\ \A j \in 1..Len(L) : Append(L, e)[j] = L[j]
         /\ Append(L, e)[Len(L) + 1] = e
BY LenProperties, AppendProperties

\* Likewise for a queue.
LEMMA QueueAppend ==
  ASSUME NEW q \in Seq(Messages), NEW f \in Messages
  PROVE  /\ Len(q) \in Nat /\ Len(Append(q, f)) = Len(q) + 1
         /\ \A j \in 1..Len(q) : Append(q, f)[j] = q[j]
         /\ Append(q, f)[Len(q) + 1] = f
BY LenProperties, AppendProperties

\* A pong is no frame.
LEMMA PongIsNoFrame ==
  /\ Pong \notin Events
  /\ \A L \in Seq(Events) : \A j \in 1..Len(L) : L[j] \in Events /\ L[j] # Pong
<1>1. Pong \notin Events
  BY Constants DEF Pong, Events
<1>2. ASSUME NEW L \in Seq(Events), NEW j \in 1..Len(L) PROVE L[j] \in Events
  BY ElementOfSeq
<1> QED
  BY <1>1, <1>2

\* An empty queue owes nothing.
LEMMA BacklogEmpty ==
  ASSUME NEW L, NEW n \in Nat
  PROVE  Backlog(<<>>, L, n, n)
<1>1. Len(<<>>) = 0
  BY EmptySeq
<1> QED
  BY <1>1 DEF Backlog

\* A pong changes nothing of what is owed.
LEMMA BacklogPong ==
  ASSUME NEW q \in Seq(Messages), NEW L \in Seq(Events), NEW a \in Nat, NEW m \in Nat, Backlog(q, L, a, m)
  PROVE  Backlog(Append(q, Pong), L, a, m)
<1> DEFINE p == Append(q, Pong)
<1>1. /\ Len(q) \in Nat /\ Len(p) = Len(q) + 1
      /\ \A j \in 1..Len(q) : p[j] = q[j]
      /\ p[Len(q) + 1] = Pong
  BY QueueAppend DEF Messages
<1> HIDE DEF p
<1>2. \A i \in 1..Len(p) : p[i] # Pong => \E j \in (a + 1)..m : L[j] = p[i]
  BY <1>1 DEF Backlog
<1>3. \A j \in (a + 1)..m : \E i \in 1..Len(p) : p[i] = L[j]
  <2> SUFFICES ASSUME NEW j \in (a + 1)..m PROVE \E i \in 1..Len(p) : p[i] = L[j]
    OBVIOUS
  <2>1. PICK i \in 1..Len(q) : q[i] = L[j]
    BY DEF Backlog
  <2> QED
    BY <1>1, <2>1
<1>4. ASSUME NEW i \in 1..Len(p), NEW k \in 1..Len(p), NEW j \in 1..Len(L), NEW l \in 1..Len(L),
             i < k, p[i] = L[j], p[k] = L[l]
      PROVE  j < l
  <2>1. i # Len(q) + 1 /\ k # Len(q) + 1
    BY <1>1, <1>4, PongIsNoFrame
  <2> QED
    BY <1>1, <1>4, <2>1 DEF Backlog
<1> QED
  BY <1>2, <1>3, <1>4 DEF Backlog, p

\* Frames that are published later, and not to this client, do not change what it is owed.
LEMMA BacklogLater ==
  ASSUME NEW q \in Seq(Messages), NEW L \in Seq(Events), NEW e \in Events, NEW a \in Nat, NEW m \in Nat,
         m <= Len(L), Backlog(q, L, a, m), Distinct(Append(L, e))
  PROVE  /\ Backlog(q, Append(L, e), a, m)
         /\ \A i \in 1..Len(q) : \A j \in 1..(Len(L) + 1) : Append(L, e)[j] = q[i] => j <= m /\ L[j] = q[i]
<1> DEFINE M == Append(L, e)
<1>1. /\ Len(L) \in Nat /\ Len(M) = Len(L) + 1
      /\ \A j \in 1..Len(L) : M[j] = L[j]
  BY LogAppend
<1>2. M \in Seq(Events) /\ Distinct(M)
  BY AppendProperties
<1> HIDE DEF M
<1>3. ASSUME NEW i \in 1..Len(q), NEW j \in 1..Len(M), M[j] = q[i]
      PROVE  j <= m /\ L[j] = q[i]
  <2>1. q[i] # Pong
    BY <1>2, <1>3, PongIsNoFrame
  <2>2. PICK j0 \in (a + 1)..m : L[j0] = q[i]
    BY <2>1 DEF Backlog
  <2>3. j0 \in 1..Len(L) /\ j0 \in 1..Len(M)
    BY <1>1, <2>2
  <2>4. j = j0
    BY <1>1, <1>2, <1>3, <2>2, <2>3 DEF Distinct
  <2> QED
    BY <2>2, <2>4
<1>4. \A i \in 1..Len(q) : q[i] # Pong => \E j \in (a + 1)..m : M[j] = q[i]
  <2> SUFFICES ASSUME NEW i \in 1..Len(q), q[i] # Pong PROVE \E j \in (a + 1)..m : M[j] = q[i]
    OBVIOUS
  <2>1. PICK j \in (a + 1)..m : L[j] = q[i]
    BY DEF Backlog
  <2> QED
    BY <1>1, <2>1
<1>5. \A j \in (a + 1)..m : \E i \in 1..Len(q) : q[i] = M[j]
  <2> SUFFICES ASSUME NEW j \in (a + 1)..m PROVE \E i \in 1..Len(q) : q[i] = M[j]
    OBVIOUS
  <2>1. PICK i \in 1..Len(q) : q[i] = L[j]
    BY DEF Backlog
  <2> QED
    BY <1>1, <2>1
<1>6. ASSUME NEW i \in 1..Len(q), NEW k \in 1..Len(q), NEW j \in 1..Len(M), NEW l \in 1..Len(M),
             i < k, q[i] = M[j], q[k] = M[l]
      PROVE  j < l
  BY <1>1, <1>3, <1>6 DEF Backlog
<1>7. Backlog(q, M, a, m)
  BY <1>4, <1>5, <1>6 DEF Backlog
<1> QED
  BY <1>1, <1>3, <1>7 DEF M

\* A frame that is published to a client that is owed all of the log is owed after the others.
LEMMA BacklogFrame ==
  ASSUME NEW q \in Seq(Messages), NEW L \in Seq(Events), NEW e \in Events, NEW a \in Nat,
         a <= Len(L), Backlog(q, L, a, Len(L)), Distinct(Append(L, e))
  PROVE  Backlog(Append(q, e), Append(L, e), a, Len(L) + 1)
<1> DEFINE M == Append(L, e)
           p == Append(q, e)
           n == Len(L)
<1>1. /\ n \in Nat /\ Len(M) = n + 1 /\ M[n + 1] = e
      /\ \A j \in 1..n : M[j] = L[j]
  BY LogAppend
<1>2. /\ Len(q) \in Nat /\ Len(p) = Len(q) + 1 /\ p[Len(q) + 1] = e
      /\ \A j \in 1..Len(q) : p[j] = q[j]
  BY QueueAppend DEF Messages
<1>3. /\ Backlog(q, M, a, n) /\ Distinct(M)
      /\ \A i \in 1..Len(q) : \A j \in 1..(n + 1) : M[j] = q[i] => j <= n
  BY <1>1, BacklogLater
<1> HIDE DEF M, p, n
<1>4. \A i \in 1..Len(p) : p[i] # Pong => \E j \in (a + 1)..(n + 1) : M[j] = p[i]
  <2> SUFFICES ASSUME NEW i \in 1..Len(p), p[i] # Pong PROVE \E j \in (a + 1)..(n + 1) : M[j] = p[i]
    OBVIOUS
  <2>1. CASE i = Len(q) + 1
    BY <1>1, <1>2, <2>1 DEF n
  <2>2. CASE i # Len(q) + 1
    <3>1. i \in 1..Len(q) /\ q[i] # Pong
      BY <1>2, <2>2
    <3>2. PICK j \in (a + 1)..n : M[j] = q[i]
      BY <1>3, <3>1 DEF Backlog
    <3> QED
      BY <1>1, <1>2, <3>1, <3>2
  <2> QED
    BY <2>1, <2>2
<1>5. \A j \in (a + 1)..(n + 1) : \E i \in 1..Len(p) : p[i] = M[j]
  <2> SUFFICES ASSUME NEW j \in (a + 1)..(n + 1) PROVE \E i \in 1..Len(p) : p[i] = M[j]
    OBVIOUS
  <2>1. CASE j = n + 1
    BY <1>1, <1>2, <2>1
  <2>2. CASE j # n + 1
    <3>1. PICK i \in 1..Len(q) : q[i] = M[j]
      BY <1>1, <1>3, <2>2 DEF Backlog
    <3> QED
      BY <1>2, <3>1
  <2> QED
    BY <2>1, <2>2
<1>6. ASSUME NEW i \in 1..Len(p), NEW k \in 1..Len(p), NEW j \in 1..Len(M), NEW l \in 1..Len(M),
             i < k, p[i] = M[j], p[k] = M[l]
      PROVE  j < l
  <2>1. i \in 1..Len(q) /\ q[i] = M[j] /\ j <= n
    BY <1>1, <1>2, <1>3, <1>6
  <2>2. CASE k = Len(q) + 1
    <3>1. l = n + 1
      BY <1>1, <1>2, <1>3, <1>6, <2>2 DEF Distinct
    <3> QED
      BY <1>1, <2>1, <3>1
  <2>3. CASE k # Len(q) + 1
    <3>1. k \in 1..Len(q) /\ q[k] = M[l]
      BY <1>2, <1>6, <2>3
    <3> QED
      BY <1>3, <1>6, <2>1, <3>1 DEF Backlog
  <2> QED
    BY <2>2, <2>3
<1> QED
  BY <1>4, <1>5, <1>6 DEF Backlog, M, p, n

\* What the tail of a queue holds.
LEMMA QueueTail ==
  ASSUME NEW q \in Seq(Messages), q # <<>>
  PROVE  /\ Tail(q) \in Seq(Messages) /\ Len(q) \in Nat /\ Len(q) > 0
         /\ Len(Tail(q)) = Len(q) - 1 /\ Head(q) = q[1]
         /\ \A i \in 1..Len(Tail(q)) : Tail(q)[i] = q[i + 1]
<1>1. Len(q) \in Nat \ {0}
  BY EmptySeq
<1>2. Head(q) = q[1]
  OBVIOUS
<1> QED
  BY <1>1, <1>2, HeadTailProperties

\* A pump that takes a pong leaves what is owed.
LEMMA BacklogTakePong ==
  ASSUME NEW q \in Seq(Messages), NEW L \in Seq(Events), NEW a \in Nat, NEW m \in Nat, m <= Len(L),
         q # <<>>, Head(q) = Pong, Backlog(q, L, a, m)
  PROVE  Backlog(Tail(q), L, a, m)
<1> DEFINE t == Tail(q)
<1>1. /\ Len(q) \in Nat /\ Len(q) > 0 /\ Len(t) = Len(q) - 1 /\ q[1] = Pong
      /\ \A i \in 1..Len(t) : t[i] = q[i + 1]
  BY QueueTail
<1>2. Len(L) \in Nat
  BY LenProperties
<1> HIDE DEF t
<1>3. ASSUME NEW i \in 1..Len(t), t[i] # Pong PROVE \E j \in (a + 1)..m : L[j] = t[i]
  <2>1. i + 1 \in 1..Len(q) /\ q[i + 1] # Pong
    BY <1>1, <1>3
  <2> QED
    BY <1>1, <2>1 DEF Backlog
<1>4. ASSUME NEW j \in (a + 1)..m PROVE \E i \in 1..Len(t) : t[i] = L[j]
  <2>1. PICK i \in 1..Len(q) : q[i] = L[j]
    BY DEF Backlog
  <2>2. i # 1
    BY <1>1, <1>2, <2>1, PongIsNoFrame
  <2>3. i - 1 \in 1..Len(t) /\ t[i - 1] = q[i]
    BY <1>1, <2>2
  <2> QED
    BY <2>1, <2>3
<1>5. ASSUME NEW i \in 1..Len(t), NEW k \in 1..Len(t), NEW j \in 1..Len(L), NEW l \in 1..Len(L),
             i < k, t[i] = L[j], t[k] = L[l]
      PROVE  j < l
  <2>1. i + 1 \in 1..Len(q) /\ k + 1 \in 1..Len(q) /\ i + 1 < k + 1 /\ q[i + 1] = L[j] /\ q[k + 1] = L[l]
    BY <1>1, <1>5
  <2> QED
    BY <2>1 DEF Backlog
<1> QED
  BY <1>3, <1>4, <1>5 DEF Backlog, t

\* A pump that takes a frame takes the next of the log and no other.
LEMMA BacklogTakeFrame ==
  ASSUME NEW q \in Seq(Messages), NEW L \in Seq(Events), NEW a \in Nat, NEW m \in Nat, m <= Len(L),
         q # <<>>, Head(q) # Pong, Backlog(q, L, a, m), Distinct(L)
  PROVE  a + 1 <= m /\ Head(q) = L[a + 1] /\ Backlog(Tail(q), L, a + 1, m)
<1> DEFINE t == Tail(q)
<1>1. /\ Len(q) \in Nat /\ Len(q) > 0 /\ Len(t) = Len(q) - 1 /\ Head(q) = q[1] /\ q[1] # Pong
      /\ \A i \in 1..Len(t) : t[i] = q[i + 1]
  BY QueueTail
<1>2. Len(L) \in Nat
  BY LenProperties
<1> HIDE DEF t
<1>3. PICK j1 \in (a + 1)..m : L[j1] = q[1]
  BY <1>1 DEF Backlog
<1>4. PICK i1 \in 1..Len(q) : q[i1] = L[a + 1]
  BY <1>3 DEF Backlog
<1>5. q[1] = L[a + 1]
  <2>1. CASE i1 = 1
    BY <1>4, <2>1
  <2>2. CASE i1 # 1
    <3>1. 1 \in 1..Len(q) /\ 1 < i1 /\ j1 \in 1..Len(L) /\ a + 1 \in 1..Len(L)
      BY <1>1, <1>2, <1>3, <1>4, <2>2
    <3>2. j1 < a + 1
      BY <1>3, <1>4, <3>1 DEF Backlog
    <3> QED
      BY <1>3, <3>2
  <2> QED
    BY <2>1, <2>2
<1>6. a + 1 <= m /\ a + 1 \in 1..Len(L)
  BY <1>2, <1>3
<1>7. ASSUME NEW i \in 1..Len(t), t[i] # Pong PROVE \E j \in (a + 2)..m : L[j] = t[i]
  <2>1. i + 1 \in 1..Len(q) /\ q[i + 1] # Pong /\ t[i] = q[i + 1] /\ 1 \in 1..Len(q) /\ 1 < i + 1
    BY <1>1, <1>7
  <2>2. PICK j \in (a + 1)..m : L[j] = q[i + 1]
    BY <2>1 DEF Backlog
  <2>3. j \in 1..Len(L)
    BY <1>2
  <2>4. a + 1 < j
    BY <1>5, <1>6, <2>1, <2>2, <2>3 DEF Backlog
  <2> QED
    BY <2>1, <2>2, <2>4
<1>8. ASSUME NEW j \in (a + 2)..m PROVE \E i \in 1..Len(t) : t[i] = L[j]
  <2>1. PICK i \in 1..Len(q) : q[i] = L[j]
    BY DEF Backlog
  <2>2. i # 1
    BY <1>2, <1>5, <1>6, <2>1 DEF Distinct
  <2>3. i - 1 \in 1..Len(t) /\ t[i - 1] = q[i]
    BY <1>1, <2>2
  <2> QED
    BY <2>1, <2>3
<1>9. ASSUME NEW i \in 1..Len(t), NEW k \in 1..Len(t), NEW j \in 1..Len(L), NEW l \in 1..Len(L),
             i < k, t[i] = L[j], t[k] = L[l]
      PROVE  j < l
  <2>1. i + 1 \in 1..Len(q) /\ k + 1 \in 1..Len(q) /\ i + 1 < k + 1 /\ q[i + 1] = L[j] /\ q[k + 1] = L[l]
    <3>1. i + 1 \in 1..Len(q) /\ k + 1 \in 1..Len(q) /\ i + 1 < k + 1
      BY <1>1, <1>9
    <3>2. t[i] = q[i + 1] /\ t[k] = q[k + 1]
      BY <1>1
    <3> QED
      BY <1>9, <3>1, <3>2
  <2> QED
    BY <2>1 DEF Backlog
<1>10. Backlog(t, L, a + 1, m)
  <2>1. (a + 1) + 1 = a + 2
    OBVIOUS
  <2> QED
    BY <1>7, <1>8, <1>9, <2>1 DEF Backlog
<1> QED
  BY <1>1, <1>5, <1>6, <1>10 DEF t

-----------------------------------------------------------------------------
(* What a step does to one client *)

\* Nothing, or its pump ends, or it is dropped and the frame is not its own.
Kept(c) ==
  /\ send'[c] = send[c] /\ got'[c] = got[c] /\ held'[c] = held[c] /\ from'[c] = from[c]
  /\ pump'[c] \in {pump[c], "done"} /\ (c \in clients' => c \in clients)
  /\ log' = log \/ (c \notin clients' /\ \E e \in Events : log' = Append(log, e))

\* A pong or a published frame joins its queue.
Queued(c) ==
  /\ c \in clients /\ c \in clients'
  /\ got'[c] = got[c] /\ held'[c] = held[c] /\ from'[c] = from[c] /\ pump'[c] = pump[c]
  /\ \/ send'[c] = Append(send[c], Pong) /\ log' = log
     \/ \E e \in Events : send'[c] = Append(send[c], e) /\ log' = Append(log, e)

\* Its pump takes what is first in the queue ...
Took(c) ==
  /\ pump[c] = "run" /\ pump'[c] = "write" /\ send[c] # <<>>
  /\ held'[c] = Head(send[c]) /\ send'[c] = Tail(send[c])
  /\ got'[c] = got[c] /\ from'[c] = from[c] /\ log' = log /\ (c \in clients' => c \in clients)

\* ... and writes it ...
Wrote(c) ==
  /\ pump[c] = "write" /\ pump'[c] = "run" /\ held'[c] = Pong
  /\ got'[c] = IF held[c] = Pong THEN got[c] ELSE Append(got[c], held[c])
  /\ send'[c] = send[c] /\ from'[c] = from[c] /\ log' = log /\ (c \in clients' => c \in clients)

\* ... or fails to; or its request returns.
Ended(c) ==
  /\ pump'[c] = "done" /\ held'[c] \in {held[c], Pong} /\ got'[c] = got[c]
  /\ send'[c] \in {send[c], <<>>} /\ log' = log

\* It is registered.
Began(c) ==
  /\ pump[c] = "none" /\ pump'[c] = "run" /\ from'[c] = Len(log) /\ log' = log
  /\ send[c] = <<>> /\ got[c] = <<>> /\ held[c] = Pong
  /\ send'[c] = send[c] /\ got'[c] = got[c] /\ held'[c] = held[c]

Fate(c) == Kept(c) \/ Queued(c) \/ Took(c) \/ Wrote(c) \/ Ended(c) \/ Began(c)

\* A broadcast queues its frame or drops the client.
LEMMA BroadcastFate ==
  ASSUME Types, NEW e \in Events, Broadcast(e), log' = Append(log, e),
         UNCHANGED <<got, held, from, pump>>, NEW c \in Clients
  PROVE  Fate(c)
<1>1. CASE c \in clients'
  <2>1. Queued(c)
    BY <1>1, BroadcastEach DEF Queued
  <2> QED
    BY <2>1 DEF Fate
<1>2. CASE c \notin clients'
  <2>1. Kept(c)
    BY <1>2, BroadcastEach DEF Kept
  <2> QED
    BY <2>1 DEF Fate
<1> QED
  BY <1>1, <1>2

\* Every step does one of these to each client.
LEMMA EachFate ==
  ASSUME Types, Registered, [Next]_vars, NEW c \in Clients
  PROVE  Fate(c)
<1>a. ASSUME UNCHANGED <<send, clients, got, held, from, log>>, pump'[c] \in {pump[c], "done"} PROVE Fate(c)
  BY <1>a DEF Fate, Kept
<1>b. ASSUME NEW d \in Clients \ {c}, Elsewhere(d), log' = log,
             got'[c] = got[c], held'[c] = held[c], from'[c] = from[c], pump'[c] = pump[c]
      PROVE  Fate(c)
  BY <1>b DEF Elsewhere, Fate, Kept
<1>1. ASSUME NEW d \in Clients, Upgrade(d) PROVE Fate(c)
  <2>1. CASE ~Admitted
    BY <1>1, <1>a, <2>1 DEF Upgrade
  <2>2. CASE Admitted
    <3>1. /\ conn[d] = "none" /\ clients' = clients \cup {d} /\ from' = [from EXCEPT ![d] = Len(log)]
          /\ pump' = [pump EXCEPT ![d] = "run"] /\ UNCHANGED <<send, got, held, log, closed>>
      BY <1>1, <2>2 DEF Upgrade
    <3>2. CASE d = c
      <4>1. Began(c)
        BY <3>1, <3>2 DEF Began, Types, Registered
      <4> QED
        BY <4>1 DEF Fate
    <3>3. CASE d # c
      BY <1>b, <3>1, <3>3 DEF Elsewhere, Types
    <3> QED
      BY <3>2, <3>3
  <2> QED
    BY <2>1, <2>2
<1>2. ASSUME NEW d \in Clients, ReadPing(d) PROVE Fate(c)
  <2>1. SendTo(d, Pong) /\ UNCHANGED <<log, from, pump, held, got>>
    BY <1>2 DEF ReadPing, notConn, connVars
  <2>2. CASE d = c
    <3>1. Queued(c) \/ Kept(c)
      BY <2>1, <2>2, SendToEach DEF Queued, Kept
    <3> QED
      BY <3>1 DEF Fate
  <2>3. CASE d # c
    BY <1>b, <2>1, <2>3, SendToEach
  <2> QED
    BY <2>2, <2>3
<1>3. ASSUME NEW d \in Clients, PumpTake(d) PROVE Fate(c)
  <2>1. /\ pump[d] = "run" /\ pump' = [pump EXCEPT ![d] = "write"] /\ held' = [held EXCEPT ![d] = Head(send[d])]
        /\ send' = [send EXCEPT ![d] = Tail(send[d])] /\ send[d] # <<>>
        /\ UNCHANGED <<clients, closed, got, from, log>>
    BY <1>3 DEF PumpTake, notConn
  <2>2. CASE d = c
    <3>1. Took(c)
      BY <2>1, <2>2 DEF Took, Types
    <3> QED
      BY <3>1 DEF Fate
  <2>3. CASE d # c
    BY <1>b, <2>1, <2>3 DEF Elsewhere, Types
  <2> QED
    BY <2>2, <2>3
<1>4. ASSUME NEW d \in Clients, PumpWrite(d) PROVE Fate(c)
  <2>1. pump[d] = "write" /\ held' = [held EXCEPT ![d] = Pong] /\ UNCHANGED <<clients, send, closed, from, log>>
    BY <1>4 DEF PumpWrite, notConn, hubVars
  <2>2. \/ /\ pump' = [pump EXCEPT ![d] = "run"]
           /\ got' = IF held[d] = Pong THEN got ELSE [got EXCEPT ![d] = Append(got[d], held[d])]
        \/ pump' = [pump EXCEPT ![d] = "done"] /\ got' = got
    BY <1>4 DEF PumpWrite
  <2>3. CASE d = c
    <3>1. CASE pump' = [pump EXCEPT ![d] = "done"] /\ got' = got
      <4>1. Ended(c)
        BY <2>1, <2>3, <3>1 DEF Ended, Types
      <4> QED
        BY <4>1 DEF Fate
    <3>2. CASE /\ pump' = [pump EXCEPT ![d] = "run"]
               /\ got' = IF held[d] = Pong THEN got ELSE [got EXCEPT ![d] = Append(got[d], held[d])]
      <4>1. got'[c] = IF held[c] = Pong THEN got[c] ELSE Append(got[c], held[c])
        BY <2>3, <3>2 DEF Types
      <4>2. Wrote(c)
        BY <2>1, <2>3, <3>2, <4>1 DEF Wrote, Types
      <4> QED
        BY <4>2 DEF Fate
    <3> QED
      BY <2>2, <3>1, <3>2
  <2>4. CASE d # c
    BY <1>b, <2>1, <2>2, <2>4 DEF Elsewhere, Types
  <2> QED
    BY <2>3, <2>4
<1>5. ASSUME NEW d \in Clients, PumpEnd(d) PROVE Fate(c)
  <2>1. pump' = [pump EXCEPT ![d] = "done"] /\ UNCHANGED <<clients, send, got, held, from, log>>
    BY <1>5 DEF PumpEnd, notConn, hubVars
  <2> QED
    BY <1>a, <2>1 DEF Types
<1>6. ASSUME NEW d \in Clients, Return(d) PROVE Fate(c)
  <2>1. pump[d] = "done" /\ UNCHANGED <<pump, held, log, from, got>>
    BY <1>6 DEF Return, history
  <2>2. CASE d = c
    <3>1. Ended(c)
      BY <1>6, <2>1, <2>2, ReturnEach DEF Ended
    <3> QED
      BY <3>1 DEF Fate
  <2>3. CASE d # c
    BY <1>6, <1>b, <2>1, <2>3, ReturnEach
  <2> QED
    BY <2>2, <2>3
<1>7. ASSUME NEW e \in Events, Handle(e) \/ Publish(e) PROVE Fate(c)
  <2>1. UNCHANGED <<got, held, from, pump>>
    BY <1>7 DEF Handle, Publish, notEvent, connVars
  <2>2. CASE Broadcast(e) /\ log' = Append(log, e)
    BY <2>1, <2>2, BroadcastFate
  <2>3. CASE UNCHANGED <<send, clients, log>>
    BY <2>1, <2>3, <1>a
  <2> QED
    BY <1>7, <2>2, <2>3 DEF Handle, Publish, hubVars
<1>8. ASSUME NEW d \in Clients,
             ReadEnds(d) \/ CloseOnCancel(d) \/ CancelRequest(d) \/ CloseDropped(d) \/ PeerLeaves(d)
      PROVE  Fate(c)
  <2>1. UNCHANGED <<send, clients, got, held, from, log, pump>>
    BY <1>8 DEF ReadEnds, CloseOnCancel, CancelRequest, CloseDropped, PeerLeaves, notConn, hubVars, connVars, history
  <2> QED
    BY <1>a, <2>1
<1>9. ASSUME NEW e \in Events, Change(e) PROVE Fate(c)
  BY <1>9, <1>a DEF Change, notEvent, hubVars, connVars
<1>10. CASE MarkReady \/ Shutdown \/ Stopped \/ UNCHANGED vars
  <2>1. UNCHANGED <<send, clients, got, held, from, log, pump>>
    BY <1>10 DEF MarkReady, Shutdown, Stopped, vars, hubVars, connVars, history
  <2> QED
    BY <1>a, <2>1
<1> QED
  BY <1>1, <1>2, <1>3, <1>4, <1>5, <1>6, <1>7, <1>8, <1>9, <1>10 DEF Next, Request

-----------------------------------------------------------------------------
(* What is published *)

\* A step publishes one frame of an event that has published none, or none.
LEMMA LogStep ==
  ASSUME Types, [Next]_vars
  PROVE  \/ log' = log /\ \A q \in Events : event[q] \in {"done", "pushed"} => event'[q] = event[q]
         \/ \E e \in Events : /\ event[e] \notin {"done", "pushed"} /\ log' = Append(log, e)
                              /\ event'[e] \in {"done", "pushed"}
                              /\ \A q \in Events \ {e} : event'[q] = event[q]
<1> DEFINE Goal == \/ log' = log /\ \A q \in Events : event[q] \in {"done", "pushed"} => event'[q] = event[q]
                   \/ \E e \in Events : /\ event[e] \notin {"done", "pushed"} /\ log' = Append(log, e)
                                        /\ event'[e] \in {"done", "pushed"}
                                        /\ \A q \in Events \ {e} : event'[q] = event[q]
<1>1. ASSUME NEW c \in Clients, Upgrade(c) \/ ReadPing(c) \/ Request(c) \/ PeerLeaves(c) PROVE Goal
  <2>1. log' = log /\ event' = event
    BY <1>1 DEF Upgrade, ReadPing, Request, PeerLeaves, ReadEnds, PumpTake, PumpWrite, PumpEnd, CloseOnCancel,
                Return, CancelRequest, CloseDropped, notConn, history
  <2> QED
    BY <2>1
<1>2. ASSUME NEW e \in Events, Handle(e) PROVE Goal
  <2>1. CASE event[e] = "publish"
    <3>1. log' = Append(log, e) /\ event' = [event EXCEPT ![e] = "done"]
      BY <1>2, <2>1 DEF Handle
    <3>2. event'[e] = "done" /\ \A q \in Events \ {e} : event'[q] = event[q]
      BY <3>1 DEF Types
    <3> QED
      BY <2>1, <3>1, <3>2
  <2>2. CASE event[e] # "publish"
    <3>1. log' = log /\ event[e] \notin {"done", "pushed"}
      BY <1>2, <2>2 DEF Handle
    <3>2. PICK s \in {"invalidate", "dropped", "publish", "done"} : event' = [event EXCEPT ![e] = s]
      BY <1>2 DEF Handle
    <3> QED
      BY <3>1, <3>2 DEF Types
  <2> QED
    BY <2>1, <2>2
<1>3. ASSUME NEW e \in Events, Change(e) PROVE Goal
  <2>1. log' = log /\ event[e] = "none" /\ event' = [event EXCEPT ![e] = "refresh"]
    BY <1>3 DEF Change, NextEvent
  <2> QED
    BY <2>1 DEF Types
<1>4. ASSUME NEW e \in Events, Publish(e) PROVE Goal
  <2>1. log' = Append(log, e) /\ event[e] = "none" /\ event' = [event EXCEPT ![e] = "pushed"]
    BY <1>4 DEF Publish, NextEvent
  <2>2. event'[e] = "pushed" /\ \A q \in Events \ {e} : event'[q] = event[q]
    BY <2>1 DEF Types
  <2> QED
    BY <2>1, <2>2
<1>5. CASE MarkReady \/ Shutdown \/ Stopped \/ UNCHANGED vars
  BY <1>5 DEF MarkReady, Shutdown, Stopped, vars, history
<1> QED
  BY <1>1, <1>2, <1>3, <1>4, <1>5 DEF Next

\* Every step keeps the log without repetition.
LEMMA PublishedStep == Types /\ Published /\ [Next]_vars => Published'
<1> SUFFICES ASSUME Types, Published, [Next]_vars PROVE Published'
  OBVIOUS
<1>1. log \in Seq(Events) /\ Len(log) \in Nat /\ \A j \in 1..Len(log) : log[j] \in Events
  BY LenProperties, ElementOfSeq DEF Types
<1>2. CASE log' = log /\ \A q \in Events : event[q] \in {"done", "pushed"} => event'[q] = event[q]
  BY <1>1, <1>2 DEF Published, Distinct
<1>3. ASSUME NEW e \in Events, event[e] \notin {"done", "pushed"}, log' = Append(log, e),
             event'[e] \in {"done", "pushed"}, \A q \in Events \ {e} : event'[q] = event[q]
      PROVE  Published'
  <2>1. /\ Len(log') = Len(log) + 1 /\ log'[Len(log) + 1] = e
        /\ \A j \in 1..Len(log) : log'[j] = log[j]
    BY <1>1, <1>3, LogAppend
  <2>2. \A j \in 1..Len(log) : log[j] # e /\ event[log[j]] \in {"done", "pushed"}
    BY <1>3 DEF Published
  <2>3. ASSUME NEW i \in 1..Len(log') PROVE event'[log'[i]] \in {"done", "pushed"}
    BY <1>1, <1>3, <2>1, <2>2
  <2>4. ASSUME NEW i \in 1..Len(log'), NEW j \in 1..Len(log'), log'[i] = log'[j] PROVE i = j
    BY <1>1, <2>1, <2>2, <2>4 DEF Published, Distinct
  <2> QED
    BY <2>3, <2>4 DEF Published, Distinct
<1> QED
  BY <1>2, <1>3, LogStep

\* What is in the log stays there, and a frame is there from the step that publishes it.
LEMMA LoggedStays ==
  ASSUME Types, log' = log \/ \E e \in Events : log' = Append(log, e)
  PROVE  /\ Known \subseteq Known'
         /\ \A e \in Events : log' = Append(log, e) => e \in Known'
<1>1. log \in Seq(Events)
  BY DEF Types
<1>2. CASE log' = log
  <2>1. \A e \in Events : log' # Append(log, e)
    <3> SUFFICES ASSUME NEW e \in Events, log = Append(log, e) PROVE FALSE
      BY <1>2
    <3>1. Len(log) = Len(log) + 1 /\ Len(log) \in Nat
      BY <1>1, LogAppend
    <3> QED
      BY <3>1
  <2> QED
    BY <1>2, <2>1 DEF Known
<1>3. ASSUME NEW e \in Events, log' = Append(log, e)
      PROVE  Known \subseteq Known' /\ e \in Known'
  <2>1. /\ Len(log) \in Nat /\ Len(log') = Len(log) + 1 /\ log'[Len(log) + 1] = e
        /\ \A j \in 1..Len(log) : log'[j] = log[j]
    BY <1>1, <1>3, LogAppend
  <2>2. ASSUME NEW f \in Known PROVE f \in Known'
    BY <2>1, <2>2 DEF Known
  <2>3. e \in Known'
    BY <2>1 DEF Known
  <2> QED
    BY <2>2, <2>3
<1> QED
  BY <1>2, <1>3

\* Every step keeps the clients' frames among the published ones.
LEMMA FramesLoggedStep == Types /\ Registered /\ FramesLogged /\ [Next]_vars => FramesLogged'
<1> SUFFICES ASSUME Types, Registered, FramesLogged, [Next]_vars, NEW c \in Clients
             PROVE  /\ held'[c] \in Known'
                    /\ \A i \in 1..Len(send'[c]) : send'[c][i] \in Known'
                    /\ \A i \in 1..Len(got'[c]) : got'[c][i] \in Known'
  BY DEF FramesLogged
<1>1. /\ Known \subseteq Known'
      /\ \A e \in Events : log' = Append(log, e) => e \in Known'
  BY LogStep, LoggedStays
<1>2. Pong \in Known'
  BY DEF Known
<1>3. /\ send[c] \in Seq(Messages) /\ got[c] \in Seq(Events) /\ held[c] \in Messages
      /\ Len(send[c]) \in Nat /\ Len(got[c]) \in Nat
  BY LenProperties DEF Types
<1>4. /\ held[c] \in Known /\ \A i \in 1..Len(send[c]) : send[c][i] \in Known
      /\ \A i \in 1..Len(got[c]) : got[c][i] \in Known
  BY DEF FramesLogged
<1>5. Len(<<>>) = 0
  BY EmptySeq
<1>6. CASE Kept(c) \/ Began(c) \/ Ended(c)
  BY <1>1, <1>2, <1>4, <1>5, <1>6 DEF Kept, Began, Ended
<1>7. CASE Queued(c)
  <2>1. PICK f \in Messages : send'[c] = Append(send[c], f) /\ f \in Known'
    BY <1>1, <1>2, <1>7 DEF Queued, Messages
  <2>2. \A i \in 1..Len(send'[c]) : send'[c][i] \in Known'
    BY <1>1, <1>3, <1>4, <2>1, QueueAppend
  <2> QED
    BY <1>1, <1>4, <1>7, <2>2 DEF Queued
<1>8. CASE Took(c)
  <2>1. /\ Len(send'[c]) = Len(send[c]) - 1 /\ Len(send[c]) > 0 /\ held'[c] = send[c][1]
        /\ \A i \in 1..Len(send'[c]) : send'[c][i] = send[c][i + 1]
    BY <1>3, <1>8, QueueTail DEF Took
  <2>2. ASSUME NEW i \in 1..Len(send'[c]) PROVE send'[c][i] \in Known'
    <3>1. i + 1 \in 1..Len(send[c]) /\ send'[c][i] = send[c][i + 1]
      BY <1>3, <2>1
    <3> QED
      BY <1>1, <1>4, <3>1
  <2>3. held'[c] \in Known'
    <3>1. 1 \in 1..Len(send[c])
      BY <1>3, <2>1
    <3> QED
      BY <1>1, <1>4, <2>1, <3>1
  <2> QED
    BY <1>1, <1>4, <1>8, <2>2, <2>3 DEF Took
<1>9. CASE Wrote(c)
  <2>1. \A i \in 1..Len(got'[c]) : got'[c][i] \in Known'
    <3>1. CASE held[c] = Pong
      BY <1>1, <1>4, <1>9, <3>1 DEF Wrote
    <3>2. CASE held[c] # Pong
      <4>1. held[c] \in Events /\ got'[c] = Append(got[c], held[c])
        BY <1>3, <1>9, <3>2 DEF Wrote, Messages
      <4> QED
        BY <1>1, <1>3, <1>4, <4>1, LogAppend
    <3> QED
      BY <3>1, <3>2
  <2> QED
    BY <1>1, <1>2, <1>4, <1>9, <2>1 DEF Wrote
<1> QED
  BY <1>6, <1>7, <1>8, <1>9, EachFate DEF Fate

-----------------------------------------------------------------------------
(* Without a gap *)

\* A queue that gets the last of the log, or a pong, owes it.
LEMMA GaplessQueued ==
  ASSUME Types, Distinct(log)', NEW c \in Clients, GaplessAt(c), Queued(c)
  PROVE  GaplessAt(c)'
<1> SUFFICES ASSUME pump[c] \in {"run", "write"} PROVE GaplessAt(c)'
  BY DEF Queued, GaplessAt
<1>1. PICK a \in Nat : a = Taken(c) /\ a = Taken(c)'
  <2>1. Taken(c)' = Taken(c) /\ Taken(c) \in Nat
    BY LenProperties DEF Queued, Taken, Types
  <2> QED
    BY <2>1
<1>2. /\ send[c] \in Seq(Messages) /\ log \in Seq(Events) /\ Len(log) \in Nat
  BY LenProperties DEF Types
<1>3. a <= Len(log) /\ Backlog(send[c], log, a, Len(log))
  BY <1>1 DEF GaplessAt, Queued
<1>4. pump[c] = "write" /\ held[c] # Pong => held[c] = log[a] /\ a > 0
  <2>1. from[c] \in Nat /\ Len(got[c]) \in Nat
    BY LenProperties DEF Types
  <2> QED
    BY <1>1, <2>1 DEF GaplessAt, Taken
<1>5. CASE send'[c] = Append(send[c], Pong) /\ log' = log
  <2>1. Backlog(send'[c], log', a, Len(log'))
    BY <1>2, <1>3, <1>5, BacklogPong
  <2> QED
    BY <1>1, <1>2, <1>3, <1>4, <1>5, <2>1 DEF GaplessAt, Queued
<1>6. ASSUME NEW e \in Events, send'[c] = Append(send[c], e), log' = Append(log, e)
      PROVE  GaplessAt(c)'
  <2>1. Len(log') = Len(log) + 1 /\ \A j \in 1..Len(log) : log'[j] = log[j]
    BY <1>2, <1>6, LogAppend
  <2>2. Backlog(send'[c], log', a, Len(log'))
    BY <1>2, <1>3, <1>6, <2>1, BacklogFrame
  <2>3. pump'[c] = "write" /\ held'[c] # Pong => held'[c] = log'[a]
    BY <1>2, <1>3, <1>4, <2>1 DEF Queued
  <2> QED
    BY <1>1, <1>2, <1>3, <2>1, <2>2, <2>3 DEF GaplessAt
<1> QED
  BY <1>5, <1>6 DEF Queued

\* A client that a step leaves alone, or that a broadcast drops, is owed what it was.
LEMMA GaplessKept ==
  ASSUME Types, Distinct(log)', NEW c \in Clients, GaplessAt(c), Kept(c)
  PROVE  GaplessAt(c)'
<1> SUFFICES ASSUME pump[c] \in {"run", "write"}, pump'[c] = pump[c] PROVE GaplessAt(c)'
  BY DEF Kept, GaplessAt
<1>1. PICK a \in Nat : a = Taken(c) /\ a = Taken(c)'
  <2>1. Taken(c)' = Taken(c) /\ Taken(c) \in Nat
    BY LenProperties DEF Kept, Taken, Types
  <2> QED
    BY <2>1
<1>2. send[c] \in Seq(Messages) /\ log \in Seq(Events) /\ Len(log) \in Nat
  BY LenProperties DEF Types
<1>3. PICK m \in a..Len(log) : (c \in clients => m = Len(log)) /\ Backlog(send[c], log, a, m)
  BY <1>1 DEF GaplessAt
<1>4. a <= Len(log) /\ (pump[c] = "write" /\ held[c] # Pong => held[c] = log[a] /\ a > 0)
  <2>1. from[c] \in Nat /\ Len(got[c]) \in Nat
    BY LenProperties DEF Types
  <2> QED
    BY <1>1, <2>1 DEF GaplessAt, Taken
<1>5. CASE log' = log
  BY <1>1, <1>3, <1>4, <1>5 DEF GaplessAt, Kept
<1>6. ASSUME NEW e \in Events, log' = Append(log, e), c \notin clients' PROVE GaplessAt(c)'
  <2>1. Len(log') = Len(log) + 1 /\ \A j \in 1..Len(log) : log'[j] = log[j]
    BY <1>2, <1>6, LogAppend
  <2>2. m \in Nat /\ m <= Len(log) /\ m \in a..Len(log')
    BY <1>2, <1>3, <2>1
  <2>3. Backlog(send'[c], log', a, m)
    BY <1>2, <1>3, <1>6, <2>2, BacklogLater DEF Kept
  <2>4. pump'[c] = "write" /\ held'[c] # Pong => held'[c] = log'[a]
    BY <1>2, <1>4, <2>1 DEF Kept
  <2>5. a <= Len(log')
    BY <1>2, <1>4, <2>1
  <2>6. \E k \in a..Len(log') : (c \in clients' => k = Len(log')) /\ Backlog(send'[c], log', a, k)
    BY <1>6, <2>2, <2>3
  <2> QED
    BY <1>1, <2>4, <2>5, <2>6 DEF GaplessAt
<1> QED
  BY <1>5, <1>6 DEF Kept

\* A pump takes the next frame of the log.
LEMMA GaplessTook ==
  ASSUME Types, Distinct(log), NEW c \in Clients, GaplessAt(c), Took(c)
  PROVE  GaplessAt(c)'
<1>1. PICK a \in Nat : a = Taken(c) /\ a = from[c] + Len(got[c])
  <2>1. from[c] + Len(got[c]) \in Nat /\ Taken(c) = from[c] + Len(got[c])
    BY LenProperties DEF Took, Taken, Types
  <2> QED
    BY <2>1
<1>2. send[c] \in Seq(Messages) /\ log \in Seq(Events) /\ Len(log) \in Nat /\ send[c] # <<>>
  BY LenProperties DEF Types, Took
<1>3. PICK m \in a..Len(log) : (c \in clients => m = Len(log)) /\ Backlog(send[c], log, a, m)
  BY <1>1 DEF GaplessAt, Took
<1>4. m \in Nat /\ m <= Len(log)
  BY <1>2, <1>3
<1>5. CASE Head(send[c]) = Pong
  <2>1. Backlog(send'[c], log', a, m)
    BY <1>2, <1>3, <1>4, <1>5, BacklogTakePong DEF Took
  <2>2. Taken(c)' = a
    BY <1>1, <1>5 DEF Taken, Took
  <2> QED
    BY <1>2, <1>3, <1>4, <1>5, <2>1, <2>2 DEF GaplessAt, Took
<1>6. CASE Head(send[c]) # Pong
  <2>1. a + 1 <= m /\ Head(send[c]) = log[a + 1] /\ Backlog(send'[c], log', a + 1, m)
    BY <1>2, <1>3, <1>4, <1>6, BacklogTakeFrame DEF Took
  <2>2. Taken(c)' = a + 1
    BY <1>1, <1>6 DEF Taken, Took
  <2>3. a + 1 <= Len(log) /\ m \in (a + 1)..Len(log)
    BY <1>2, <1>3, <1>4, <2>1
  <2> QED
    BY <1>2, <1>3, <2>1, <2>2, <2>3 DEF GaplessAt, Took
<1> QED
  BY <1>5, <1>6

\* Writing a frame counts it as received.
LEMMA GaplessWrote ==
  ASSUME Types, NEW c \in Clients, GaplessAt(c), Wrote(c)
  PROVE  GaplessAt(c)'
<1>1. Taken(c)' = Taken(c)
  <2>1. Len(got[c]) \in Nat /\ from[c] \in Nat /\ got[c] \in Seq(Events)
    BY LenProperties DEF Types
  <2>2. CASE held[c] = Pong
    BY <2>1, <2>2 DEF Wrote, Taken
  <2>3. CASE held[c] # Pong
    <3>1. held[c] \in Events
      BY <2>3 DEF Types, Messages
    <3>2. Len(got'[c]) = Len(got[c]) + 1
      BY <2>1, <2>3, <3>1, LogAppend DEF Wrote
    <3>3. Taken(c) = from[c] + Len(got[c]) + 1 /\ Taken(c)' = from[c] + (Len(got[c]) + 1)
      BY <2>1, <2>3, <3>2 DEF Wrote, Taken
    <3> QED
      BY <2>1, <3>3
  <2> QED
    BY <2>2, <2>3
<1>2. PICK a : a = Taken(c) /\ a = Taken(c)'
  BY <1>1
<1> QED
  BY <1>2 DEF GaplessAt, Wrote

\* A client that is registered is owed nothing of before.
LEMMA GaplessBegan ==
  ASSUME Types, NEW c \in Clients, Began(c)
  PROVE  GaplessAt(c)'
<1>1. Len(log) \in Nat /\ Len(<<>>) = 0
  BY LenProperties, EmptySeq DEF Types
<1>2. Taken(c)' = Len(log)
  BY <1>1 DEF Taken, Began
<1>3. Backlog(send'[c], log', Len(log), Len(log))
  BY <1>1, BacklogEmpty DEF Began
<1> QED
  BY <1>1, <1>2, <1>3 DEF GaplessAt, Began

\* Every step keeps the feed of each client without a gap.
LEMMA GaplessStep == Types /\ Registered /\ Published /\ Gapless /\ [Next]_vars => Gapless'
<1> SUFFICES ASSUME Types, Registered, Published, Gapless, [Next]_vars, NEW c \in Clients
             PROVE  GaplessAt(c)'
  BY DEF Gapless
<1>1. Distinct(log) /\ Distinct(log)'
  BY PublishedStep DEF Published
<1>2. GaplessAt(c)
  BY DEF Gapless
<1>3. CASE Ended(c)
  BY <1>3 DEF Ended, GaplessAt
<1> QED
  BY <1>1, <1>2, <1>3, EachFate, GaplessKept, GaplessQueued, GaplessTook, GaplessWrote, GaplessBegan DEF Fate

-----------------------------------------------------------------------------
(* The theorems *)

\* Nothing is registered, queued or published at the start.
LEMMA InitInv == Init => IInv
<1> SUFFICES ASSUME Init PROVE IInv
  OBVIOUS
<1> USE Constants
<1>1. <<>> \in Seq(Messages) /\ <<>> \in Seq(Events) /\ Len(<<>>) = 0
  BY EmptySeq
<1>2. Types
  <2>1. /\ read = [c \in Clients |-> "none"] /\ pump = [c \in Clients |-> "none"]
        /\ closer = [c \in Clients |-> "none"]
    BY DEF Init
  <2>2. /\ read \in [Clients -> {"none", "run", "done"}]
        /\ pump \in [Clients -> {"none", "run", "write", "done"}]
        /\ closer \in [Clients -> {"none", "run", "done", "returned"}]
    BY <2>1
  <2>3. event \in [Events -> EventSteps] /\ held \in [Clients -> Messages]
    BY DEF Init, EventSteps, Messages
  <2>4. /\ conn \in [Clients -> {"none", "open", "closed"}] /\ peer \in [Clients -> BOOLEAN]
        /\ cancelled \in [Clients -> BOOLEAN] /\ closed \in [Clients -> Nat] /\ from \in [Clients -> Nat]
    BY DEF Init
  <2>5. send \in [Clients -> Seq(Messages)] /\ got \in [Clients -> Seq(Events)] /\ log \in Seq(Events)
    BY <1>1 DEF Init
  <2>6. pings \in Nat /\ page \in 0..MaxEvents /\ index \in 0..MaxEvents /\ status \in 0..MaxEvents
    <3>1. 0 \in 0..MaxEvents
      OBVIOUS
    <3> QED
      BY <3>1 DEF Init
  <2>7. ready \in BOOLEAN /\ stopping \in BOOLEAN /\ clients \in SUBSET Clients /\ unclosed \in SUBSET Clients
    BY DEF Init
  <2> QED
    BY <2>2, <2>3, <2>4, <2>5, <2>6, <2>7 DEF Types
<1>3. Bounded
  BY <1>1, FS_EmptySet DEF Init, Bounded
<1>4. Registered
  BY DEF Init, Registered
<1>5. Refreshed
  BY DEF Init, Refreshed
<1>6. Published
  BY <1>1 DEF Init, Published, Distinct
<1>7. FramesLogged
  BY <1>1 DEF Init, FramesLogged, Known
<1>8. Gapless
  BY DEF Init, Gapless, GaplessAt
<1> QED
  BY <1>2, <1>3, <1>4, <1>5, <1>6, <1>7, <1>8 DEF IInv

\* The invariant is inductive.
LEMMA NextInv == IInv /\ [Next]_vars => IInv'
BY TypesStep, BoundedStep, RegisteredStep, RefreshedStep, PublishedStep, FramesLoggedStep, GaplessStep DEF IInv

\* The invariant holds throughout.
LEMMA Invariance == Spec => []IInv
BY InitInv, NextInv, PTL DEF Spec

\* The registry never exceeds its cap and no queue its depth, and the manager closes a queue
\* exactly once, when its client leaves the registry.
THEOREM HubBounds == Spec => []TypeOK
<1>1. IInv => TypeOK
  <2> SUFFICES ASSUME IInv PROVE TypeOK
    OBVIOUS
  <2>1. ASSUME NEW c \in Clients PROVE ToSet(send[c]) \subseteq Events \cup {Pong}
    BY LenProperties DEF IInv, Types, Messages, ToSet
  <2>2. {page, index, status} \subseteq 0..MaxEvents
    BY DEF IInv, Types
  <2>3. clients \subseteq Clients
    BY DEF IInv, Types
  <2>4. ASSUME NEW c \in Clients
        PROVE  Len(send[c]) <= Buffer /\ closed[c] = IF closer[c] # "none" /\ c \notin clients THEN 1 ELSE 0
    BY DEF IInv, Bounded, Registered
  <2> QED
    BY <2>1, <2>2, <2>3, <2>4 DEF TypeOK, IInv, Bounded
<1> QED
  BY <1>1, Invariance, PTL

\* No browser is sent a frame, nor has one waiting, before the page index and the status cache
\* hold the change it announces.
THEOREM FramesFollowRefresh == Spec => []FrameAfterRefresh
<1>1. IInv => FrameAfterRefresh
  <2> SUFFICES ASSUME IInv, NEW c \in Clients, NEW e \in FramesOf(c), e # Pong, event[e] # "pushed"
               PROVE  e <= index /\ e <= status
    BY DEF FrameAfterRefresh
  <2>1. send[c] \in Seq(Messages) /\ got[c] \in Seq(Events) /\ log \in Seq(Events)
    BY DEF IInv, Types
  <2>2. e \in Known
    <3>1. DOMAIN send[c] = 1..Len(send[c]) /\ DOMAIN got[c] = 1..Len(got[c])
      BY <2>1, LenProperties
    <3>2. CASE e = held[c]
      BY <3>2 DEF IInv, FramesLogged
    <3>3. CASE e \in ToSet(send[c])
      BY <3>1, <3>3 DEF ToSet, IInv, FramesLogged
    <3>4. CASE e \in ToSet(got[c])
      BY <3>1, <3>4 DEF ToSet, IInv, FramesLogged
    <3> QED
      BY <3>2, <3>3, <3>4 DEF FramesOf
  <2>3. PICK j \in 1..Len(log) : log[j] = e
    BY <2>2 DEF Known
  <2>4. e \in Events /\ event[e] = "done"
    <3>1. e \in Events
      BY <2>1, <2>3, PongIsNoFrame
    <3> QED
      BY <2>3, <3>1 DEF IInv, Published
  <2> QED
    BY <2>4 DEF IInv, Refreshed
<1> QED
  BY <1>1, Invariance, PTL

-----------------------------------------------------------------------------
(* The feed *)

\* What a browser sees of the hub.
Subs == [c \in Clients |-> Subscription(c)]
Feeds == <<log, Subs, from, got>>

\* The subscription of a client whose registration and request a step leaves alone.
LEMMA SubscriptionSame ==
  ASSUME NEW c, c \in clients' <=> c \in clients, closer'[c] = "none" <=> closer[c] = "none"
  PROVE  Subscription(c)' = Subscription(c)
BY DEF Subscription

\* A step that changes neither the registry, nor the start of a request, nor the history is
\* no step of the feed.
LEMMA FeedStutters ==
  ASSUME clients' = clients, UNCHANGED history,
         \A c \in Clients : closer'[c] = "none" <=> closer[c] = "none"
  PROVE  UNCHANGED Feeds
<1>1. \A c \in Clients : Subscription(c)' = Subscription(c)
  BY SubscriptionSame
<1> QED
  BY <1>1 DEF Feeds, Subs, history

\* A client that leaves the registry is cut off.
LEMMA FeedCut ==
  ASSUME IInv, NEW c \in clients, UNCHANGED history, c \notin clients',
         closer'[c] # "none", \A d \in Clients \ {c} : d \in clients' <=> d \in clients,
         \A d \in Clients \ {c} : closer'[d] = "none" <=> closer[d] = "none"
  PROVE  F!Cut(c)
<1>1. c \in Clients /\ closer[c] # "none"
  BY DEF IInv, Types, Registered
<1>2. Subscription(c) = "on" /\ Subscription(c)' = "off"
  BY <1>1 DEF Subscription
<1>3. \A d \in Clients \ {c} : Subscription(d)' = Subscription(d)
  BY SubscriptionSame
<1>4. Subs' = [d \in Clients |-> IF d \in {c} THEN "off" ELSE Subs[d]]
  BY <1>2, <1>3 DEF Subs
<1> QED
  BY <1>1, <1>2, <1>4 DEF F!Cut, F!CutOff, Subs, history

\* A broadcast publishes its frame and cuts off whom it drops.
LEMMA FeedPublish ==
  ASSUME IInv, NEW e \in Events, Broadcast(e), log' = Append(log, e), UNCHANGED <<closer, from, got>>
  PROVE  F!Publish
<1> DEFINE cut == {c \in clients : c \notin clients'}
<1>1. cut \in SUBSET {c \in Clients : Subs[c] = "on"}
  <2>1. ASSUME NEW c \in clients PROVE c \in Clients /\ Subs[c] = "on"
    <3>1. c \in Clients /\ closer[c] # "none"
      BY DEF IInv, Types, Registered
    <3> QED
      BY <3>1 DEF Subs, Subscription
  <2> QED
    BY <2>1
<1>2. ASSUME NEW c \in Clients PROVE Subscription(c)' = IF c \in cut THEN "off" ELSE Subs[c]
  <2>1. Types /\ (c \in clients' => c \in clients)
    BY BroadcastEach DEF IInv
  <2>2. CASE c \in cut
    <3>1. closer[c] # "none" /\ c \notin clients'
      BY <2>2 DEF IInv, Registered
    <3> QED
      BY <2>2, <3>1 DEF Subscription
  <2>3. CASE c \notin cut
    BY <2>1, <2>3, SubscriptionSame DEF Subs
  <2> QED
    BY <2>2, <2>3
<1>3. Subs' = [c \in Clients |-> IF c \in cut THEN "off" ELSE Subs[c]]
  BY <1>2 DEF Subs
<1> QED
  BY <1>1, <1>3 DEF F!Publish, F!CutOff, Subs

\* What a pump writes is the next frame.
LEMMA FeedDeliver ==
  ASSUME IInv, NEW c \in Clients, pump[c] = "write", held[c] # Pong,
         got' = [got EXCEPT ![c] = Append(got[c], held[c])], UNCHANGED <<log, from, clients, closer>>
  PROVE  F!Deliver(c)
<1>1. Taken(c) = from[c] + Len(got[c]) + 1
  BY DEF Taken
<1>2. Taken(c) <= Len(log) /\ held[c] = log[Taken(c)]
  BY DEF IInv, Gapless, GaplessAt
<1>3. closer[c] # "none"
  BY DEF IInv, Registered
<1>4. Subs' = Subs
  BY SubscriptionSame DEF Subs
<1>5. Subs[c] # "none"
  BY <1>3 DEF Subs, Subscription
<1> QED
  BY <1>1, <1>2, <1>4, <1>5 DEF F!Deliver, Subs

\* An upgrade subscribes.
LEMMA FeedSubscribe ==
  ASSUME IInv, NEW c \in Clients, Upgrade(c), Admitted
  PROVE  F!Subscribe(c)
<1>1. /\ conn[c] = "none" /\ clients' = clients \cup {c} /\ from' = [from EXCEPT ![c] = Len(log)]
      /\ closer' = [closer EXCEPT ![c] = "run"] /\ UNCHANGED <<log, got>>
  BY DEF Upgrade
<1>2. closer[c] = "none" /\ closer'[c] = "run" /\ \A d \in Clients \ {c} : closer'[d] = closer[d]
  BY <1>1 DEF IInv, Registered, Types
<1>3. Subscription(c) = "none" /\ Subscription(c)' = "on"
  BY <1>1, <1>2 DEF Subscription
<1>4. \A d \in Clients \ {c} : Subscription(d)' = Subscription(d)
  BY <1>1, <1>2, SubscriptionSame
<1>5. Subs' = [Subs EXCEPT ![c] = "on"]
  BY <1>3, <1>4 DEF Subs
<1>6. Subs[c] = "none"
  BY <1>3 DEF Subs
<1> QED
  BY <1>1, <1>5, <1>6 DEF F!Subscribe, Subs

\* Every step of the hub is a step of the feed or none.
LEMMA FeedStep == IInv /\ [Next]_vars => F!Next \/ UNCHANGED Feeds
<1> SUFFICES ASSUME IInv, [Next]_vars PROVE F!Next \/ UNCHANGED Feeds
  OBVIOUS
<1> DEFINE Goal == F!Next \/ UNCHANGED Feeds
<1>a. Types /\ Registered
  BY DEF IInv
<1>b. ASSUME NEW c \in Clients, F!Subscribe(c) \/ F!Cut(c) \/ F!Deliver(c) PROVE Goal
  BY <1>b DEF F!Next
<1>c. ASSUME NEW c \in Clients, c \in clients => c \notin clients' /\ closer'[c] # "none", Elsewhere(c),
             c \notin clients => c \notin clients',
             UNCHANGED history, \A d \in Clients : closer'[d] = "none" <=> closer[d] = "none",
             clients' \subseteq Clients
      PROVE  Goal
  <2>1. CASE c \in clients
    <3>1. F!Cut(c)
      BY <1>c, <2>1, FeedCut DEF Elsewhere
    <3> QED
      BY <1>b, <3>1
  <2>2. CASE c \notin clients
    <3>1. clients \subseteq Clients /\ clients' \subseteq Clients /\ c \notin clients'
      BY <1>a, <1>c, <2>2 DEF Types
    <3>2. \A d \in Clients : d \in clients' <=> d \in clients
      BY <1>c, <2>2, <3>1 DEF Elsewhere
    <3>3. clients' = clients
      BY <3>1, <3>2
    <3> QED
      BY <1>c, <3>3, FeedStutters
  <2> QED
    BY <2>1, <2>2
<1>1. ASSUME NEW c \in Clients, Upgrade(c) PROVE Goal
  <2>1. CASE Admitted
    BY <1>1, <1>b, <2>1, FeedSubscribe
  <2>2. CASE ~Admitted
    BY <1>1, <2>2, FeedStutters DEF Upgrade, history
  <2> QED
    BY <2>1, <2>2
<1>2. ASSUME NEW c \in Clients, ReadPing(c) PROVE Goal
  <2>1. SendTo(c, Pong) /\ UNCHANGED history /\ UNCHANGED closer
    BY <1>2 DEF ReadPing, notConn, connVars, history
  <2>2. CASE c \in clients'
    <3>1. clients' = clients
      BY <1>a, <2>1, <2>2, SendToEach DEF Elsewhere, Types
    <3> QED
      BY <2>1, <3>1, FeedStutters
  <2>3. CASE c \notin clients'
    <3>1. c \in clients => closer'[c] # "none"
      BY <1>a, <2>1 DEF Registered
    <3>2. Elsewhere(c) /\ clients' \subseteq Clients
      BY <1>a, <2>1, SendToEach DEF Types
    <3> QED
      BY <1>c, <2>1, <2>3, <3>1, <3>2
  <2> QED
    BY <2>2, <2>3
<1>3. ASSUME NEW c \in Clients, PumpWrite(c) PROVE Goal
  <2>1. pump[c] = "write" /\ UNCHANGED <<log, from, clients, closer>>
    BY <1>3 DEF PumpWrite, notConn, hubVars
  <2>2. CASE got' = got
    BY <2>1, <2>2, FeedStutters DEF history
  <2>3. CASE held[c] # Pong /\ got' = [got EXCEPT ![c] = Append(got[c], held[c])]
    BY <1>b, <2>1, <2>3, FeedDeliver
  <2> QED
    BY <1>3, <2>2, <2>3 DEF PumpWrite
<1>4. ASSUME NEW c \in Clients, Return(c) PROVE Goal
  <2>1. UNCHANGED history /\ closer[c] = "done" /\ closer' = [closer EXCEPT ![c] = "returned"]
    BY <1>4 DEF Return
  <2>2. \A d \in Clients : closer'[d] = "none" <=> closer[d] = "none"
    BY <1>a, <2>1 DEF Types
  <2>3. Elsewhere(c) /\ c \notin clients' /\ clients' \subseteq Clients /\ closer'[c] # "none"
    BY <1>4, <1>a, <2>1, ReturnEach DEF Types
  <2> QED
    BY <1>c, <2>1, <2>2, <2>3
<1>5. ASSUME NEW e \in Events, Handle(e) \/ Publish(e) PROVE Goal
  <2>1. UNCHANGED <<closer, from, got>>
    BY <1>5 DEF Handle, Publish, notEvent, connVars
  <2>2. CASE Broadcast(e) /\ log' = Append(log, e)
    BY <2>1, <2>2, FeedPublish DEF F!Next
  <2>3. CASE UNCHANGED <<clients, log>>
    BY <2>1, <2>3, FeedStutters DEF history
  <2> QED
    BY <1>5, <2>2, <2>3 DEF Handle, Publish, hubVars
<1>6. ASSUME NEW c \in Clients, CloseOnCancel(c) PROVE Goal
  <2>1. /\ closer[c] = "run" /\ closer' = [closer EXCEPT ![c] = "done"] /\ clients' = clients
        /\ UNCHANGED history
    BY <1>6 DEF CloseOnCancel, notConn, hubVars, history
  <2>2. \A d \in Clients : closer'[d] = "none" <=> closer[d] = "none"
    BY <1>a, <2>1 DEF Types
  <2> QED
    BY <2>1, <2>2, FeedStutters
<1>7. ASSUME NEW c \in Clients,
             ReadEnds(c) \/ PumpTake(c) \/ PumpEnd(c) \/ CancelRequest(c) \/ CloseDropped(c) \/ PeerLeaves(c)
      PROVE  Goal
  <2>1. clients' = clients /\ closer' = closer /\ UNCHANGED history
    BY <1>7 DEF ReadEnds, PumpTake, PumpEnd, CancelRequest, CloseDropped, PeerLeaves, notConn, hubVars,
                connVars, history
  <2> QED
    BY <2>1, FeedStutters
<1>8. ASSUME NEW e \in Events, Change(e) PROVE Goal
  <2>1. clients' = clients /\ closer' = closer /\ UNCHANGED history
    BY <1>8 DEF Change, notEvent, hubVars, connVars, history
  <2> QED
    BY <2>1, FeedStutters
<1>9. CASE MarkReady \/ Shutdown \/ Stopped \/ UNCHANGED vars
  <2>1. clients' = clients /\ closer' = closer /\ UNCHANGED history
    BY <1>9 DEF MarkReady, Shutdown, Stopped, vars, hubVars, connVars
  <2> QED
    BY <2>1, FeedStutters
<1> QED
  BY <1>1, <1>2, <1>3, <1>4, <1>5, <1>6, <1>7, <1>8, <1>9 DEF Next, Request

\* The hub implements the feed: whatever the speed of a browser's pump, the frames it is sent
\* are those published since it was registered, in their order and without a gap.
THEOREM HubImplementsFeed == Spec => FeedImplemented
<1>1. Init => F!Init
  <2> SUFFICES ASSUME Init PROVE F!Init
    OBVIOUS
  <2>1. \A c \in Clients : Subscription(c) = "none"
    BY DEF Init, Subscription
  <2> QED
    BY <2>1 DEF Init, F!Init
<1>2. IInv /\ [Next]_vars => F!Next \/ UNCHANGED Feeds
  BY FeedStep
<1>3. Spec => []IInv
  BY Invariance
<1> QED
  BY <1>1, <1>2, <1>3, PTL DEF Spec, FeedImplemented, F!Spec, F!vars, Feeds, Subs
==============================================================================
