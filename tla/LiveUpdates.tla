----------------------------- MODULE LiveUpdates -----------------------------
(***************************************************************************)
(* The way of a change to the browsers: the watch handler                  *)
(* (pkg/watchrefresh), which refreshes the index and the status cache and  *)
(* then publishes, the mutation publisher, and the websocket hub           *)
(* (pkg/websocket) with its bounded queues and the three goroutines of     *)
(* each /ws request (pkg/handler).  The hub's mutex makes each of its      *)
(* operations one step; sockets are closed outside it.                     *)
(***************************************************************************)
EXTENDS Integers, Sequences, FiniteSets, SequencesExt

CONSTANTS Clients,      \* /ws requests; a browser that comes back is a new one
          MaxClients,   \* the manager's max
          Buffer,       \* the manager's buffer, the depth of a client's queue
          MaxEvents,    \* bound: changes published, numbered as they happen
          MaxPings      \* bound: pings

ASSUME HubAssumption ==
  /\ MaxClients \in Nat \ {0} /\ Buffer \in Nat \ {0}
  /\ MaxEvents \in Nat /\ MaxPings \in Nat

Events == 1..MaxEvents
Pong == 0

VARIABLES
  ready, stopping,      \* Readiness: vaults are discovered; the service is shutting down
  page, index, status,  \* versions of a page: the file's, the page index's, the status cache's
  event,                \* per event: its handler's step
  clients,              \* the manager's registered clients
  send,                 \* per client: its queue
  closed,               \* per client: how often its queue was closed
  unclosed,             \* dropped clients whose socket the broadcaster has yet to close
  conn,                 \* per client: the socket: "none", "open" or "closed"
  peer,                 \* per client: the browser is there
  read, pump, closer,   \* per client: its goroutines
  held,                 \* per client: the frame its pump is writing
  cancelled,            \* per client: the context of the three
  pings,
  log, from, got        \* history: frames published; how many before it; what it was sent

pageVars == <<page, index, status>>
hubVars == <<clients, send, closed, unclosed>>
connVars == <<read, pump, closer, held, cancelled>>
history == <<log, from, got>>
vars == <<ready, stopping, pageVars, event, hubVars, conn, peer, connVars, pings, history>>

Init ==
  /\ ready = FALSE /\ stopping = FALSE
  /\ page = 0 /\ index = 0 /\ status = 0
  /\ event = [e \in Events |-> "none"]
  /\ clients = {} /\ unclosed = {}
  /\ send = [c \in Clients |-> <<>>] /\ closed = [c \in Clients |-> 0]
  /\ conn = [c \in Clients |-> "none"] /\ peer = [c \in Clients |-> TRUE]
  /\ read = [c \in Clients |-> "none"] /\ pump = read /\ closer = read
  /\ held = [c \in Clients |-> Pong] /\ cancelled = [c \in Clients |-> FALSE]
  /\ pings = 0
  /\ log = <<>> /\ from = [c \in Clients |-> 0] /\ got = [c \in Clients |-> <<>>]

-----------------------------------------------------------------------------
(* The connection manager *)

\* Every client of the set leaves the registry and has its queue closed.
Deregister(gone) ==
  /\ clients' = clients \ gone
  /\ closed' = [c \in Clients |-> IF c \in gone THEN closed[c] + 1 ELSE closed[c]]

Full(c) == Len(send[c]) >= Buffer

\* Mutant: a client that is too slow misses the frame.
BroadcastSkips(e) ==
  /\ send' = [c \in Clients |-> IF c \in clients /\ ~Full(c) THEN Append(send[c], e) ELSE send[c]]
  /\ UNCHANGED <<clients, closed, unclosed>>

\* A frame for every client; one whose queue is full is dropped.
Broadcast(e) ==
  LET dropped == {c \in clients : Full(c)}
  IN /\ send' = [c \in Clients |-> IF c \in clients \ dropped THEN Append(send[c], e) ELSE send[c]]
     /\ Deregister(dropped) /\ unclosed' = unclosed \cup dropped

\* Send: a frame for one client, if it is still registered.
SendTo(c, f) ==
  CASE c \notin clients -> UNCHANGED hubVars
    [] c \in clients /\ ~Full(c) ->
         send' = [send EXCEPT ![c] = Append(@, f)] /\ UNCHANGED <<clients, closed, unclosed>>
    [] OTHER -> Deregister({c}) /\ unclosed' = unclosed \cup {c} /\ UNCHANGED send

\* Mutant: the queue is closed whether or not the client is registered.
DisconnectUnchecked(c) ==
  Deregister({c}) /\ conn' = [conn EXCEPT ![c] = "closed"]

Disconnect(c) ==
  IF c \in clients THEN Deregister({c}) /\ conn' = [conn EXCEPT ![c] = "closed"]
  ELSE UNCHANGED <<clients, closed, conn>>

\* The socket of a dropped client is closed after the manager's lock is released.
CloseDropped(c) ==
  /\ c \in unclosed
  /\ unclosed' = unclosed \ {c} /\ conn' = [conn EXCEPT ![c] = "closed"]
  /\ UNCHANGED <<ready, stopping, pageVars, event, clients, send, closed, peer, connVars, pings, history>>

-----------------------------------------------------------------------------
(* The /ws handler *)

\* Mutant: the cap is not looked at.
AdmittedAlways == ready

Admitted == ready /\ Cardinality(clients) < MaxClients

\* The upgraded socket is registered, or closed with a code.
Upgrade(c) ==
  /\ conn[c] = "none"
  /\ IF Admitted
     THEN /\ conn' = [conn EXCEPT ![c] = "open"]
          /\ clients' = clients \cup {c}
          /\ from' = [from EXCEPT ![c] = Len(log)]
          /\ read' = [read EXCEPT ![c] = "run"] /\ pump' = [pump EXCEPT ![c] = "run"]
          /\ closer' = [closer EXCEPT ![c] = "run"]
     ELSE /\ conn' = [conn EXCEPT ![c] = "closed"]
          /\ UNCHANGED <<clients, from, read, pump, closer>>
  /\ UNCHANGED <<ready, stopping, pageVars, event, send, closed, unclosed, peer, held, cancelled, pings, log, got>>

notConn == <<ready, stopping, pageVars, event, peer, log, from>>

\* readLoop: a ping is answered through the queue ...
ReadPing(c) ==
  /\ read[c] = "run" /\ conn[c] = "open" /\ peer[c] /\ pings < MaxPings
  /\ pings' = pings + 1
  /\ SendTo(c, Pong)
  /\ UNCHANGED <<notConn, conn, connVars, got>>

\* ... and an error ends it.
ReadEnds(c) ==
  /\ read[c] = "run" /\ (conn[c] = "closed" \/ ~peer[c])
  /\ read' = [read EXCEPT ![c] = "done"] /\ cancelled' = [cancelled EXCEPT ![c] = TRUE]
  /\ UNCHANGED <<notConn, hubVars, conn, pump, closer, held, pings, got>>

\* Pump: takes a frame and writes it, until the queue is closed, the context is cancelled or
\* a write fails.  A closed queue still yields what it holds.
PumpTake(c) ==
  /\ pump[c] = "run" /\ send[c] # <<>>
  /\ pump' = [pump EXCEPT ![c] = "write"] /\ held' = [held EXCEPT ![c] = Head(send[c])]
  /\ send' = [send EXCEPT ![c] = Tail(@)]
  /\ UNCHANGED <<notConn, clients, closed, unclosed, conn, read, closer, cancelled, pings, got>>

PumpWrite(c) ==
  /\ pump[c] = "write"
  /\ \/ /\ conn[c] = "open" /\ peer[c] /\ pump' = [pump EXCEPT ![c] = "run"]
        /\ got' = IF held[c] = Pong THEN got ELSE [got EXCEPT ![c] = Append(@, held[c])]
        /\ UNCHANGED cancelled
     \/ /\ pump' = [pump EXCEPT ![c] = "done"]          \* a write error, or its deadline
        /\ cancelled' = [cancelled EXCEPT ![c] = TRUE] /\ UNCHANGED got
  /\ held' = [held EXCEPT ![c] = Pong]
  /\ UNCHANGED <<notConn, hubVars, conn, read, closer, pings>>

PumpEnd(c) ==
  /\ pump[c] = "run" /\ (cancelled[c] \/ (c \notin clients /\ send[c] = <<>>))
  /\ pump' = [pump EXCEPT ![c] = "done"] /\ cancelled' = [cancelled EXCEPT ![c] = TRUE]
  /\ UNCHANGED <<notConn, hubVars, conn, read, closer, held, pings, got>>

\* Mutant: the socket stays open when the context is cancelled.
CloseOnCancelIdle(c) ==
  /\ closer[c] = "run" /\ cancelled[c]
  /\ closer' = [closer EXCEPT ![c] = "done"]
  /\ UNCHANGED <<notConn, hubVars, conn, read, pump, held, cancelled, pings, got>>

\* closeOnCancel
CloseOnCancel(c) ==
  /\ closer[c] = "run" /\ cancelled[c]
  /\ closer' = [closer EXCEPT ![c] = "done"] /\ conn' = [conn EXCEPT ![c] = "closed"]
  /\ UNCHANGED <<notConn, hubVars, read, pump, held, cancelled, pings, got>>

\* The request returns when all three have, and disconnects its client, of which nothing is left.
Return(c) ==
  /\ read[c] = "done" /\ pump[c] = "done" /\ closer[c] = "done"
  /\ Disconnect(c)
  /\ closer' = [closer EXCEPT ![c] = "returned"]
  /\ send' = [send EXCEPT ![c] = <<>>] /\ cancelled' = [cancelled EXCEPT ![c] = FALSE]
  /\ peer' = [peer EXCEPT ![c] = TRUE]
  /\ UNCHANGED <<ready, stopping, pageVars, event, unclosed, read, pump, held, pings, history>>

-----------------------------------------------------------------------------
(* What is published *)

notEvent == <<ready, stopping, conn, peer, connVars, pings, from, got>>

\* Mutant: the frame goes out first.
HandleFrameFirst(e) ==
  /\ \/ /\ event[e] = "refresh" /\ event' = [event EXCEPT ![e] = "invalidate"]
        /\ Broadcast(e) /\ log' = Append(log, e) /\ UNCHANGED pageVars
     \/ /\ event[e] = "invalidate" /\ event' = [event EXCEPT ![e] = "done"]
        /\ index' = page /\ status' = page /\ UNCHANGED <<page, hubVars, log>>
  /\ UNCHANGED notEvent

\* The watch handler of an event: refresh, invalidate, publish.  A refresh fails at shutdown
\* only, and then there is no frame.
Handle(e) ==
  /\ \/ /\ event[e] = "refresh" /\ event' = [event EXCEPT ![e] = "invalidate"]
        /\ index' = page /\ UNCHANGED <<page, status, hubVars, log>>
     \/ /\ event[e] = "refresh" /\ stopping /\ event' = [event EXCEPT ![e] = "dropped"]
        /\ UNCHANGED <<pageVars, hubVars, log>>
     \/ /\ event[e] = "invalidate" /\ event' = [event EXCEPT ![e] = "publish"]
        /\ status' = page /\ UNCHANGED <<page, index, hubVars, log>>
     \/ /\ event[e] = "publish" /\ event' = [event EXCEPT ![e] = "done"]
        /\ Broadcast(e) /\ log' = Append(log, e) /\ UNCHANGED pageVars
  /\ UNCHANGED notEvent

NextEvent(e) == event[e] = "none" /\ \A q \in 1..(e - 1) : event[q] # "none"

\* A page changes and its event arrives; the handlers of one page may run concurrently.
Change(e) ==
  /\ NextEvent(e)
  /\ page' = e /\ event' = [event EXCEPT ![e] = "refresh"]
  /\ UNCHANGED <<index, status, notEvent, hubVars, log>>

\* The mutation publisher, the session-state watcher and the events of pages outside the
\* index publish at once.
Publish(e) ==
  /\ NextEvent(e)
  /\ event' = [event EXCEPT ![e] = "pushed"]
  /\ Broadcast(e) /\ log' = Append(log, e)
  /\ UNCHANGED <<pageVars, notEvent>>

-----------------------------------------------------------------------------
(* The world around *)

MarkReady ==
  /\ ~ready /\ ready' = TRUE
  /\ UNCHANGED <<stopping, pageVars, event, hubVars, conn, peer, connVars, pings, history>>

\* The browser goes away without a word, or stays and reads nothing more (a write then runs
\* into its deadline).
PeerLeaves(c) ==
  /\ conn[c] = "open" /\ peer[c]
  /\ peer' = [peer EXCEPT ![c] = FALSE]
  /\ UNCHANGED <<ready, stopping, pageVars, event, hubVars, conn, connVars, pings, history>>

Shutdown ==
  /\ ~stopping /\ stopping' = TRUE
  /\ UNCHANGED <<ready, pageVars, event, hubVars, conn, peer, connVars, pings, history>>

\* Shutdown cancels the requests' contexts.
CancelRequest(c) ==
  /\ stopping /\ closer[c] = "run" /\ ~cancelled[c]
  /\ cancelled' = [cancelled EXCEPT ![c] = TRUE]
  /\ UNCHANGED <<notConn, hubVars, conn, read, pump, closer, held, pings, got>>

\* The service has stopped.
Stopped ==
  /\ stopping /\ \A c \in Clients : closer[c] \in {"none", "returned"}
  /\ UNCHANGED vars

Request(c) ==
  \/ ReadEnds(c) \/ PumpTake(c) \/ PumpWrite(c) \/ PumpEnd(c)
  \/ CloseOnCancel(c) \/ Return(c) \/ CancelRequest(c) \/ CloseDropped(c)

Next ==
  \/ \E c \in Clients : Upgrade(c) \/ ReadPing(c) \/ Request(c) \/ PeerLeaves(c)
  \/ \E e \in Events : Handle(e) \/ Change(e) \/ Publish(e)
  \/ MarkReady \/ Shutdown \/ Stopped

\* The goroutines of a request run, and a write ends, by its deadline if not before; fairness
\* for them together is less than the scheduler gives and is enough.  Browsers owe nothing.
Fairness == \A c \in Clients : WF_vars(Request(c))

Spec == Init /\ [][Next]_vars /\ Fairness

-----------------------------------------------------------------------------
(* Properties *)

\* The cap and the queue bound hold, and a queue is closed exactly when its client leaves the
\* registry: once, although a broadcaster that drops it and its own request both try to.
TypeOK ==
  /\ clients \subseteq Clients /\ Cardinality(clients) <= MaxClients
  /\ \A c \in Clients : /\ Len(send[c]) <= Buffer /\ ToSet(send[c]) \subseteq Events \cup {Pong}
                        /\ closed[c] = IF closer[c] # "none" /\ c \notin clients THEN 1 ELSE 0
  /\ {page, index, status} \subseteq 0..MaxEvents

\* The frames that are on their way to a client or were sent to it.
FramesOf(c) == ToSet(got[c]) \cup ToSet(send[c]) \cup {held[c]}

\* A browser that reads the board on a frame finds the change: index and status cache have
\* it before any client can have the frame, whatever other handlers of the page run.
FrameAfterRefresh ==
  \A c \in Clients : \A e \in FramesOf(c) :
    e # Pong /\ event[e] # "pushed" => e <= index /\ e <= status

Subscription(c) == IF closer[c] = "none" THEN "none" ELSE IF c \in clients THEN "on" ELSE "off"

F == INSTANCE Feed WITH Subscribers <- Clients, Frames <- Events,
       sub <- [c \in Clients |-> Subscription(c)]

\* The hub implements a feed without gaps: a client that falls behind is dropped, never
\* skipped, and its frames come in the order in which they were broadcast.
FeedImplemented == F!Spec

\* A request ends after its client was dropped, its browser has gone, a write has failed or
\* the service shuts down: no goroutine waits for another for ever, and the socket is closed.
RequestEnds ==
  \A c \in Clients :
    (closer[c] = "run" /\ (c \notin clients \/ ~peer[c] \/ cancelled[c] \/ stopping))
      ~> (closer[c] = "returned" /\ c \notin clients /\ conn[c] = "closed")
=============================================================================
