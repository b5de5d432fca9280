-------------------------------- MODULE Feed --------------------------------
(***************************************************************************)
(* What the websocket hub promises a browser: from the moment it is        *)
(* subscribed it is sent the published frames in their order and without a *)
(* gap, until it is cut off.  Nothing is promised about how far it gets,   *)
(* and a frame published while it was away is never replayed.              *)
(***************************************************************************)
EXTENDS Naturals, Sequences

CONSTANTS Subscribers, Frames

VARIABLES log,          \* the frames in the order they were published
          sub,          \* per subscriber: "none", "on" or "off"
          from,         \* per subscriber: the length of the log when it was subscribed
          got           \* per subscriber: what it was sent

vars == <<log, sub, from, got>>

Init ==
  /\ log = <<>>
  /\ sub = [c \in Subscribers |-> "none"]
  /\ from = [c \in Subscribers |-> 0]
  /\ got = [c \in Subscribers |-> <<>>]

CutOff(cut) == [c \in Subscribers |-> IF c \in cut THEN "off" ELSE sub[c]]

\* A frame is published; a subscriber that is too far behind is cut off rather than skipped.
Publish ==
  /\ \E f \in Frames : log' = Append(log, f)
  /\ \E cut \in SUBSET {c \in Subscribers : sub[c] = "on"} : sub' = CutOff(cut)
  /\ UNCHANGED <<from, got>>

Subscribe(c) ==
  /\ sub[c] = "none"
  /\ sub' = [sub EXCEPT ![c] = "on"] /\ from' = [from EXCEPT ![c] = Len(log)]
  /\ UNCHANGED <<log, got>>

Cut(c) ==
  /\ sub[c] = "on"
  /\ sub' = CutOff({c})
  /\ UNCHANGED <<log, from, got>>

\* The next frame of the log, and no other; one that was cut off may be sent what it is owed.
Deliver(c) ==
  LET next == from[c] + Len(got[c]) + 1
  IN /\ sub[c] # "none" /\ next <= Len(log)
     /\ got' = [got EXCEPT ![c] = Append(@, log[next])]
     /\ UNCHANGED <<log, sub, from>>

Next == Publish \/ \E c \in Subscribers : Subscribe(c) \/ Cut(c) \/ Deliver(c)

Spec == Init /\ [][Next]_vars
=============================================================================
