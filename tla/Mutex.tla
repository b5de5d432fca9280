------------------------------- MODULE Mutex -------------------------------
(***************************************************************************)
(* What the session-lock registry promises its callers (the Registry       *)
(* interface of pkg/sessionlock): per key, one caller at a time between    *)
(* the return of Lock and the call of the release function it returned.    *)
(***************************************************************************)
CONSTANTS Callers, Keys, None
VARIABLE inside       \* the key whose critical section each caller is in

Init == inside = [c \in Callers |-> None]

Enter(c, k) ==
  /\ inside[c] = None
  /\ \A d \in Callers : inside[d] # k
  /\ inside' = [inside EXCEPT ![c] = k]

Leave(c) ==
  /\ inside[c] # None
  /\ inside' = [inside EXCEPT ![c] = None]

Next == \E c \in Callers : Leave(c) \/ \E k \in Keys : Enter(c, k)

Spec == Init /\ [][Next]_inside
=============================================================================
