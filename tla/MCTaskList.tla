---------------------------- MODULE MCTaskList ----------------------------
(* TaskList for TLC: a task that blocks another one. *)
EXTENDS TaskList

CONSTANTS t1, t2

\* t2 is blocked by t1.
Blocked == [t \in Tasks |-> IF t = t2 THEN {t1} ELSE {}]

\* A scan finds t2's session alive.
OneLive == {{t2}}
=============================================================================
