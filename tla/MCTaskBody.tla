---------------------------- MODULE MCTaskBody ----------------------------
(* TaskBody for TLC. *)
EXTENDS TaskBody, TLC

CONSTANT v1

\* Goroutines are interchangeable.
Symmetry == Permutations(Readers)

\* Two queries of one vault that look ahead differently.
TwoWindows == {[vaults |-> {v1}, upcoming |-> h] : h \in 0 .. 1}

\* A row that comes into view and falls due, and one that ages out.
TwoRows == {[kind |-> "deferred", at |-> 2], [kind |-> "completed", at |-> 0]}
=============================================================================
