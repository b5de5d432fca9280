---------------------------- MODULE MCPageIndex ----------------------------
(* PageIndex for TLC.  Files, goroutines and None are model values; the cfg files *)
(* choose which kinds of goroutines, faults and edits a run has.                  *)
EXTENDS PageIndex, TLC

\* Files are interchangeable, and so are the goroutines that make the same call.
Symmetry == Permutations(Files) \cup Permutations(Readers) \cup Permutations(Refreshers)
            \cup Permutations(Watchers)
=============================================================================
