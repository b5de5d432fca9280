---------------------------- MODULE MCWriteQueue ----------------------------
(* WriteQueue for TLC: the vaults of WriteQueue.cfg are model values, one of which *)
(* may have a write that never returns, so they are not interchangeable.           *)
EXTENDS WriteQueue
=============================================================================
