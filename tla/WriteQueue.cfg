CONSTANTS
  Vaults = {v1, v2}
  Hung = {v1}
  MaxWrites = 3
SPECIFICATION FairSpec
INVARIANTS
  DoneTracksIdle
  OneConsumer
  AppliedInOrder
  ReturnedMeansStopped
PROPERTIES
  WritesApplied
  ConsumeReturns
CHECK_DEADLOCK FALSE
