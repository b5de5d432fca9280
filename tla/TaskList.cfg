CONSTANTS
  t1 = t1
  t2 = t2
  Tasks = {t1, t2}
  BlockedBy <- Blocked
  LiveSets <- OneLive
  InitialPages = {"open", "absent"}
  Readers = {r1, r2}
  Writers = {w1}
  Handlers = {h1}
  None = None
  MaxChangeLog = 2
  MaxRevision = 4
  MaxGeneration = 1
  MaxWrites = 1
  MaxFaults = 1
SPECIFICATION FairSpec
INVARIANTS
  TypeOK
  
  WrittenBlockersCurrent
PROPERTIES
  ListReturns
CHECK_DEADLOCK FALSE
