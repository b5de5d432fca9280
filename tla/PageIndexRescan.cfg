CONSTANTS
  Files = {f1}
  Readers = {r1}
  Refreshers = {u1}
  Watchers = {}
  Writers = {m1}
  None = None
  UseStore = FALSE
  MaxChangeLog = 2
  FolderMarks = FALSE
  FaultKinds = {"read"}
  EditStates = {"page"}
  MaxVersion = 2
  MaxRequests = 2
  MaxEvents = 0
  MaxFaults = 1
  MaxCrashes = 0
SPECIFICATION FairSpec
INVARIANTS
  SingleFlight
  
PROPERTIES
  CallsReturn
