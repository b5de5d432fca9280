CONSTANTS
  Files = {f1}
  Readers = {r1, r2}
  Refreshers = {}
  Watchers = {}
  Writers = {m1}
  None = None
  UseStore = FALSE
  MaxChangeLog = 2
  FolderMarks = TRUE
  FaultKinds = {}
  EditStates = {"page"}
  MaxVersion = 2
  MaxRequests = 2
  MaxEvents = 0
  MaxFaults = 0
  MaxCrashes = 0
SPECIFICATION Spec
SYMMETRY Symmetry
INVARIANTS
  TypeOK
  
  
