CONSTANTS
  Files = {f1, f2}
  Readers = {}
  Refreshers = {u1}
  Watchers = {w1}
  Writers = {}
  None = None
  UseStore = FALSE
  MaxChangeLog = 2
  FolderMarks = FALSE
  FaultKinds = {}
  EditStates = {"page", "broken", "gone"}
  MaxVersion = 2
  MaxRequests = 2
  MaxEvents = 1
  MaxFaults = 0
  MaxCrashes = 0
SPECIFICATION Spec
SYMMETRY Symmetry
INVARIANTS
  FingerprintHonest
PROPERTIES
  ChangeAttributed
CHECK_DEADLOCK FALSE
