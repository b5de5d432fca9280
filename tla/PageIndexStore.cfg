CONSTANTS
  Files = {f1}
  Readers = {}
  Refreshers = {u1}
  Watchers = {w1}
  Writers = {}
  None = None
  UseStore = TRUE
  MaxChangeLog = 2
  FolderMarks = FALSE
  FaultKinds = {"load", "persist", "list"}
  EditStates = {"page", "gone"}
  MaxVersion = 3
  MaxRequests = 2
  MaxEvents = 2
  MaxFaults = 1
  MaxCrashes = 1
SPECIFICATION Spec
SYMMETRY Symmetry
INVARIANTS
  EventVisible
  FingerprintHonest
CHECK_DEADLOCK FALSE
