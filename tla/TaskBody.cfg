CONSTANTS
  v1 = v1
  Vaults = {v1}
  Queries <- TwoWindows
  RowValues <- TwoRows
  Readers = {r1, r2}
  LookbackHours = 1
  MaxEntries = 1
  MaxTime = 2
  MaxChanges = 1
  MaxFaults = 1
SPECIFICATION Spec
SYMMETRY Symmetry
INVARIANTS
  TypeOK
  HeldBodyCurrent
  ServedDuringCall
