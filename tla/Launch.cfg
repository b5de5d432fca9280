CONSTANTS
  None = None
  MaxRuns = 2
  Takers = {t1}
  Cap = 1
  Polls = 2
  Stable = 1
  MaxFaults = 1
  MaxActive = 2
  Transcripts = {1}
SPECIFICATION Spec
INVARIANTS TypeOK MarkerRestored VerdictHonest
PROPERTIES MarkerConverges
