CONSTANTS
  None = None
  MaxRuns = 1
  Takers = {t1}
  Cap = 1
  Polls = 2
  Stable = 1
  MaxFaults = 1
  MaxActive = 2
  Transcripts = {}
SPECIFICATION Spec
PROPERTIES MarkerSettles
