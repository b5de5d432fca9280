CONSTANTS
  Readers = {r1}
  None = None
  MaxChanges = 1
  MaxFaults = 1
SPECIFICATION Spec
INVARIANTS ListingSound 
PROPERTIES BadgeSettles
