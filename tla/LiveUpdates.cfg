CONSTANTS
  Clients = {c1, c2}
  MaxClients = 1
  Buffer = 1
  MaxEvents = 2
  MaxPings = 1
SPECIFICATION Spec
INVARIANTS TypeOK 
PROPERTIES FeedImplemented RequestEnds
