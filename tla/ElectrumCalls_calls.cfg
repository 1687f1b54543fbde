SPECIFICATION Spec
CONSTANTS
  Servers = 2
  Retries = 2
  Rounds = 2
  Floor = 1
  MaxRelay = 2
  Ttl = 1
  IsDefault = FALSE
  MaxHistory = 3
  MaxSpoiled = 2
INVARIANT OneSocket
INVARIANT BroadcastOnce
INVARIANT UnspentTrue
INVARIANT FeeEnough
PROPERTY CallsEnd
