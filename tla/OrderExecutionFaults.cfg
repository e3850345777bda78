SPECIFICATION FairSpec
CONSTANTS
  ClientIds <- MCClientIds
  Buys <- MCBuys
  NoClient = NoClient
  Size = 1
  MaxAttempts = 2
  LookupAttempts = 2
  MaxPolls = 1
  TradesLookups = 1
  MaxSubmits = 1
  Faults = {"late_request", "server_error", "garbled", "position_gone"}
INVARIANTS AtMostOneOrder OrderKeepsItsHandle
PROPERTIES UnknownIsResolved
CHECK_DEADLOCK FALSE
