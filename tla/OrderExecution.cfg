SPECIFICATION Spec
CONSTANTS
  ClientIds <- MCClientIds
  Buys <- MCBuys
  NoClient = NoClient
  Size = 2
  MaxAttempts = 2
  LookupAttempts = 2
  MaxPolls = 1
  TradesLookups = 1
  MaxSubmits = 2
  Faults = {}
INVARIANTS TypeOK PlacedIsGuarded BookedOnce SettledIsTrue PlacedIsOnRecord
PROPERTIES KeepsPromise
CHECK_DEADLOCK FALSE
