SPECIFICATION Spec
CONSTANTS
  ClientIds <- MCClientIds
  Buys <- MCBuys
  NoClient = NoClient
  Size = 1
  MaxAttempts = 2
  LookupAttempts = 2
  MaxPolls = 1
  TradesLookups = 1
  MaxSubmits = 1
  Faults = {}
INVARIANTS SettledIsFinal
CHECK_DEADLOCK FALSE
