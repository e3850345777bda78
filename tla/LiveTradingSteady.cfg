SPECIFICATION Spec
CONSTANTS
  Markets <- MCTwoMarkets
  Funds = 2
  MaxOrders = 3
  MaxCandles = 2
  MaxLost = 2
  MaxGiveUps = 1
  MaxDbFailures = 0
  MaxCrashes = 0
INVARIANTS OneCallAtATime BooksAgree
PROPERTIES BookedFillWasMissing
