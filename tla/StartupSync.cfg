SPECIFICATION Spec
CONSTANTS
  Markets <- MCMarkets
  Funds = 2
  MaxOrders = 1
  MaxCandles = 1
  MaxLost = 1
  MaxGiveUps = 0
  MaxDbFailures = 0
  MaxCrashes = 1
PROPERTIES BookedFillWasMissing
