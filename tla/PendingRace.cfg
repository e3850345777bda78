SPECIFICATION Spec
CONSTANTS
  Markets <- MCMarkets
  Funds = 2
  MaxOrders = 3
  MaxCandles = 2
  MaxLost = 1
  MaxGiveUps = 0
  MaxDbFailures = 0
  MaxCrashes = 0
PROPERTIES NoOrderWhilePending
