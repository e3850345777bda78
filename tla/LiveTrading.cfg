SPECIFICATION FairSpec
CONSTANTS
  Markets <- MCMarkets
  Funds = 2
  MaxOrders = 2
  MaxCandles = 2
  MaxLost = 1
  MaxGiveUps = 1
  MaxDbFailures = 1
  MaxCrashes = 1
INVARIANTS OneOrderPerSignal PendingIsRecorded
PROPERTIES BooksHeal KeepsPromise
