SPECIFICATION Spec
CONSTANTS
  Equities <- MCEquities
  DailyLossPct = 10
  MaxLosses = 2
  MaxDays = 2
  MaxTrips = 3
  MaxFlows = 1
  MaxCrashes = 1
  Faults = {"late_sale"}
INVARIANTS HaltStays
