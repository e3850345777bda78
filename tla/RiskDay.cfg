SPECIFICATION Spec
CONSTANTS
  Equities <- MCEquities
  DailyLossPct = 10
  MaxLosses = 2
  MaxDays = 2
  MaxTrips = 3
  MaxFlows = 2
  MaxCrashes = 1
  Faults = {}
INVARIANTS HaltStays LossesMatchTrips DayStartKept FlowsCountedOnce
PROPERTIES NoEntryWhenClosed
