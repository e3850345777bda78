SPECIFICATION FairSpec
CONSTANTS
  Backtests = {"b1", "b2"}
  Searches = {"s1"}
  Callers = {"b1", "b2", "s1"}
  Keys = {"k1", "k2"}
  Wants <- WantsDef
  Verified <- VerifiedDef
  Held <- HeldDef
  First <- FirstDef
  Last <- LastDef
  PageSize = 2
  MaxRequests = 2
  MaxJobs = 1
  KeepJobs = 2
  MaxSubmits = 2
  MaxAsks = 1
  MaxRestarts = 1
  Limit = 1
  Per = 2
  Penalty = 2
  BlockedCooldown = 3
  BaseDelay = 1
  MaxDelay = 2
  MaxRetries = 1
  MaxTroubles = 1
INVARIANTS RecordsTrue FramesComplete
PROPERTIES LimitsKept JobEnds
CHECK_DEADLOCK FALSE
