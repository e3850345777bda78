SPECIFICATION PartsSpec
CONSTANTS
  Interval = 3
  Grace = 1
  Warmup = 1
  Refresh = 2
  MaxRows = 5
  MaxTime = 14
  MaxLag = 2
  MaxLate = 2
  MaxMissing = 1
  MaxTroubles = 2
  MaxRestarts = 1
  MaxEvents = 6
  Priority = {1, 5}
  Unlabelled = {3}
  Key <- KeyDef
  Channels = 2
  Retries = 1
  MaxQueue = 2
  Cooldown = 2
  InitialCash = 20000
  Parts = 100
  FeeParts = 1
  MinOrder = 10000
  Prices = {7, 10}
  Quantities = {1, 2, 3}
  Fees = {0, 5}
  MaxFills = 4
  Candles <- CandlesDef
  Count = 5
  Slips = 10
  SlipParts = 1
  FractionPct = 90
  MaxOrder = 18000
  RatioPct = 80
  StopPct = 20
  TargetPct = 10
  TrailPct = 5
  CooldownCandles = 2
  Bars <- BarsDef
  ParamsOf <- ParamsDef
  MaxBars = 6
  BaseDelay = 1
  LongestDelay = 2
  BaseBackoff = 1
  LongestBackoff = 2
  RecvTimeout = 2
  MaxAge = 1
  BookAge = 1
  Alert = 2
  MaxTransit = 1
  MaxRound = 1
  Long = 4
  Marks = {4, 6, 10}
  LeastAmount = 12
  Lots = {1, 2}
  MaxUnits = 3
  Rules <- RulesDef
  Upsets = {}
INVARIANTS FrameWhole EventsAccounted BooksBalance FillsHonest HistoryIrrelevant MarkIsRecent
PROPERTIES ActsOnTheLatest FeedReturns ExitsJudgeTheseCoins
CHECK_DEADLOCK FALSE
