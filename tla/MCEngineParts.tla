---------------------------- MODULE MCEngineParts ----------------------------
(* Components that share no state, side by side: a behaviour works one of     *)
(* of them, the others stay as they were made.                                *)
EXTENDS MarketRound, Notifications, Backtest, Signals, PriceFeed, Holdings

VARIABLE part

KeyDef == [e \in 1..6 |-> IF e \in {2, 4} THEN "k" ELSE "none"]
CandlesDef ==
  {[open |-> o, high |-> h, low |-> l, close |-> c] :
     o \in {60, 90, 100}, h \in {100, 120}, l \in {60, 90}, c \in {90, 100}}
  \ {k \in [open : {60}, high : {100, 120}, low : {90}, close : {90, 100}] : TRUE}

BarsDef ==
  {[high |-> 110, low |-> 90, close |-> 100, volume |-> 1],
   [high |-> 130, low |-> 100, close |-> 120, volume |-> 3],
   [high |-> 100, low |-> 70, close |-> 80, volume |-> 2],
   [high |-> 100, low |-> 100, close |-> 100, volume |-> 1]}
ParamsDef ==
  [ma_cross |-> [short_window |-> 2, long_window |-> 3, volume_window |-> 2,
                 volume_factor |-> 100, rsi_window |-> 0, rsi_max_for_buy |-> 70],
   bollinger |-> [window |-> 3, std_dev |-> 1, rsi_filter |-> FALSE, rsi_window |-> 2,
                  oversold |-> 40, overbought |-> 60],
   stochastic |-> [k_period |-> 2, d_period |-> 2, smooth_k |-> 2, oversold |-> 40, overbought |-> 60],
   williams_r |-> [window |-> 3, oversold |-> -80, overbought |-> -20],
   cci |-> [window |-> 3, oversold |-> -50, overbought |-> 50],
   ichimoku |-> [conversion_period |-> 2, base_period |-> 3, span_b_period |-> 3, displacement |-> 1],
   volume_breakout |-> [breakout_window |-> 2, volume_window |-> 2, volume_multiplier |-> 120,
                        exit_window |-> 3],
   obv |-> [obv_window |-> 2, price_window |-> 2]]

(* The feed of an engine that stopped long ago.                               *)
FeedOver ==
  /\ network = "up" /\ link = "cancelled" /\ held = FALSE
  /\ delay = 0 /\ pause = BaseDelay /\ backoff = BaseBackoff /\ quiet = 0
  /\ silence = Long /\ last = Quoted(Long) /\ book = Quoted(Long)
  /\ round = "asleep" /\ since = 0 /\ alerted = FALSE

RulesDef == [stop |-> 20, target |-> 50, trail |-> 10]

PartsInit ==
  /\ RoundInit /\ NotifyInit /\ BacktestInit /\ SignalsInit
  /\ part \in {"round", "notifications", "account", "backtest", "signals", "feed", "holdings"}
  /\ part # "signals" => strategy = "obv"
  /\ HoldingsInit
  /\ part # "holdings" => mark = 4
  /\ IF part = "feed" THEN FeedInit ELSE FeedOver

PartsNext ==
  /\ part' = part
  /\ \/ /\ part = "round" /\ RoundNext
        /\ UNCHANGED <<notifyVars, backtestVars, signalVars, feedVars, holdingVars>>
     \/ /\ part = "notifications" /\ NotifyNext
        /\ UNCHANGED <<roundVars, backtestVars, signalVars, feedVars, holdingVars>>
     \/ /\ part = "account" /\ AccountNext
        /\ UNCHANGED <<roundVars, notifyVars, index, stage, candle, pending, peak,
                       lastExit, fill, topHigh, signalVars, feedVars, holdingVars>>
     \/ /\ part = "backtest" /\ BacktestNext
        /\ UNCHANGED <<roundVars, notifyVars, signalVars, feedVars, holdingVars>>
     \/ /\ part = "signals" /\ SignalsNext
        /\ UNCHANGED <<roundVars, notifyVars, backtestVars, feedVars, holdingVars>>
     \/ /\ part = "feed" /\ FeedNext
        /\ UNCHANGED <<roundVars, notifyVars, backtestVars, signalVars, holdingVars>>
     \/ /\ part = "holdings" /\ HoldingsNext
        /\ UNCHANGED <<roundVars, notifyVars, backtestVars, signalVars, feedVars>>

partsVars ==
  <<roundVars, notifyVars, backtestVars, signalVars, feedVars, holdingVars, part>>
PartsSpec == PartsInit /\ [][PartsNext]_partsVars /\ FeedFairness
=============================================================================
