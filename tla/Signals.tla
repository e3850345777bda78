------------------------------- MODULE Signals -------------------------------
(* The strategies whose indicators are made of windows of candles, worked on  *)
(* candles (app/strategy/indicators.py; Strategy.generate_signal).  The       *)
(* engine keeps a bounded frame that begins wherever the process began, a     *)
(* backtest works a whole year: both must hear the same signal.  Prices are   *)
(* whole numbers and quotients are rounded down; the RSI filters are off.     *)
EXTENDS Strategies, Sequences, FiniteSetsExt

CONSTANTS
  Bars,      \* [high, low, close, volume] a candle may have
  MaxBars,   \* bound: candles of a frame
  ParamsOf   \* per strategy: its parameters

WindowStrategies == DOMAIN ParamsOf

(* Parameters the validators let through, with the RSI filters off.           *)
Allowed(s, p) ==
  \/ s = "ma_cross" /\ p \in MovingAverageCrossParams /\ p.rsi_window = 0
  \/ s = "bollinger" /\ p \in BollingerParams /\ ~p.rsi_filter
  \/ s = "stochastic" /\ p \in StochasticParams
  \/ s = "williams_r" /\ p \in WilliamsRParams
  \/ s = "cci" /\ p \in CCIParams
  \/ s = "ichimoku" /\ p \in IchimokuParams
  \/ s = "volume_breakout" /\ p \in VolumeBreakoutParams
  \/ s = "obv" /\ p \in OBVParams

ASSUME SignalsAssumption ==
  /\ Bars \subseteq [high : Nat, low : Nat, close : Nat, volume : Nat]
  /\ MaxBars \in Nat
  /\ \A s \in WindowStrategies : Allowed(s, ParamsOf[s])

VARIABLES
  bars,      \* the closed candles, oldest first
  strategy   \* the strategy at work

signalVars == <<bars, strategy>>

-----------------------------------------------------------------------------
(* Windows.  F is a function of the number of a candle.                       *)

SumOf(F, first, last) ==
  LET sum[i \in (first - 1)..last] == IF i < first THEN 0 ELSE sum[i - 1] + F[i]
  IN sum[last]
Average(F, n, i) == SumOf(F, i - n + 1, i) \div n
Window(F, n, i) == {F[j] : j \in (i - n + 1)..i}
Highest(F, n, i) == Max(Window(F, n, i))
Lowest(F, n, i) == Min(Window(F, n, i))
Distance(a, b) == IF a < b THEN b - a ELSE a - b
RootOf(n) == CHOOSE r \in 0..n : r * r <= n /\ (r + 1) * (r + 1) > n

(* Where the close is between the lowest and the highest of n candles, in     *)
(* percent; in the middle when they are the same.                             *)
RangePosition(f, n, i) ==
  LET high[j \in DOMAIN f] == f[j].high
      low[j \in DOMAIN f] == f[j].low
      span == Highest(high, n, i) - Lowest(low, n, i)
  IN IF span = 0 THEN 50 ELSE (100 * (f[i].close - Lowest(low, n, i))) \div span

Midpoint(f, n, i) ==
  LET high[j \in DOMAIN f] == f[j].high
      low[j \in DOMAIN f] == f[j].low
  IN (Highest(high, n, i) + Lowest(low, n, i)) \div 2

-----------------------------------------------------------------------------
(* The indicators of candle i of frame f *)

MovingAverages(p, f, i) ==
  LET close[j \in DOMAIN f] == f[j].close
      volume[j \in DOMAIN f] == f[j].volume
  IN [short |-> Average(close, p.short_window, i), long |-> Average(close, p.long_window, i),
      volume |-> f[i].volume, volume_average |-> Average(volume, p.volume_window, i)]

(* The deviation is that of the whole population, times the window.           *)
BollingerBand(p, f, i) ==
  LET close[j \in DOMAIN f] == f[j].close
      square[j \in DOMAIN f] == f[j].close * f[j].close
      sum == SumOf(close, i - p.window + 1, i)
      width == RootOf(p.std_dev * p.std_dev
                      * (p.window * SumOf(square, i - p.window + 1, i) - sum * sum))
  IN [close |-> f[i].close * p.window, lower |-> sum - width, upper |-> sum + width]

StochasticLines(p, f, i) ==
  LET fast[j \in DOMAIN f] == RangePosition(f, p.k_period, j)
      k[j \in DOMAIN f] == Average(fast, p.smooth_k, j)
  IN [k |-> k[i], d |-> Average(k, p.d_period, i)]

WilliamsRLine(p, f, i) == [williams_r |-> RangePosition(f, p.window, i) - 100]

CCILine(p, f, i) ==
  LET typical[j \in DOMAIN f] == (f[j].high + f[j].low + f[j].close) \div 3
      mean == Average(typical, p.window, i)
      deviation[j \in DOMAIN f] == Distance(typical[j], mean)
      mad == Average(deviation, p.window, i)
  IN [cci |-> IF mad = 0 THEN 0 ELSE (1000 * (typical[i] - mean)) \div (15 * mad)]

IchimokuLines(p, f, i) ==
  LET tenkan[j \in DOMAIN f] == Midpoint(f, p.conversion_period, j)
      kijun[j \in DOMAIN f] == Midpoint(f, p.base_period, j)
      then == i - p.displacement
  IN [close |-> f[i].close, tenkan |-> tenkan[i], kijun |-> kijun[i],
      span_a |-> (tenkan[then] + kijun[then]) \div 2,
      span_b |-> Midpoint(f, p.span_b_period, then)]

(* The channels and the mean volume leave the candle itself out.              *)
BreakoutLines(p, f, i) ==
  LET high[j \in DOMAIN f] == f[j].high
      low[j \in DOMAIN f] == f[j].low
      volume[j \in DOMAIN f] == f[j].volume
  IN [close |-> f[i].close, volume |-> f[i].volume,
      breakout_high |-> Highest(high, p.breakout_window, i - 1),
      volume_average |-> Average(volume, p.volume_window, i - 1),
      exit_low |-> Lowest(low, p.exit_window, i - 1)]

(* On balance volume counts from the first candle of the frame.               *)
OBVLines(p, f, i) ==
  LET flow[j \in 2..Len(f)] ==
           IF f[j].close > f[j - 1].close THEN f[j].volume
           ELSE IF f[j].close < f[j - 1].close THEN - f[j].volume ELSE 0
      obv[j \in DOMAIN f] == SumOf(flow, 2, j)
      close[j \in DOMAIN f] == f[j].close
  IN [obv |-> obv[i], obv_average |-> Average(obv, p.obv_window, i), close |-> f[i].close,
      price_average |-> Average(close, p.price_window, i)]

-----------------------------------------------------------------------------
(* generate_signal of a strategy on a frame *)

WarmupOf(s, p) ==
  CASE s = "ma_cross" -> MovingAverageCrossWarmup(p)
    [] s = "bollinger" -> BollingerWarmup(p)
    [] s = "stochastic" -> StochasticWarmup(p)
    [] s = "williams_r" -> WilliamsRWarmup(p)
    [] s = "cci" -> CCIWarmup(p)
    [] s = "ichimoku" -> IchimokuWarmup(p)
    [] s = "volume_breakout" -> VolumeBreakoutWarmup(p)
    [] s = "obv" -> OBVWarmup(p)

RuleOn(s, p, f) ==
  LET i == Len(f)
  IN CASE s = "ma_cross" ->
            MovingAverageCrossRule(p, MovingAverages(p, f, i - 1), MovingAverages(p, f, i))
       [] s = "bollinger" -> BollingerRule(p, BollingerBand(p, f, i - 1), BollingerBand(p, f, i))
       [] s = "stochastic" ->
            StochasticRule(p, StochasticLines(p, f, i - 1), StochasticLines(p, f, i))
       [] s = "williams_r" -> WilliamsRRule(p, WilliamsRLine(p, f, i - 1), WilliamsRLine(p, f, i))
       [] s = "cci" -> CCIRule(p, CCILine(p, f, i - 1), CCILine(p, f, i))
       [] s = "ichimoku" -> IchimokuRule(p, IchimokuLines(p, f, i - 1), IchimokuLines(p, f, i))
       [] s = "volume_breakout" ->
            VolumeBreakoutRule(p, BreakoutLines(p, f, i - 1), BreakoutLines(p, f, i))
       [] s = "obv" -> OBVRule(p, OBVLines(p, f, i - 1), OBVLines(p, f, i))

GenerateSignal(f) ==
  LET p == ParamsOf[strategy]
  IN IF Len(f) < WarmupOf(strategy, p) THEN Hold
     ELSE SignalOf(Len(f), WarmupOf(strategy, p), RuleOn(strategy, p, f))

LastBars(f, n) == SubSeq(f, Len(f) - n + 1, Len(f))

-----------------------------------------------------------------------------
SignalsInit ==
  /\ bars = <<>>
  /\ strategy \in WindowStrategies

(* A candle closes.                                                           *)
CandleCloses ==
  /\ Len(bars) < MaxBars
  /\ \E b \in Bars : bars' = Append(bars, b)
  /\ UNCHANGED strategy

SignalsNext == CandleCloses

SignalsSpec == SignalsInit /\ [][SignalsNext]_signalVars

-----------------------------------------------------------------------------
(* A backtest over a long history and an engine that has only just warmed up  *)
(* hear the same signal of a candle, from warmup_periods candles on: neither  *)
(* a window too short for its indicators nor a sum that counts from the       *)
(* beginning of the data (OBV) decides.                                       *)
HistoryIrrelevant ==
  \A n \in 1..Len(bars) :
    n >= WarmupOf(strategy, ParamsOf[strategy]) =>
      GenerateSignal(LastBars(bars, n)) = GenerateSignal(bars)
=============================================================================
