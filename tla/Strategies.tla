----------------------------- MODULE Strategies ------------------------------
(* The rules of the twelve strategies (app/strategy).  A rule looks at the    *)
(* indicators of the newest closed candle (is) and of the one before (was)    *)
(* and says whether to buy and whether to sell; parameters are whole numbers. *)
(* Where an indicator still has no value the code answers no: warmup_periods  *)
(* must be long enough for that never to decide a signal, and the operators   *)
(* named ...From say from which candle (0 is the first) an indicator has one. *)
EXTENDS Integers

-----------------------------------------------------------------------------
(* app/strategy/indicators.py: crossings and edges *)

CrossAbove(a0, b0, a, b) == a0 <= b0 /\ a > b
CrossBelow(a0, b0, a, b) == a0 >= b0 /\ a < b
LevelCrossUp(x0, x, level) == x0 < level /\ x >= level
LevelCrossDown(x0, x, level) == x0 > level /\ x <= level
RisingEdge(before, now) == now /\ ~before

(* A mean, maximum or minimum of the last n values has a value at the n-th.   *)
WindowFrom(n) == n - 1
(* Averages of changes, and windows that leave the newest candle out, need    *)
(* one candle more.                                                           *)
ChangeFrom(n) == n
(* An average over n values of an indicator that itself begins at `from`.     *)
AverageFrom(from, n) == from + n - 1
(* The directional index averages, n at a time, averages of changes.          *)
AdxFrom(n) == AverageFrom(ChangeFrom(n), n)

Longer(a, b) == IF a > b THEN a ELSE b
Longest(a, b, c) == Longer(Longer(a, b), c)

(* app/strategy/base.py: action_series and reasons.  SELL wins when both      *)
(* hold, the text of the purchase comes first.                                *)
ActionOf(rule) == IF rule.sell THEN "SELL" ELSE IF rule.buy THEN "BUY" ELSE "HOLD"
ReasonOf(rule) == IF rule.buy THEN "BUY" ELSE IF rule.sell THEN "SELL" ELSE "none"

(* The signal of a frame of `length` candles.                                 *)
Hold == [action |-> "HOLD", reason |-> "warmup"]
SignalOf(length, warmup, rule) ==
  IF length < warmup THEN Hold
  ELSE [action |-> ActionOf(rule), reason |-> ReasonOf(rule)]

-----------------------------------------------------------------------------
(* Levels: RSI, CCI, Williams %R *)

RSIParams == {p \in [window : 2..200, oversold : 1..99, overbought : 1..99] :
                p.oversold < p.overbought}
RSIWarmup(p) == p.window + 2
CCIParams == {p \in [window : 2..500, oversold : -500..0, overbought : 0..500] :
                p.oversold < p.overbought}
CCIWarmup(p) == p.window + 1
WilliamsRParams == {p \in [window : 2..500, oversold : -99..-1, overbought : -99..-1] :
                      p.oversold < p.overbought}
WilliamsRWarmup(p) == p.window + 1

LevelRule(p, x0, x) == [buy |-> LevelCrossUp(x0, x, p.oversold),
                        sell |-> LevelCrossDown(x0, x, p.overbought)]
RSIRule(p, was, is) == LevelRule(p, was.rsi, is.rsi)
CCIRule(p, was, is) == LevelRule(p, was.cci, is.cci)
WilliamsRRule(p, was, is) == LevelRule(p, was.williams_r, is.williams_r)

(* Bollinger: back inside the band, with the RSI when the filter is on.       *)
BollingerParams ==
  {p \in [window : 2..500, std_dev : 1..5, rsi_filter : BOOLEAN, rsi_window : 2..200,
          oversold : 1..99, overbought : 1..99] : p.oversold < p.overbought}
BollingerWarmup(p) == Longer(p.window, IF p.rsi_filter THEN p.rsi_window + 1 ELSE 0) + 1
BollingerRule(p, was, is) ==
  [buy |-> /\ CrossAbove(was.close, was.lower, is.close, is.lower)
           /\ p.rsi_filter => is.rsi < p.oversold,
   sell |-> /\ CrossBelow(was.close, was.upper, is.close, is.upper)
            /\ p.rsi_filter => is.rsi > p.overbought]

(* Stochastic: %K crosses %D, which was beyond the level.                     *)
StochasticParams ==
  {p \in [k_period : 2..200, d_period : 2..50, smooth_k : 1..20, oversold : 1..99,
          overbought : 1..99] : p.oversold < p.overbought}
StochasticWarmup(p) == p.k_period + p.smooth_k + p.d_period - 1
StochasticFrom(p) == AverageFrom(AverageFrom(WindowFrom(p.k_period), p.smooth_k), p.d_period)
StochasticRule(p, was, is) ==
  [buy |-> CrossAbove(was.k, was.d, is.k, is.d) /\ was.d < p.oversold,
   sell |-> CrossBelow(was.k, was.d, is.k, is.d) /\ was.d > p.overbought]

-----------------------------------------------------------------------------
(* Trends: EMA, SMA, MACD, Ichimoku *)

EMACrossParams ==
  {p \in [short_period : 2..200, medium_period : 3..300, long_period : 4..500,
          rsi_filter : BOOLEAN, rsi_window : 2..200, rsi_threshold : 1..99] :
     p.short_period < p.medium_period /\ p.medium_period < p.long_period}
EMACrossWarmup(p) == Longer(p.long_period, IF p.rsi_filter THEN p.rsi_window + 1 ELSE 0) + 1
Aligned(x) == x.short > x.medium /\ x.medium > x.long
EMACrossRule(p, was, is) ==
  LET ok(x) == Aligned(x) /\ (p.rsi_filter => x.rsi > p.rsi_threshold)
  IN [buy |-> RisingEdge(ok(was), ok(is)),
      sell |-> CrossBelow(was.short, was.medium, is.short, is.medium)]

(* A window of 0 turns a filter off.                                          *)
MovingAverageCrossParams ==
  {p \in [short_window : 2..500, long_window : 3..1000, volume_window : 0..500,
          volume_factor : 0..1000, rsi_window : 0..200, rsi_max_for_buy : 0..100] :
     p.short_window < p.long_window}
MovingAverageCrossWarmup(p) ==
  Longest(p.long_window, p.volume_window, IF p.rsi_window > 0 THEN p.rsi_window + 1 ELSE 0) + 1
(* volume_factor is in percent; without any volume the ratio has no value.    *)
MovingAverageCrossRule(p, was, is) ==
  [buy |-> /\ CrossAbove(was.short, was.long, is.short, is.long)
           /\ p.volume_window > 0 =>
                is.volume_average > 0 /\ is.volume * 100 >= p.volume_factor * is.volume_average
           /\ p.rsi_window > 0 => is.rsi <= p.rsi_max_for_buy,
   sell |-> CrossBelow(was.short, was.long, is.short, is.long)]

MACDParams ==
  {p \in [fast_period : 2..200, slow_period : 3..500, signal_period : 2..200,
          zero_line_filter : BOOLEAN] : p.fast_period < p.slow_period}
MACDWarmup(p) == p.slow_period + p.signal_period
MACDFrom(p) == AverageFrom(WindowFrom(p.slow_period), p.signal_period)
MACDRule(p, was, is) ==
  [buy |-> /\ CrossAbove(was.macd, was.signal, is.macd, is.signal)
           /\ p.zero_line_filter => is.macd > 0,
   sell |-> CrossBelow(was.macd, was.signal, is.macd, is.signal)]

IchimokuParams ==
  {p \in [conversion_period : 2..100, base_period : 3..200, span_b_period : 3..300,
          displacement : 1..100] :
     p.conversion_period < p.base_period /\ p.base_period <= p.span_b_period}
IchimokuWarmup(p) ==
  Longest(p.conversion_period, p.base_period, p.span_b_period) + p.displacement + 1
(* The cloud of a candle was computed `displacement` candles before.          *)
IchimokuFrom(p) ==
  Longest(WindowFrom(p.conversion_period), WindowFrom(p.base_period),
          WindowFrom(p.span_b_period)) + p.displacement
IchimokuRule(p, was, is) ==
  LET up(x) == x.close > x.span_a /\ x.close > x.span_b /\ x.tenkan > x.kijun
      down(x) == (x.close < x.span_a /\ x.close < x.span_b) \/ x.tenkan < x.kijun
  IN [buy |-> RisingEdge(up(was), up(is)), sell |-> RisingEdge(down(was), down(is))]

-----------------------------------------------------------------------------
(* Breakouts and filters: volume breakout, OBV, ADX *)

VolumeBreakoutParams ==
  [breakout_window : 2..500, volume_window : 2..500, volume_multiplier : 10..2000,
   exit_window : 0..500]
VolumeBreakoutWarmup(p) == Longest(p.breakout_window, p.volume_window, p.exit_window) + 2
(* volume_multiplier is in percent.                                           *)
VolumeBreakoutRule(p, was, is) ==
  LET breakout(x) == /\ x.close > x.breakout_high
                     /\ x.volume * 100 > x.volume_average * p.volume_multiplier
      breakdown(x) == x.close < x.exit_low
  IN [buy |-> RisingEdge(breakout(was), breakout(is)),
      sell |-> p.exit_window > 0 /\ RisingEdge(breakdown(was), breakdown(is))]

OBVParams == [obv_window : 2..500, price_window : 0..500]
OBVWarmup(p) == Longer(p.obv_window, p.price_window) + 1

\* A mutant of OBVRule: the sign of the volume so far, not its side of the mean.
OBVRuleBySign(p, was, is) ==
  LET up(x) == x.obv > 0 /\ (p.price_window > 0 => x.close > x.price_average)
  IN [buy |-> RisingEdge(up(was), up(is)),
      sell |-> CrossBelow(was.obv, 0, is.obv, 0)]

OBVRule(p, was, is) ==
  LET up(x) == x.obv > x.obv_average /\ (p.price_window > 0 => x.close > x.price_average)
  IN [buy |-> RisingEdge(up(was), up(is)),
      sell |-> CrossBelow(was.obv, was.obv_average, is.obv, is.obv_average)]

ADXTrendParams == [adx_window : 2..200, adx_threshold : 1..100]
ADXTrendWarmup(p) == 2 * p.adx_window + 1
ADXTrendRule(p, was, is) ==
  LET strong(x) == x.adx > p.adx_threshold /\ x.plus_di > x.minus_di
  IN [buy |-> RisingEdge(strong(was), strong(is)),
      sell |-> CrossAbove(was.minus_di, was.plus_di, is.minus_di, is.plus_di)]
=============================================================================
