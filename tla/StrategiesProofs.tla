-------------------------- MODULE StrategiesProofs ---------------------------
(* What every rule of Strategies has in common, for all parameters that the   *)
(* validators let through and all values of the indicators; then, for the     *)
(* strategies of Signals, that the rule of a candle is the same on every      *)
(* frame that is long enough, however many candles came before.               *)
EXTENDS Signals, WellFoundedInduction, TLAPS

OneSided(rule) == ~(rule.buy /\ rule.sell)

(* action_series lets SELL win and reasons lets BUY win: the reason of a      *)
(* signal is that of its action only because no rule says both at once.       *)
THEOREM ReasonOfOneSided ==
  ASSUME NEW rule \in [buy : BOOLEAN, sell : BOOLEAN], OneSided(rule),
         NEW length \in Nat, NEW warmup \in Nat,
         SignalOf(length, warmup, rule).action # "HOLD"
  PROVE  SignalOf(length, warmup, rule).reason = SignalOf(length, warmup, rule).action
  BY DEF SignalOf, ActionOf, ReasonOf, OneSided, Hold

(* The levels are apart, so that one candle cannot recover from below the one *)
(* and fall from above the other.                                             *)
THEOREM LevelRulesOneSided ==
  ASSUME NEW p \in RSIParams \cup CCIParams \cup WilliamsRParams,
         NEW x0 \in Int, NEW x \in Int
  PROVE  OneSided(LevelRule(p, x0, x))
<1>1. p.oversold \in Int /\ p.overbought \in Int /\ p.oversold < p.overbought
  BY DEF RSIParams, CCIParams, WilliamsRParams
<1>2. ~(LevelCrossUp(x0, x, p.oversold) /\ LevelCrossDown(x0, x, p.overbought))
  BY <1>1 DEF LevelCrossUp, LevelCrossDown
<1> QED
  BY <1>2, Zenon DEF OneSided, LevelRule

(* A Bollinger rule is one-sided while the band is open or the filter is on.  *)
(* On a window of equal closes the two edges of the band coincide, and with   *)
(* the filter off a rule can say both: the signal is then a SELL that carries *)
(* the reason of a purchase.                                                  *)
THEOREM BollingerOneSided ==
  ASSUME NEW p \in BollingerParams,
         NEW was \in [close : Int, lower : Int, upper : Int, rsi : Int],
         NEW is \in [close : Int, lower : Int, upper : Int, rsi : Int],
         p.rsi_filter \/ was.lower < was.upper
  PROVE  OneSided(BollingerRule(p, was, is))
<1>1. /\ p.rsi_filter \in BOOLEAN
      /\ p.oversold \in Int /\ p.overbought \in Int /\ p.oversold < p.overbought
  BY DEF BollingerParams
<1>2. ~(is.rsi < p.oversold /\ is.rsi > p.overbought)
  BY <1>1
<1>3. CASE p.rsi_filter
  BY <1>2, <1>3, Zenon DEF OneSided, BollingerRule
<1>4. CASE was.lower < was.upper
  <2>1. ~(/\ CrossAbove(was.close, was.lower, is.close, is.lower)
          /\ CrossBelow(was.close, was.upper, is.close, is.upper))
    BY <1>4 DEF CrossAbove, CrossBelow
  <2> QED
    BY <2>1, Zenon DEF OneSided, BollingerRule
<1> QED
  BY <1>3, <1>4

\* A pair of lines does not cross both ways at once.
LEMMA CrossingsApart ==
  ASSUME NEW a0, NEW b0, NEW a \in Int, NEW b \in Int
  PROVE  ~(CrossAbove(a0, b0, a, b) /\ CrossBelow(a0, b0, a, b))
  BY DEF CrossAbove, CrossBelow

(* %K crosses %D in one direction.                                            *)
THEOREM StochasticOneSided ==
  ASSUME NEW p \in StochasticParams,
         NEW was \in [k : Int, d : Int], NEW is \in [k : Int, d : Int]
  PROVE  OneSided(StochasticRule(p, was, is))
  BY CrossingsApart, Zenon DEF OneSided, StochasticRule

(* The trend rules buy on one side of a line and sell on the other.           *)
THEOREM TrendRulesOneSided ==
  ASSUME NEW was, NEW is, NEW p
  PROVE  /\ is \in [short : Int, medium : Int, long : Int, rsi : Int] =>
              OneSided(EMACrossRule(p, was, is))
         /\ is \in [short : Int, long : Int, volume : Int, volume_average : Int, rsi : Int] =>
              OneSided(MovingAverageCrossRule(p, was, is))
         /\ is \in [macd : Int, signal : Int] => OneSided(MACDRule(p, was, is))
         /\ is \in [obv : Int, obv_average : Int, close : Int, price_average : Int] =>
              OneSided(OBVRule(p, was, is))
         /\ is \in [adx : Int, plus_di : Int, minus_di : Int] =>
              OneSided(ADXTrendRule(p, was, is))
<1>1. is \in [short : Int, medium : Int, long : Int, rsi : Int] =>
        OneSided(EMACrossRule(p, was, is))
  <2>1. is \in [short : Int, medium : Int, long : Int, rsi : Int] =>
          ~(is.short > is.medium /\ is.short < is.medium)
    OBVIOUS
  <2> QED
    BY <2>1, Zenon DEF OneSided, EMACrossRule, Aligned, RisingEdge, CrossBelow
<1>2. is \in [short : Int, long : Int, volume : Int, volume_average : Int, rsi : Int] =>
        OneSided(MovingAverageCrossRule(p, was, is))
  BY CrossingsApart, Zenon DEF OneSided, MovingAverageCrossRule
<1>3. is \in [macd : Int, signal : Int] => OneSided(MACDRule(p, was, is))
  BY CrossingsApart, Zenon DEF OneSided, MACDRule
<1>4. is \in [obv : Int, obv_average : Int, close : Int, price_average : Int] =>
        OneSided(OBVRule(p, was, is))
  <2>1. is \in [obv : Int, obv_average : Int, close : Int, price_average : Int] =>
          ~(is.obv > is.obv_average /\ is.obv < is.obv_average)
    OBVIOUS
  <2> QED
    BY <2>1, Zenon DEF OneSided, OBVRule, RisingEdge, CrossBelow
<1>5. is \in [adx : Int, plus_di : Int, minus_di : Int] => OneSided(ADXTrendRule(p, was, is))
  <2>1. is \in [adx : Int, plus_di : Int, minus_di : Int] =>
          ~(is.plus_di > is.minus_di /\ is.minus_di > is.plus_di)
    OBVIOUS
  <2> QED
    BY <2>1, Zenon DEF OneSided, ADXTrendRule, RisingEdge, CrossAbove
<1> QED
  BY <1>1, <1>2, <1>3, <1>4, <1>5

\* A candle above the cloud with its averages in order is not below the cloud nor
\* are its averages reversed.
THEOREM IchimokuOneSided ==
  ASSUME NEW p, NEW was,
         NEW is \in [close : Int, span_a : Int, span_b : Int, tenkan : Int, kijun : Int]
  PROVE  OneSided(IchimokuRule(p, was, is))
<1>1. ~(is.close > is.span_a /\ is.close < is.span_a)
  OBVIOUS
<1>2. ~(is.tenkan > is.kijun /\ is.tenkan < is.kijun)
  OBVIOUS
<1> QED
  BY <1>1, <1>2, Zenon DEF OneSided, IchimokuRule, RisingEdge

(* A breakout is above the highest of some candles and a breakdown below the  *)
(* lowest of others; both windows hold the candle before, whose low is not    *)
(* above its high.                                                            *)
THEOREM VolumeBreakoutOneSided ==
  ASSUME NEW p, NEW was,
         NEW is \in [close : Int, breakout_high : Int, exit_low : Int, volume : Int,
                     volume_average : Int],
         NEW high \in Int, NEW low \in Int, low <= high,
         high <= is.breakout_high, is.exit_low <= low
  PROVE  OneSided(VolumeBreakoutRule(p, was, is))
<1>1. ~(is.close > is.breakout_high /\ is.close < is.exit_low)
  OBVIOUS
<1> QED
  BY <1>1, Zenon DEF OneSided, VolumeBreakoutRule, RisingEdge

(* warmup_periods is long enough: at the first candle that may give a signal  *)
(* (number warmup - 1) every indicator the rule looks back at has a value on  *)
(* the candle before, so that no edge is seen where only the data begins.     *)
THEOREM WarmupSuffices ==
  /\ \A p \in RSIParams : RSIWarmup(p) - 2 >= ChangeFrom(p.window)
  /\ \A p \in CCIParams : CCIWarmup(p) - 2 >= WindowFrom(p.window)
  /\ \A p \in WilliamsRParams : WilliamsRWarmup(p) - 2 >= WindowFrom(p.window)
  /\ \A p \in BollingerParams :
       /\ BollingerWarmup(p) - 2 >= WindowFrom(p.window)
       /\ p.rsi_filter => BollingerWarmup(p) - 2 >= ChangeFrom(p.rsi_window)
  /\ \A p \in StochasticParams : StochasticWarmup(p) - 2 >= StochasticFrom(p)
  /\ \A p \in EMACrossParams :
       /\ EMACrossWarmup(p) - 2 >= WindowFrom(p.long_period)
       /\ p.rsi_filter => EMACrossWarmup(p) - 2 >= ChangeFrom(p.rsi_window)
  /\ \A p \in MovingAverageCrossParams :
       /\ MovingAverageCrossWarmup(p) - 2 >= WindowFrom(p.long_window)
       /\ MovingAverageCrossWarmup(p) - 2 >= WindowFrom(p.volume_window)
       /\ p.rsi_window > 0 => MovingAverageCrossWarmup(p) - 2 >= ChangeFrom(p.rsi_window)
  /\ \A p \in MACDParams : MACDWarmup(p) - 2 >= MACDFrom(p)
  /\ \A p \in IchimokuParams : IchimokuWarmup(p) - 2 >= IchimokuFrom(p)
  /\ \A p \in VolumeBreakoutParams :
       /\ VolumeBreakoutWarmup(p) - 2 >= ChangeFrom(p.breakout_window)
       /\ VolumeBreakoutWarmup(p) - 2 >= ChangeFrom(p.volume_window)
       /\ VolumeBreakoutWarmup(p) - 2 >= ChangeFrom(p.exit_window)
  /\ \A p \in OBVParams :
       /\ OBVWarmup(p) - 2 >= WindowFrom(p.obv_window)
       /\ OBVWarmup(p) - 2 >= WindowFrom(p.price_window)
  /\ \A p \in ADXTrendParams : ADXTrendWarmup(p) - 2 >= AdxFrom(p.adx_window)
<1> USE DEF WindowFrom, ChangeFrom, AverageFrom, Longer, Longest
<1>1. \A p \in RSIParams : RSIWarmup(p) - 2 >= ChangeFrom(p.window)
  <2> TAKE p \in RSIParams
  <2>1. {p.window} \subseteq Int
    BY DEF RSIParams
  <2> QED
    BY <2>1 DEF RSIWarmup
<1>2. \A p \in CCIParams : CCIWarmup(p) - 2 >= WindowFrom(p.window)
  <2> TAKE p \in CCIParams
  <2>1. {p.window} \subseteq Int
    BY DEF CCIParams
  <2> QED
    BY <2>1 DEF CCIWarmup
<1>3. \A p \in WilliamsRParams : WilliamsRWarmup(p) - 2 >= WindowFrom(p.window)
  <2> TAKE p \in WilliamsRParams
  <2>1. {p.window} \subseteq Int
    BY DEF WilliamsRParams
  <2> QED
    BY <2>1 DEF WilliamsRWarmup
<1>4. \A p \in BollingerParams :
        /\ BollingerWarmup(p) - 2 >= WindowFrom(p.window)
        /\ p.rsi_filter => BollingerWarmup(p) - 2 >= ChangeFrom(p.rsi_window)
  <2> TAKE p \in BollingerParams
  <2>1. {p.window, p.rsi_window} \subseteq Int
    BY DEF BollingerParams
  <2> QED
    BY <2>1 DEF BollingerWarmup
<1>5. \A p \in StochasticParams : StochasticWarmup(p) - 2 >= StochasticFrom(p)
  <2> TAKE p \in StochasticParams
  <2>1. {p.k_period, p.smooth_k, p.d_period} \subseteq Int
    BY DEF StochasticParams
  <2> QED
    BY <2>1 DEF StochasticWarmup, StochasticFrom
<1>6. \A p \in EMACrossParams :
        /\ EMACrossWarmup(p) - 2 >= WindowFrom(p.long_period)
        /\ p.rsi_filter => EMACrossWarmup(p) - 2 >= ChangeFrom(p.rsi_window)
  <2> TAKE p \in EMACrossParams
  <2>1. {p.long_period, p.rsi_window} \subseteq Int
    BY DEF EMACrossParams
  <2> QED
    BY <2>1 DEF EMACrossWarmup
<1>7. \A p \in MovingAverageCrossParams :
        /\ MovingAverageCrossWarmup(p) - 2 >= WindowFrom(p.long_window)
        /\ MovingAverageCrossWarmup(p) - 2 >= WindowFrom(p.volume_window)
        /\ p.rsi_window > 0 => MovingAverageCrossWarmup(p) - 2 >= ChangeFrom(p.rsi_window)
  <2> TAKE p \in MovingAverageCrossParams
  <2>0. p \in [short_window : 2..500, long_window : 3..1000, volume_window : 0..500,
               volume_factor : 0..1000, rsi_window : 0..200, rsi_max_for_buy : 0..100]
    BY DEF MovingAverageCrossParams
  <2>1. p.long_window \in Int
    BY <2>0
  <2>2. p.volume_window \in Int
    BY <2>0
  <2>3. p.rsi_window \in Int
    BY <2>0
  <2> QED
    BY <2>1, <2>2, <2>3 DEF MovingAverageCrossWarmup
<1>8. \A p \in MACDParams : MACDWarmup(p) - 2 >= MACDFrom(p)
  <2> TAKE p \in MACDParams
  <2>1. {p.slow_period, p.signal_period} \subseteq Int
    BY DEF MACDParams
  <2> QED
    BY <2>1 DEF MACDWarmup, MACDFrom
<1>9. \A p \in IchimokuParams : IchimokuWarmup(p) - 2 >= IchimokuFrom(p)
  <2> TAKE p \in IchimokuParams
  <2>1. {p.conversion_period, p.base_period, p.span_b_period, p.displacement} \subseteq Int
    BY DEF IchimokuParams
  <2> QED
    BY <2>1 DEF IchimokuWarmup, IchimokuFrom
<1>10. \A p \in VolumeBreakoutParams :
        /\ VolumeBreakoutWarmup(p) - 2 >= ChangeFrom(p.breakout_window)
        /\ VolumeBreakoutWarmup(p) - 2 >= ChangeFrom(p.volume_window)
        /\ VolumeBreakoutWarmup(p) - 2 >= ChangeFrom(p.exit_window)
  <2> TAKE p \in VolumeBreakoutParams
  <2>1. p.breakout_window \in Int
    BY DEF VolumeBreakoutParams
  <2>2. p.volume_window \in Int
    BY DEF VolumeBreakoutParams
  <2>3. p.exit_window \in Int
    BY DEF VolumeBreakoutParams
  <2> QED
    BY <2>1, <2>2, <2>3 DEF VolumeBreakoutWarmup
<1>11. \A p \in OBVParams :
        /\ OBVWarmup(p) - 2 >= WindowFrom(p.obv_window)
        /\ OBVWarmup(p) - 2 >= WindowFrom(p.price_window)
  <2> TAKE p \in OBVParams
  <2>1. {p.obv_window, p.price_window} \subseteq Int
    BY DEF OBVParams
  <2> QED
    BY <2>1 DEF OBVWarmup
<1>12. \A p \in ADXTrendParams : ADXTrendWarmup(p) - 2 >= AdxFrom(p.adx_window)
  <2> TAKE p \in ADXTrendParams
  <2>1. {p.adx_window} \subseteq Int
    BY DEF ADXTrendParams
  <2> QED
    BY <2>1 DEF ADXTrendWarmup, AdxFrom
<1> QED
  BY <1>1, <1>2, <1>3, <1>4, <1>5, <1>6, <1>7, <1>8, <1>9, <1>10, <1>11, <1>12

-----------------------------------------------------------------------------
(* Sums.  SumOf counts up from the first candle of a window, so that what is  *)
(* said of it is shown candle by candle; the induction is the library's, over *)
(* the smallest number outside a set.                                         *)

\* A set that holds 0, and the next of each number it holds, holds every one.
LEMMA SetInduction ==
  ASSUME NEW S, 0 \in S, \A k \in Nat : k \in S => k + 1 \in S
  PROVE  \A n \in Nat : n \in S
<1> SUFFICES ASSUME NEW n \in Nat, n \notin S PROVE FALSE
  OBVIOUS
<1> DEFINE Bad == {k \in Nat : k \notin S}
<1>1. PICK x \in Bad : \A y \in Bad : ~ (<<y, x>> \in OpToRel(<, Nat))
  <2>1. Bad \in SUBSET Nat /\ Bad # {}
    OBVIOUS
  <2> HIDE DEF Bad
  <2> QED
    BY <2>1, WFMin, NatLessThanWellFounded, Zenon
<1>2. \A y \in Bad : ~ (y < x)
  BY <1>1 DEF OpToRel
<1>3. x # 0 /\ x \in Nat
  OBVIOUS
<1>4. x - 1 \in Nat /\ x - 1 < x /\ (x - 1) + 1 = x
  BY <1>3
<1>5. x - 1 \in S
  BY <1>2, <1>4
<1> QED
  BY <1>4, <1>5

\* s is the sum of F, candle by candle.
Sums(s, F, first, last) ==
  s = [i \in (first - 1)..last |-> IF i < first THEN 0 ELSE s[i - 1] + F[i]]

\* What SumOf's LET says.
LEMMA SumOfIs ==
  ASSUME NEW F, NEW first, NEW last
  PROVE  SumOf(F, first, last) = (CHOOSE s : Sums(s, F, first, last))[last]
  BY DEF SumOf, Sums

\* There is a sum up to every candle, and one only.
LEMMA SumExists ==
  ASSUME NEW F, NEW first \in Int, NEW last \in Int, first - 1 <= last
  PROVE  \E s : Sums(s, F, first, last)
<1> DEFINE S == {k \in Nat : \E s : Sums(s, F, first, first - 1 + k)}
<1>1. 0 \in S
  <2> DEFINE s == [i \in (first - 1)..(first - 1) |-> 0]
  <2>1. Sums(s, F, first, first - 1)
    BY DEF Sums
  <2> HIDE DEF s
  <2>2. first - 1 + 0 = first - 1
    OBVIOUS
  <2> QED
    BY <2>1, <2>2
<1>2. ASSUME NEW k \in Nat, k \in S PROVE k + 1 \in S
  <2> DEFINE m == first - 1 + k
  <2>1. PICK s : Sums(s, F, first, m)
    BY <1>2
  <2>2. m \in Int /\ first - 1 <= m /\ first - 1 + (k + 1) = m + 1
    OBVIOUS
  <2> HIDE DEF m
  <2> DEFINE t == [i \in (first - 1)..(m + 1) |-> IF i = m + 1 THEN s[m] + F[m + 1] ELSE s[i]]
  <2>3. ASSUME NEW i \in (first - 1)..(m + 1)
        PROVE  t[i] = IF i < first THEN 0 ELSE t[i - 1] + F[i]
    <3>1. CASE i = m + 1
      <4>1. t[m + 1] = s[m] + F[m + 1]
        BY <2>2
      <4>2. t[m] = s[m]
        BY <2>2
      <4>3. ~(i < first) /\ i - 1 = m
        BY <2>2, <3>1
      <4> QED
        BY <3>1, <4>1, <4>2, <4>3
    <3>2. CASE i # m + 1
      <4>1. i \in (first - 1)..m
        BY <2>2, <3>2
      <4>2. s[i] = IF i < first THEN 0 ELSE s[i - 1] + F[i]
        BY <2>1, <4>1 DEF Sums
      <4>3. t[i] = s[i]
        BY <3>2
      <4>4. ~(i < first) => t[i - 1] = s[i - 1]
        BY <2>2, <4>1
      <4> QED
        BY <4>2, <4>3, <4>4
    <3> QED
      BY <3>1, <3>2
  <2>4. t = [i \in (first - 1)..(m + 1) |-> t[i]]
    OBVIOUS
  <2> HIDE DEF t
  <2>5. Sums(t, F, first, m + 1)
    BY <2>3, <2>4 DEF Sums
  <2> QED
    BY <2>2, <2>5
<1> HIDE DEF S
<1>3. \A k \in Nat : k \in S
  BY <1>1, <1>2, SetInduction
<1>4. last - (first - 1) \in Nat /\ first - 1 + (last - (first - 1)) = last
  OBVIOUS
<1> QED
  BY <1>3, <1>4 DEF S

\* Two sums of F agree as far as both reach.
LEMMA SumUnique ==
  ASSUME NEW F, NEW first \in Int, NEW last \in Int, NEW mid \in (first - 1)..last, NEW s, NEW t,
         Sums(s, F, first, last), Sums(t, F, first, mid)
  PROVE  s[mid] = t[mid]
<1> DEFINE S == {k \in Nat : first - 1 + k <= mid => s[first - 1 + k] = t[first - 1 + k]}
<1>1. 0 \in S
  <2>1. first - 1 \in (first - 1)..last /\ first - 1 \in (first - 1)..mid /\ first - 1 < first
    OBVIOUS
  <2>2. s[first - 1] = 0 /\ t[first - 1] = 0
    BY <2>1 DEF Sums
  <2>3. first - 1 + 0 = first - 1
    OBVIOUS
  <2> QED
    BY <2>2, <2>3
<1>2. ASSUME NEW k \in Nat, k \in S PROVE k + 1 \in S
  <2> DEFINE i == first - 1 + (k + 1)
  <2> SUFFICES ASSUME i <= mid PROVE s[i] = t[i]
    OBVIOUS
  <2>1. /\ i \in (first - 1)..last /\ i \in (first - 1)..mid /\ ~(i < first)
        /\ i - 1 = first - 1 + k /\ i - 1 <= mid
    OBVIOUS
  <2>2. s[i - 1] = t[i - 1]
    BY <1>2, <2>1
  <2> HIDE DEF i
  <2>3. s[i] = s[i - 1] + F[i] /\ t[i] = t[i - 1] + F[i]
    BY <2>1 DEF Sums
  <2> QED
    BY <2>2, <2>3
<1> HIDE DEF S
<1>3. mid - (first - 1) \in Nat /\ first - 1 + (mid - (first - 1)) = mid
  OBVIOUS
<1>4. mid - (first - 1) \in S
  BY <1>1, <1>2, <1>3, SetInduction
<1> QED
  BY <1>3, <1>4 DEF S

\* What SumOf computes, step by step.
LEMMA SumSteps ==
  ASSUME NEW F, NEW first \in Int, NEW last \in Int, first - 1 <= last
  PROVE  SumOf(F, first, last) = IF last < first THEN 0 ELSE SumOf(F, first, last - 1) + F[last]
<1> DEFINE s == CHOOSE u : Sums(u, F, first, last)
           t == CHOOSE u : Sums(u, F, first, last - 1)
<1>1. Sums(s, F, first, last) /\ SumOf(F, first, last) = s[last]
  BY SumExists, SumOfIs
<1> HIDE DEF s
<1>2. last \in (first - 1)..last
  OBVIOUS
<1>3. s[last] = IF last < first THEN 0 ELSE s[last - 1] + F[last]
  BY <1>1, <1>2 DEF Sums
<1>4. ASSUME ~(last < first) PROVE s[last - 1] = SumOf(F, first, last - 1)
  <2>1. last - 1 \in Int /\ first - 1 <= last - 1 /\ last - 1 \in (first - 1)..last
    BY <1>4
  <2>2. Sums(t, F, first, last - 1) /\ SumOf(F, first, last - 1) = t[last - 1]
    BY <2>1, SumExists, SumOfIs
  <2> HIDE DEF t
  <2> QED
    BY <1>1, <2>1, <2>2, SumUnique
<1> QED
  BY <1>1, <1>3, <1>4

\* F and G agree from lo to hi, d candles apart.
Apart(F, G, d, lo, hi) == \A j \in lo..hi : G[j + d] = F[j]

\* From lo to hi, F is whole and G, d candles later, is c higher.
Raised(F, G, d, c, lo, hi) == \A j \in lo..hi : F[j] \in Int /\ G[j + d] = F[j] + c

\* F is whole from lo to hi.
Whole(F, lo, hi) == \A j \in lo..hi : F[j] \in Int

\* The next candle adds its value.
LEMMA SumNext ==
  ASSUME NEW F, NEW first \in Int, NEW m \in Int, first - 1 <= m
  PROVE  SumOf(F, first, m + 1) = SumOf(F, first, m) + F[m + 1]
<1> DEFINE l == m + 1
<1>1. l \in Int /\ first - 1 <= l /\ ~(l < first) /\ l - 1 = m
  OBVIOUS
<1> HIDE DEF l
<1>2. SumOf(F, first, l) = SumOf(F, first, l - 1) + F[l]
  BY <1>1, SumSteps
<1> QED
  BY <1>1, <1>2 DEF l

\* Where two functions agree, d candles apart, their sums do.
LEMMA SumShift ==
  ASSUME NEW F, NEW G, NEW d \in Int, NEW first \in Int, NEW last \in Int, first - 1 <= last,
         Apart(F, G, d, first, last)
  PROVE  SumOf(G, first + d, last + d) = SumOf(F, first, last)
<1> DEFINE S == {k \in Nat : first - 1 + k <= last =>
                   SumOf(G, first + d, first - 1 + k + d) = SumOf(F, first, first - 1 + k)}
<1>1. 0 \in S
  <2>1. SumOf(F, first, first - 1) = 0
    BY SumSteps
  <2>2. first - 1 + d \in Int /\ first + d \in Int /\ (first + d) - 1 <= first - 1 + d
        /\ first - 1 + d < first + d
    OBVIOUS
  <2>3. SumOf(G, first + d, first - 1 + d) = 0
    BY <2>2, SumSteps
  <2>4. first - 1 + 0 = first - 1
    OBVIOUS
  <2> QED
    BY <2>1, <2>3, <2>4
<1>2. ASSUME NEW k \in Nat, k \in S PROVE k + 1 \in S
  <2> DEFINE m == first - 1 + k
  <2>1. m \in Int /\ first - 1 <= m /\ first - 1 + (k + 1) = m + 1
    OBVIOUS
  <2>2. m + 1 <= last => SumOf(G, first + d, m + d) = SumOf(F, first, m)
    BY <1>2
  <2> HIDE DEF m
  <2> SUFFICES ASSUME m + 1 <= last PROVE SumOf(G, first + d, m + 1 + d) = SumOf(F, first, m + 1)
    BY <2>1
  <2>3. /\ m + 1 \in first..last /\ m + 1 \in Int /\ first - 1 <= m + 1
        /\ ~(m + 1 < first) /\ m + 1 - 1 = m
    BY <2>1
  <2>4. SumOf(F, first, m + 1) = SumOf(F, first, m) + F[m + 1]
    BY <2>1, <2>3, SumNext
  <2>5. m + d \in Int /\ first + d \in Int /\ (first + d) - 1 <= m + d /\ m + 1 + d = (m + d) + 1
    BY <2>1
  <2>6. SumOf(G, first + d, (m + d) + 1) = SumOf(G, first + d, m + d) + G[(m + d) + 1]
    BY <2>5, SumNext
  <2>7. G[m + 1 + d] = F[m + 1]
    BY <2>3 DEF Apart
  <2> QED
    BY <2>2, <2>4, <2>5, <2>6, <2>7
<1> HIDE DEF S
<1>3. last - (first - 1) \in Nat /\ first - 1 + (last - (first - 1)) = last
  OBVIOUS
<1>4. last - (first - 1) \in S
  BY <1>1, <1>2, <1>3, SetInduction
<1> QED
  BY <1>3, <1>4 DEF S

\* A sum of whole numbers is one.
LEMMA SumWhole ==
  ASSUME NEW F, NEW first \in Int, NEW last \in Int, first - 1 <= last,
         Whole(F, first, last)
  PROVE  SumOf(F, first, last) \in Int
<1> DEFINE S == {k \in Nat : first - 1 + k <= last => SumOf(F, first, first - 1 + k) \in Int}
<1>1. 0 \in S
  <2>1. SumOf(F, first, first - 1) = 0 /\ first - 1 + 0 = first - 1
    BY SumSteps
  <2> QED
    BY <2>1
<1>2. ASSUME NEW k \in Nat, k \in S PROVE k + 1 \in S
  <2> DEFINE m == first - 1 + k
  <2>1. m \in Int /\ first - 1 <= m /\ first - 1 + (k + 1) = m + 1
    OBVIOUS
  <2>2. m + 1 <= last => SumOf(F, first, m) \in Int
    BY <1>2
  <2> HIDE DEF m
  <2> SUFFICES ASSUME m + 1 <= last PROVE SumOf(F, first, m + 1) \in Int
    BY <2>1
  <2>3. /\ m + 1 \in first..last /\ m + 1 \in Int /\ first - 1 <= m + 1
        /\ ~(m + 1 < first) /\ m + 1 - 1 = m
    BY <2>1
  <2>4. SumOf(F, first, m + 1) = SumOf(F, first, m) + F[m + 1]
    BY <2>1, <2>3, SumNext
  <2>5. F[m + 1] \in Int
    BY <2>3 DEF Whole
  <2> QED
    BY <2>2, <2>4, <2>5
<1> HIDE DEF S
<1>3. last - (first - 1) \in Nat /\ first - 1 + (last - (first - 1)) = last
  OBVIOUS
<1>4. last - (first - 1) \in S
  BY <1>1, <1>2, <1>3, SetInduction
<1> QED
  BY <1>3, <1>4 DEF S

\* A sum is that of its two parts.
LEMMA SumSplit ==
  ASSUME NEW F, NEW first \in Int, NEW mid \in Int, NEW last \in Int, first - 1 <= mid, mid <= last,
         Whole(F, first, last)
  PROVE  SumOf(F, first, last) = SumOf(F, first, mid) + SumOf(F, mid + 1, last)
<1> DEFINE S == {k \in Nat : mid + k <= last =>
                   SumOf(F, first, mid + k) = SumOf(F, first, mid) + SumOf(F, mid + 1, mid + k)}
<1>0. SumOf(F, first, mid) \in Int
  <2>1. Whole(F, first, mid)
    BY DEF Whole
  <2> QED
    BY <2>1, SumWhole
<1>1. 0 \in S
  <2>1. mid + 1 \in Int /\ (mid + 1) - 1 <= mid /\ mid < mid + 1 /\ mid + 0 = mid
    OBVIOUS
  <2>2. SumOf(F, mid + 1, mid) = 0
    BY <2>1, SumSteps
  <2> QED
    BY <1>0, <2>1, <2>2
<1>2. ASSUME NEW k \in Nat, k \in S PROVE k + 1 \in S
  <2> DEFINE m == mid + k
  <2>1. m \in Int /\ mid <= m /\ first - 1 <= m /\ mid + (k + 1) = m + 1
    OBVIOUS
  <2>2. m + 1 <= last => SumOf(F, first, m) = SumOf(F, first, mid) + SumOf(F, mid + 1, m)
    BY <1>2
  <2> HIDE DEF m
  <2> SUFFICES ASSUME m + 1 <= last
               PROVE  SumOf(F, first, m + 1) = SumOf(F, first, mid) + SumOf(F, mid + 1, m + 1)
    BY <2>1
  <2>3. /\ m + 1 \in first..last /\ m + 1 \in Int /\ first - 1 <= m + 1 /\ ~(m + 1 < first)
        /\ m + 1 - 1 = m /\ mid + 1 \in Int /\ (mid + 1) - 1 <= m + 1 /\ ~(m + 1 < mid + 1)
        /\ (mid + 1) - 1 <= m
    BY <2>1
  <2>4. SumOf(F, first, m + 1) = SumOf(F, first, m) + F[m + 1]
    BY <2>1, <2>3, SumNext
  <2>5. SumOf(F, mid + 1, m + 1) = SumOf(F, mid + 1, m) + F[m + 1]
    BY <2>1, <2>3, SumNext
  <2>6. F[m + 1] \in Int
    BY <2>3 DEF Whole
  <2>7. SumOf(F, mid + 1, m) \in Int
    <3>1. Whole(F, mid + 1, m)
      BY <2>1 DEF Whole
    <3> QED
      BY <2>1, <2>3, <3>1, SumWhole
  <2> QED
    BY <1>0, <2>2, <2>4, <2>5, <2>6, <2>7
<1> HIDE DEF S
<1>3. last - mid \in Nat /\ mid + (last - mid) = last
  OBVIOUS
<1>4. last - mid \in S
  BY <1>1, <1>2, <1>3, SetInduction
<1> QED
  BY <1>3, <1>4 DEF S

\* The same of n candles, and of their sum.
RaisedOver(F, G, d, c, first, n) == Raised(F, G, d, c, first, first - 1 + n)
SumHigher(F, G, d, c, first, n) ==
  SumOf(G, first + d, first - 1 + n + d) = SumOf(F, first, first - 1 + n) + n * c

\* Raising every term by c raises a sum of n terms by n * c.
LEMMA SumRaised ==
  ASSUME NEW F, NEW G, NEW d \in Int, NEW c \in Int, NEW first \in Int, NEW n \in Nat,
         RaisedOver(F, G, d, c, first, n)
  PROVE  SumHigher(F, G, d, c, first, n)
<1> DEFINE S == {k \in Nat : k <= n =>
                   SumOf(G, first + d, first - 1 + k + d)
                     = SumOf(F, first, first - 1 + k) + k * c}
<1>1. 0 \in S
  <2>1. SumOf(F, first, first - 1) = 0
    BY SumSteps
  <2>2. first - 1 + d \in Int /\ first + d \in Int /\ (first + d) - 1 <= first - 1 + d
        /\ first - 1 + d < first + d
    OBVIOUS
  <2>3. SumOf(G, first + d, first - 1 + d) = 0
    BY <2>2, SumSteps
  <2>4. first - 1 + 0 = first - 1 /\ 0 + 0 * c = 0
    OBVIOUS
  <2> QED
    BY <2>1, <2>3, <2>4
<1>2. ASSUME NEW k \in Nat, k \in S PROVE k + 1 \in S
  <2> DEFINE m == first - 1 + k
  <2>1. m \in Int /\ first - 1 <= m /\ first - 1 + (k + 1) = m + 1
    OBVIOUS
  <2>2. k + 1 <= n => SumOf(G, first + d, m + d) = SumOf(F, first, m) + k * c
    BY <1>2
  <2>3. k + 1 <= n => F[m + 1] \in Int /\ G[m + 1 + d] = F[m + 1] + c
    BY DEF RaisedOver, Raised
  <2>4. k + 1 <= n => Whole(F, first, m)
    BY DEF RaisedOver, Raised, Whole
  <2> HIDE DEF m
  <2> SUFFICES ASSUME k + 1 <= n
               PROVE  SumOf(G, first + d, m + 1 + d) = SumOf(F, first, m + 1) + (k + 1) * c
    BY <2>1
  <2>5. SumOf(F, first, m + 1) = SumOf(F, first, m) + F[m + 1]
    BY <2>1, SumNext
  <2>6. m + d \in Int /\ first + d \in Int /\ (first + d) - 1 <= m + d /\ m + 1 + d = (m + d) + 1
    BY <2>1
  <2>7. SumOf(G, first + d, (m + d) + 1) = SumOf(G, first + d, m + d) + G[(m + d) + 1]
    BY <2>6, SumNext
  <2>8. SumOf(F, first, m) \in Int
    BY <2>1, <2>4, SumWhole
  <2>9. (k + 1) * c = k * c + c /\ k * c \in Int
    OBVIOUS
  <2> QED
    BY <2>2, <2>3, <2>5, <2>6, <2>7, <2>8, <2>9
<1> HIDE DEF S
<1>3. n \in S
  BY <1>1, <1>2, SetInduction
<1> QED
  BY <1>3 DEF S, SumHigher

\* A multiple of the divisor passes through the quotient.
LEMMA QuotientRaised ==
  ASSUME NEW s \in Int, NEW c \in Int, NEW n \in Nat, n > 0
  PROVE  (s + n * c) \div n = s \div n + c
<1> DEFINE q == s \div n
<1>1. q \in Int /\ n * q <= s /\ s < n * (q + 1)
  OBVIOUS
<1> HIDE DEF q
<1>0. \A a, b \in Int : n * (a + b) = n * a + n * b
  OBVIOUS
<1>2. /\ n * (q + c) = n * q + n * c /\ n * ((q + 1) + c) = n * (q + 1) + n * c
      /\ (q + 1) + c = (q + c) + 1
  BY <1>0, <1>1
<1>3. n * (q + c) <= s + n * c /\ s + n * c < n * ((q + c) + 1)
  BY <1>1, <1>2
<1>4. (s + n * c) \div n = q + c
  BY <1>1, <1>3
<1> QED
  BY <1>4 DEF q

\* F and G agree on the n candles up to i.
Alike(F, G, d, n, i) == Apart(F, G, d, i - n + 1, i)
\* Their extremes agree.
SameExtremes(F, G, d, n, i) ==
  Highest(G, n, i + d) = Highest(F, n, i) /\ Lowest(G, n, i + d) = Lowest(F, n, i)

\* The same of the extremes of a window.
LEMMA ExtremesShift ==
  ASSUME NEW F, NEW G, NEW d \in Int, NEW n \in Nat, NEW i \in Int, Alike(F, G, d, n, i)
  PROVE  SameExtremes(F, G, d, n, i)
<1>1. \A j \in (i - n + 1)..i : j + d \in (i + d - n + 1)..(i + d)
  OBVIOUS
<1>2. \A j \in (i + d - n + 1)..(i + d) : j - d \in (i - n + 1)..i /\ (j - d) + d = j
  OBVIOUS
<1>3. Window(G, n, i + d) = Window(F, n, i)
  BY <1>1, <1>2 DEF Window, Apart, Alike
<1> QED
  BY <1>3 DEF Highest, Lowest, SameExtremes

-----------------------------------------------------------------------------
(* Frames.  An indicator is the same, d candles apart, on a frame and on a    *)
(* longer one that ends with it.                                              *)

\* g is what f ends with, d candles later.
Ending(g, f, d) ==
  /\ d \in Nat /\ Len(g) \in Nat /\ Len(f) = Len(g) + d
  /\ DOMAIN g = 1..Len(g) /\ DOMAIN f = 1..Len(f)
  /\ \A i \in 1..Len(g) : f[i + d] = g[i]

\* Columns of such frames are as far apart.
LEMMA Columns ==
  ASSUME NEW g, NEW f, NEW d, Ending(g, f, d)
  PROVE  /\ \A j \in 1..Len(g) : j \in DOMAIN g /\ j + d \in DOMAIN f /\ f[j + d] = g[j]
         /\ d \in Int /\ Len(g) \in Nat
  BY DEF Ending

\* What is made of the n values up to candle i is the same.
Agree(F, G, d, n, i) ==
  /\ SumOf(G, (i + d) - n + 1, i + d) = SumOf(F, i - n + 1, i)
  /\ Average(G, n, i + d) = Average(F, n, i)
  /\ Highest(G, n, i + d) = Highest(F, n, i)
  /\ Lowest(G, n, i + d) = Lowest(F, n, i)

\* Windows that agree candle by candle agree in their sum, mean and extremes.
LEMMA AlikeAgree ==
  ASSUME NEW F, NEW G, NEW d \in Int, NEW n \in Nat, NEW i \in Int, Alike(F, G, d, n, i)
  PROVE  Agree(F, G, d, n, i)
<1>1. SumOf(G, (i + d) - n + 1, i + d) = SumOf(F, i - n + 1, i)
  <2> DEFINE a == i - n + 1
  <2>1. a \in Int /\ a - 1 <= i /\ (i + d) - n + 1 = a + d
    OBVIOUS
  <2>2. Apart(F, G, d, a, i)
    BY DEF Alike
  <2> HIDE DEF a
  <2>3. SumOf(G, a + d, i + d) = SumOf(F, a, i)
    BY <2>1, <2>2, SumShift
  <2> QED
    BY <2>1, <2>3 DEF a
<1>2. SameExtremes(F, G, d, n, i)
  BY ExtremesShift
<1> QED
  BY <1>1, <1>2, Zenon DEF Agree, Average, SameExtremes

\* The same inside a longer stretch on which F and G agree.
LEMMA WindowsAgree ==
  ASSUME NEW F, NEW G, NEW d \in Int, NEW lo \in Int, NEW hi \in Int, Apart(F, G, d, lo, hi),
         NEW n \in Nat, NEW i \in Int, i <= hi, lo <= i - n + 1
  PROVE  Agree(F, G, d, n, i)
<1>1. Alike(F, G, d, n, i)
  BY DEF Alike, Apart
<1> QED
  BY <1>1, AlikeAgree

\* Where the close is between the extremes is the same on both frames.
LEMMA RangePositionShift ==
  ASSUME NEW g, NEW f, NEW d, Ending(g, f, d), NEW n \in Nat, NEW i \in Int,
         n > 0, n <= i, i <= Len(g)
  PROVE  RangePosition(f, n, i + d) = RangePosition(g, n, i)
<1> DEFINE highF == [j \in DOMAIN f |-> f[j].high]
           highG == [j \in DOMAIN g |-> g[j].high]
           lowF  == [j \in DOMAIN f |-> f[j].low]
           lowG  == [j \in DOMAIN g |-> g[j].low]
<1>1. 1 \in Int /\ Len(g) \in Int /\ 1 <= i - n + 1
  BY Columns
<1>2. Apart(highG, highF, d, 1, Len(g)) /\ Apart(lowG, lowF, d, 1, Len(g))
  BY Columns DEF Apart
<1>3. f[i + d] = g[i] /\ d \in Int
  BY Columns
<1>4. /\ RangePosition(f, n, i + d) =
           (IF Highest(highF, n, i + d) - Lowest(lowF, n, i + d) = 0 THEN 50
            ELSE (100 * (f[i + d].close - Lowest(lowF, n, i + d)))
                   \div (Highest(highF, n, i + d) - Lowest(lowF, n, i + d)))
      /\ RangePosition(g, n, i) =
           (IF Highest(highG, n, i) - Lowest(lowG, n, i) = 0 THEN 50
            ELSE (100 * (g[i].close - Lowest(lowG, n, i)))
                   \div (Highest(highG, n, i) - Lowest(lowG, n, i)))
  BY DEF RangePosition
<1> HIDE DEF highF, highG, lowF, lowG
<1>5. /\ Highest(highF, n, i + d) = Highest(highG, n, i)
      /\ Lowest(lowF, n, i + d) = Lowest(lowG, n, i)
  <2>1. Agree(highG, highF, d, n, i) /\ Agree(lowG, lowF, d, n, i)
    BY <1>1, <1>2, <1>3, WindowsAgree
  <2> QED
    BY <2>1, Zenon DEF Agree
<1> QED
  BY <1>3, <1>4, <1>5

\* So is the middle of the range.
LEMMA MidpointShift ==
  ASSUME NEW g, NEW f, NEW d, Ending(g, f, d), NEW n \in Nat, NEW i \in Int,
         n > 0, n <= i, i <= Len(g)
  PROVE  Midpoint(f, n, i + d) = Midpoint(g, n, i)
<1> DEFINE highF == [j \in DOMAIN f |-> f[j].high]
           highG == [j \in DOMAIN g |-> g[j].high]
           lowF  == [j \in DOMAIN f |-> f[j].low]
           lowG  == [j \in DOMAIN g |-> g[j].low]
<1>1. 1 \in Int /\ Len(g) \in Int /\ 1 <= i - n + 1
  BY Columns
<1>2. Apart(highG, highF, d, 1, Len(g)) /\ Apart(lowG, lowF, d, 1, Len(g))
  BY Columns DEF Apart
<1>3. d \in Int
  BY Columns
<1>4. /\ Midpoint(f, n, i + d) = (Highest(highF, n, i + d) + Lowest(lowF, n, i + d)) \div 2
      /\ Midpoint(g, n, i) = (Highest(highG, n, i) + Lowest(lowG, n, i)) \div 2
  BY DEF Midpoint
<1> HIDE DEF highF, highG, lowF, lowG
<1>5. /\ Highest(highF, n, i + d) = Highest(highG, n, i)
      /\ Lowest(lowF, n, i + d) = Lowest(lowG, n, i)
  <2>1. Agree(highG, highF, d, n, i) /\ Agree(lowG, lowF, d, n, i)
    BY <1>1, <1>2, <1>3, WindowsAgree
  <2> QED
    BY <2>1, Zenon DEF Agree
<1> QED
  BY <1>4, <1>5

\* Moving averages: prices and volumes.
LEMMA MovingAveragesShift ==
  ASSUME NEW g, NEW f, NEW d, Ending(g, f, d), NEW i \in 1..Len(g),
         NEW p, p.short_window \in Nat, p.long_window \in Nat, p.volume_window \in Nat,
         p.short_window <= i, p.long_window <= i, p.volume_window <= i
  PROVE  MovingAverages(p, f, i + d) = MovingAverages(p, g, i)
<1> DEFINE closeF  == [j \in DOMAIN f |-> f[j].close]
           closeG  == [j \in DOMAIN g |-> g[j].close]
           volumeF == [j \in DOMAIN f |-> f[j].volume]
           volumeG == [j \in DOMAIN g |-> g[j].volume]
<1>1. Apart(closeG, closeF, d, 1, Len(g)) /\ Apart(volumeG, volumeF, d, 1, Len(g))
  BY Columns DEF Apart
<1>2. f[i + d] = g[i] /\ d \in Int /\ i \in Int /\ Len(g) \in Nat
  BY Columns
<1>3. /\ MovingAverages(p, f, i + d) =
           [short |-> Average(closeF, p.short_window, i + d),
            long |-> Average(closeF, p.long_window, i + d),
            volume |-> f[i + d].volume,
            volume_average |-> Average(volumeF, p.volume_window, i + d)]
      /\ MovingAverages(p, g, i) =
           [short |-> Average(closeG, p.short_window, i),
            long |-> Average(closeG, p.long_window, i),
            volume |-> g[i].volume, volume_average |-> Average(volumeG, p.volume_window, i)]
  BY DEF MovingAverages
<1> HIDE DEF closeF, closeG, volumeF, volumeG
<1>4. ASSUME NEW n \in Nat, n <= i
      PROVE  /\ Average(closeF, n, i + d) = Average(closeG, n, i)
             /\ Average(volumeF, n, i + d) = Average(volumeG, n, i)
  <2>1. 1 \in Int /\ Len(g) \in Int /\ 1 <= i - n + 1 /\ i <= Len(g)
    BY <1>2, <1>4
  <2>2. Agree(closeG, closeF, d, n, i) /\ Agree(volumeG, volumeF, d, n, i)
    BY <1>1, <1>2, <2>1, WindowsAgree
  <2> QED
    BY <2>2, Zenon DEF Agree
<1> QED
  BY <1>2, <1>3, <1>4

\* Bollinger: the mean and the deviation of the window.
LEMMA BollingerShift ==
  ASSUME NEW g, NEW f, NEW d, Ending(g, f, d), NEW i \in 1..Len(g),
         NEW p, p.window \in Nat, p.window <= i
  PROVE  BollingerBand(p, f, i + d) = BollingerBand(p, g, i)
<1> DEFINE closeF  == [j \in DOMAIN f |-> f[j].close]
           closeG  == [j \in DOMAIN g |-> g[j].close]
           squareF == [j \in DOMAIN f |-> f[j].close * f[j].close]
           squareG == [j \in DOMAIN g |-> g[j].close * g[j].close]
           sumF == SumOf(closeF, (i + d) - p.window + 1, i + d)
           sumG == SumOf(closeG, i - p.window + 1, i)
           allF == SumOf(squareF, (i + d) - p.window + 1, i + d)
           allG == SumOf(squareG, i - p.window + 1, i)
<1>1. Apart(closeG, closeF, d, 1, Len(g)) /\ Apart(squareG, squareF, d, 1, Len(g))
  BY Columns DEF Apart
<1>2. f[i + d] = g[i] /\ d \in Int /\ i \in Int /\ Len(g) \in Int /\ 1 \in Int /\ i <= Len(g)
  BY Columns
<1>3. 1 <= i - p.window + 1
  BY <1>2
<1>4. /\ BollingerBand(p, f, i + d) =
           [close |-> f[i + d].close * p.window,
            lower |-> sumF - RootOf(p.std_dev * p.std_dev * (p.window * allF - sumF * sumF)),
            upper |-> sumF + RootOf(p.std_dev * p.std_dev * (p.window * allF - sumF * sumF))]
      /\ BollingerBand(p, g, i) =
           [close |-> g[i].close * p.window,
            lower |-> sumG - RootOf(p.std_dev * p.std_dev * (p.window * allG - sumG * sumG)),
            upper |-> sumG + RootOf(p.std_dev * p.std_dev * (p.window * allG - sumG * sumG))]
  BY DEF BollingerBand
<1> HIDE DEF closeF, closeG, squareF, squareG
<1>5. sumF = sumG /\ allF = allG
  <2>1. Agree(closeG, closeF, d, p.window, i) /\ Agree(squareG, squareF, d, p.window, i)
    BY <1>1, <1>2, <1>3, WindowsAgree
  <2> QED
    BY <2>1, Zenon DEF Agree
<1> HIDE DEF sumF, sumG, allF, allG
<1> QED
  BY <1>2, <1>4, <1>5

\* Williams %R: the position in the range.
LEMMA WilliamsRShift ==
  ASSUME NEW g, NEW f, NEW d, Ending(g, f, d), NEW i \in 1..Len(g),
         NEW p, p.window \in Nat, p.window > 0, p.window <= i
  PROVE  WilliamsRLine(p, f, i + d) = WilliamsRLine(p, g, i)
<1>1. i \in Int /\ i <= Len(g)
  BY Columns
<1> QED
  BY <1>1, RangePositionShift DEF WilliamsRLine

\* CCI: the mean of typical prices, and the mean distance from it.
LEMMA CCIShift ==
  ASSUME NEW g, NEW f, NEW d, Ending(g, f, d), NEW i \in 1..Len(g),
         NEW p, p.window \in Nat, p.window > 0, p.window <= i
  PROVE  CCILine(p, f, i + d) = CCILine(p, g, i)
<1> DEFINE typicalF == [j \in DOMAIN f |-> (f[j].high + f[j].low + f[j].close) \div 3]
           typicalG == [j \in DOMAIN g |-> (g[j].high + g[j].low + g[j].close) \div 3]
           meanF == Average(typicalF, p.window, i + d)
           meanG == Average(typicalG, p.window, i)
           deviationF == [j \in DOMAIN f |-> Distance(typicalF[j], meanF)]
           deviationG == [j \in DOMAIN g |-> Distance(typicalG[j], meanG)]
           madF == Average(deviationF, p.window, i + d)
           madG == Average(deviationG, p.window, i)
<1>1. /\ d \in Int /\ i \in Int /\ Len(g) \in Int /\ 1 \in Int /\ i <= Len(g)
      /\ i + d \in DOMAIN f /\ i \in DOMAIN g
  BY Columns
<1>2. 1 <= i - p.window + 1
  BY <1>1
<1>3. Apart(typicalG, typicalF, d, 1, Len(g))
  BY Columns DEF Apart
<1>4. /\ CCILine(p, f, i + d) =
           [cci |-> IF madF = 0 THEN 0 ELSE (1000 * (typicalF[i + d] - meanF)) \div (15 * madF)]
      /\ CCILine(p, g, i) =
           [cci |-> IF madG = 0 THEN 0 ELSE (1000 * (typicalG[i] - meanG)) \div (15 * madG)]
  BY DEF CCILine
<1> HIDE DEF typicalF, typicalG
<1>5. meanF = meanG
  <2>1. Agree(typicalG, typicalF, d, p.window, i)
    BY <1>1, <1>2, <1>3, WindowsAgree
  <2> QED
    BY <2>1, Zenon DEF Agree
<1>6. Apart(deviationG, deviationF, d, 1, Len(g))
  BY <1>3, <1>5, Columns DEF Apart
<1>7. typicalF[i + d] = typicalG[i]
  BY <1>3 DEF Apart
<1> HIDE DEF deviationF, deviationG
<1>8. madF = madG
  <2>1. Agree(deviationG, deviationF, d, p.window, i)
    BY <1>1, <1>2, <1>6, WindowsAgree
  <2> QED
    BY <2>1, Zenon DEF Agree
<1> HIDE DEF madF, madG, meanF, meanG
<1> QED
  BY <1>4, <1>5, <1>7, <1>8

\* Stochastic: a mean of means of positions in the range, so that three windows add up.
LEMMA StochasticShift ==
  ASSUME NEW g, NEW f, NEW d, Ending(g, f, d), NEW i \in 1..Len(g),
         NEW p, p.k_period \in Nat, p.k_period > 0, p.smooth_k \in Nat, p.smooth_k > 0,
         p.d_period \in Nat, p.d_period > 0, p.k_period + p.smooth_k + p.d_period - 2 <= i
  PROVE  StochasticLines(p, f, i + d) = StochasticLines(p, g, i)
<1> DEFINE a == p.k_period
           b == p.smooth_k
           c == p.d_period
<1>a. a \in Nat /\ a > 0 /\ b \in Nat /\ b > 0 /\ c \in Nat /\ c > 0 /\ a + b + c - 2 <= i
  OBVIOUS
<1> HIDE DEF a, b, c
<1> DEFINE fastF == [j \in DOMAIN f |-> RangePosition(f, a, j)]
           fastG == [j \in DOMAIN g |-> RangePosition(g, a, j)]
           kF == [j \in DOMAIN f |-> Average(fastF, b, j)]
           kG == [j \in DOMAIN g |-> Average(fastG, b, j)]
           smooth == a + b - 1
<1>0. d \in Int /\ Len(g) \in Nat /\ i \in Int /\ 1 <= i /\ i <= Len(g)
  BY Columns
<1>1. /\ d \in Int /\ i \in Int /\ Len(g) \in Int /\ i <= Len(g)
      /\ a \in Int /\ smooth \in Int /\ smooth <= i - c + 1
  BY <1>0, <1>a
<1>2. Apart(fastG, fastF, d, a, Len(g))
  <2>1. \A j \in a..Len(g) : j \in 1..Len(g) /\ j \in Int /\ a <= j /\ j <= Len(g)
    BY <1>1, <1>a
  <2>2. \A j \in a..Len(g) : RangePosition(f, a, j + d) = RangePosition(g, a, j)
    BY <1>a, <2>1, RangePositionShift
  <2> QED
    BY <2>1, <2>2, Columns DEF Apart
<1>3. /\ StochasticLines(p, f, i + d) = [k |-> kF[i + d], d |-> Average(kF, c, i + d)]
      /\ StochasticLines(p, g, i) = [k |-> kG[i], d |-> Average(kG, c, i)]
  BY DEF StochasticLines, a, b, c
<1> HIDE DEF fastF, fastG
<1>4. Apart(kG, kF, d, smooth, Len(g))
  <2>1. \A j \in smooth..Len(g) : /\ j \in 1..Len(g) /\ j \in Int /\ j <= Len(g)
                                  /\ a <= j - b + 1
    BY <1>0, <1>a
  <2>2. ASSUME NEW j \in smooth..Len(g)
        PROVE  Average(fastF, b, j + d) = Average(fastG, b, j)
    <3>1. Agree(fastG, fastF, d, b, j)
      BY <1>1, <1>2, <1>a, <2>1, WindowsAgree
    <3> QED
      BY <3>1, Zenon DEF Agree
  <2> QED
    BY <2>1, <2>2, Columns DEF Apart
<1> HIDE DEF kF, kG
<1>5. i \in smooth..Len(g)
  BY <1>1, <1>a
<1>6. kF[i + d] = kG[i]
  BY <1>4, <1>5 DEF Apart
<1> HIDE DEF smooth
<1>7. Average(kF, c, i + d) = Average(kG, c, i)
  <2>1. Agree(kG, kF, d, c, i)
    BY <1>1, <1>4, <1>a, WindowsAgree
  <2> QED
    BY <2>1, Zenon DEF Agree
<1> QED
  BY <1>3, <1>6, <1>7

\* Ichimoku: the middles of ranges, some of them `displacement` candles before.
LEMMA IchimokuShift ==
  ASSUME NEW g, NEW f, NEW d, Ending(g, f, d), NEW i \in 1..Len(g),
         NEW p, p.conversion_period \in Nat, p.conversion_period > 0,
         p.base_period \in Nat, p.base_period > 0, p.span_b_period \in Nat, p.span_b_period > 0,
         p.displacement \in Nat, p.conversion_period + p.displacement <= i,
         p.base_period + p.displacement <= i, p.span_b_period + p.displacement <= i
  PROVE  IchimokuLines(p, f, i + d) = IchimokuLines(p, g, i)
<1> DEFINE a == p.conversion_period
           b == p.base_period
           c == p.span_b_period
           e == p.displacement
<1>a. /\ a \in Nat /\ a > 0 /\ b \in Nat /\ b > 0 /\ c \in Nat /\ c > 0 /\ e \in Nat
      /\ a + e <= i /\ b + e <= i /\ c + e <= i
  OBVIOUS
<1> HIDE DEF a, b, c, e
<1> DEFINE tenkanF == [j \in DOMAIN f |-> Midpoint(f, a, j)]
           tenkanG == [j \in DOMAIN g |-> Midpoint(g, a, j)]
           kijunF == [j \in DOMAIN f |-> Midpoint(f, b, j)]
           kijunG == [j \in DOMAIN g |-> Midpoint(g, b, j)]
           t == i - e
<1>0. d \in Int /\ Len(g) \in Nat /\ i \in Int /\ 1 <= i /\ i <= Len(g)
  BY Columns
<1>1. /\ d \in Int /\ i \in Int /\ t \in Int /\ i <= Len(g) /\ t <= i
      /\ a <= t /\ b <= t /\ c <= t
      /\ (i + d) - e = t + d
  BY <1>0, <1>a
<1> HIDE DEF t
<1>7. /\ t \in 1..Len(g) /\ t <= Len(g)
      /\ a <= i /\ b <= i
  BY <1>0, <1>1, <1>a
<1>2. f[i + d] = g[i] /\ {i + d, t + d} \subseteq DOMAIN f /\ {i, t} \subseteq DOMAIN g
  <2>1. f[i + d] = g[i] /\ i + d \in DOMAIN f /\ i \in DOMAIN g
    BY Columns
  <2>2. t + d \in DOMAIN f /\ t \in DOMAIN g
    BY <1>7, Columns, Zenon
  <2> QED
    BY <2>1, <2>2
<1>3. /\ IchimokuLines(p, f, i + d) =
           [close |-> f[i + d].close, tenkan |-> tenkanF[i + d], kijun |-> kijunF[i + d],
            span_a |-> (tenkanF[(i + d) - e] + kijunF[(i + d) - e]) \div 2,
            span_b |-> Midpoint(f, c, (i + d) - e)]
      /\ IchimokuLines(p, g, i) =
           [close |-> g[i].close, tenkan |-> tenkanG[i], kijun |-> kijunG[i],
            span_a |-> (tenkanG[t] + kijunG[t]) \div 2,
            span_b |-> Midpoint(g, c, t)]
  BY DEF IchimokuLines, t, a, b, c, e
<1>4. tenkanF[i + d] = tenkanG[i] /\ tenkanF[t + d] = tenkanG[t]
  BY <1>1, <1>7, <1>2, <1>a, MidpointShift
<1>5. kijunF[i + d] = kijunG[i] /\ kijunF[t + d] = kijunG[t]
  BY <1>1, <1>7, <1>2, <1>a, MidpointShift
<1>6. Midpoint(f, c, t + d) = Midpoint(g, c, t)
  BY <1>1, <1>7, <1>a, MidpointShift
<1> HIDE DEF tenkanF, tenkanG, kijunF, kijunG
<1> QED
  BY <1>1, <1>2, <1>3, <1>4, <1>5, <1>6

\* Volume breakout: windows that leave the newest candle out.
LEMMA BreakoutShift ==
  ASSUME NEW g, NEW f, NEW d, Ending(g, f, d), NEW i \in 1..Len(g),
         NEW p, p.breakout_window \in Nat, p.volume_window \in Nat, p.exit_window \in Nat,
         p.breakout_window + 1 <= i, p.volume_window + 1 <= i, p.exit_window + 1 <= i
  PROVE  BreakoutLines(p, f, i + d) = BreakoutLines(p, g, i)
<1> DEFINE m == p.breakout_window
           v == p.volume_window
           e == p.exit_window
<1>a. m \in Nat /\ v \in Nat /\ e \in Nat /\ m + 1 <= i /\ v + 1 <= i /\ e + 1 <= i
  OBVIOUS
<1> HIDE DEF m, v, e
<1> DEFINE highF   == [j \in DOMAIN f |-> f[j].high]
           highG   == [j \in DOMAIN g |-> g[j].high]
           lowF    == [j \in DOMAIN f |-> f[j].low]
           lowG    == [j \in DOMAIN g |-> g[j].low]
           volumeF == [j \in DOMAIN f |-> f[j].volume]
           volumeG == [j \in DOMAIN g |-> g[j].volume]
           b == i - 1
<1>h. Apart(highG, highF, d, 1, Len(g))
  BY Columns DEF Apart
<1>l. Apart(lowG, lowF, d, 1, Len(g))
  BY Columns DEF Apart
<1>v. Apart(volumeG, volumeF, d, 1, Len(g))
  BY Columns DEF Apart
<1>0. f[i + d] = g[i] /\ d \in Int /\ Len(g) \in Nat /\ i \in Int /\ i <= Len(g)
  BY Columns
<1>2. /\ d \in Int /\ Len(g) \in Int /\ 1 \in Int
      /\ b \in Int /\ b <= Len(g) /\ (i + d) - 1 = b + d
      /\ 1 <= b - m + 1 /\ 1 <= b - v + 1
      /\ 1 <= b - e + 1
  BY <1>0, <1>a
<1>3. /\ BreakoutLines(p, f, i + d) =
           [close |-> f[i + d].close, volume |-> f[i + d].volume,
            breakout_high |-> Highest(highF, m, (i + d) - 1),
            volume_average |-> Average(volumeF, v, (i + d) - 1),
            exit_low |-> Lowest(lowF, e, (i + d) - 1)]
      /\ BreakoutLines(p, g, i) =
           [close |-> g[i].close, volume |-> g[i].volume,
            breakout_high |-> Highest(highG, m, b),
            volume_average |-> Average(volumeG, v, b),
            exit_low |-> Lowest(lowG, e, b)]
  BY DEF BreakoutLines, m, v, e
<1> HIDE DEF highF, highG, lowF, lowG, volumeF, volumeG, b
<1>4. Highest(highF, m, b + d) = Highest(highG, m, b)
  <2>1. Agree(highG, highF, d, m, b)
    BY <1>h, <1>2, <1>a, WindowsAgree
  <2> QED
    BY <2>1, Zenon DEF Agree
<1>5. Average(volumeF, v, b + d) = Average(volumeG, v, b)
  <2>1. Agree(volumeG, volumeF, d, v, b)
    BY <1>v, <1>2, <1>a, WindowsAgree
  <2> QED
    BY <2>1, Zenon DEF Agree
<1>6. Lowest(lowF, e, b + d) = Lowest(lowG, e, b)
  <2>1. Agree(lowG, lowF, d, e, b)
    BY <1>l, <1>2, <1>a, WindowsAgree
  <2> QED
    BY <2>1, Zenon DEF Agree
<1> QED
  BY <1>0, <1>2, <1>3, <1>4, <1>5, <1>6

-----------------------------------------------------------------------------
(* On balance volume is not: it differs by a constant, which its own mean     *)
(* carries too, so that the rule compares the same.                           *)

\* The volumes a rise adds and a fall takes away, candle by candle.
FlowOf(f) ==
  [j \in 2..Len(f) |->
     IF f[j].close > f[j - 1].close THEN f[j].volume
     ELSE IF f[j].close < f[j - 1].close THEN - f[j].volume ELSE 0]
ObvOf(f) == [j \in DOMAIN f |-> SumOf(FlowOf(f), 2, j)]
CloseOf(f) == [j \in DOMAIN f |-> f[j].close]

\* What OBVLines' LET says.
LEMMA OBVLinesAre ==
  ASSUME NEW p, NEW f, NEW i
  PROVE  OBVLines(p, f, i) =
           [obv |-> ObvOf(f)[i], obv_average |-> Average(ObvOf(f), p.obv_window, i),
            close |-> f[i].close, price_average |-> Average(CloseOf(f), p.price_window, i)]
  BY DEF OBVLines, ObvOf, FlowOf, CloseOf

\* On balance volume differs by what the candles before the shorter frame add.
LEMMA ObvShift ==
  ASSUME NEW g, NEW f, NEW d, Ending(g, f, d), Len(g) >= 1,
         \A j \in 1..Len(f) : f[j].volume \in Nat
  PROVE  \E c \in Int : Raised(ObvOf(g), ObvOf(f), d, c, 1, Len(g))
<1>1. /\ d \in Nat /\ Len(g) \in Nat /\ Len(f) = Len(g) + d
      /\ DOMAIN g = 1..Len(g) /\ DOMAIN f = 1..Len(f)
      /\ \A i \in 1..Len(g) : f[i + d] = g[i]
  BY DEF Ending
<1>2. \A j \in 2..Len(f) : FlowOf(f)[j] \in Int
  BY <1>1 DEF FlowOf
<1>3. \A j \in 2..Len(g) : FlowOf(f)[j + d] = FlowOf(g)[j]
  <2> SUFFICES ASSUME NEW j \in 2..Len(g) PROVE FlowOf(f)[j + d] = FlowOf(g)[j]
    OBVIOUS
  <2>1. j \in 1..Len(g) /\ j - 1 \in 1..Len(g) /\ (j + d) - 1 = (j - 1) + d /\ j + d \in 2..Len(f)
    BY <1>1
  <2>2. f[j + d] = g[j] /\ f[(j + d) - 1] = g[j - 1]
    BY <1>1, <2>1
  <2> QED
    BY <2>1, <2>2 DEF FlowOf
<1>4. \A j \in 2..Len(g) : FlowOf(g)[j] \in Int
  <2> SUFFICES ASSUME NEW j \in 2..Len(g) PROVE FlowOf(g)[j] \in Int
    OBVIOUS
  <2>1. j + d \in 2..Len(f)
    BY <1>1
  <2> QED
    BY <1>2, <1>3, <2>1
<1> DEFINE c == SumOf(FlowOf(f), 2, d + 1)
<1>5. c \in Int
  <2>1. d + 1 \in Int /\ 2 - 1 <= d + 1 /\ \A j \in 2..(d + 1) : j \in 2..Len(f)
    BY <1>1
  <2>2. Whole(FlowOf(f), 2, d + 1)
    BY <1>2, <2>1 DEF Whole
  <2> QED
    BY <2>1, <2>2, SumWhole
<1>6. ASSUME NEW j \in 1..Len(g)
      PROVE  ObvOf(g)[j] \in Int /\ ObvOf(f)[j + d] = ObvOf(g)[j] + c
  <2>1. /\ j \in Int /\ d \in Int /\ j + d \in Int /\ d + 1 \in Int /\ 2 - 1 <= j /\ 2 - 1 <= d + 1
        /\ d + 1 <= j + d /\ (d + 1) + 1 = 2 + d /\ j + d \in DOMAIN f /\ j \in DOMAIN g
    BY <1>1
  <2>2. /\ \A k \in 2..j : k \in 2..Len(g)
        /\ \A k \in 2..(j + d) : k \in 2..Len(f)
    BY <1>1
  <2>3. Whole(FlowOf(g), 2, j) /\ Apart(FlowOf(g), FlowOf(f), d, 2, j) /\ Whole(FlowOf(f), 2, j + d)
    BY <1>2, <1>3, <1>4, <2>2 DEF Whole, Apart
  <2>4. SumOf(FlowOf(f), 2 + d, j + d) = SumOf(FlowOf(g), 2, j)
    BY <2>1, <2>3, SumShift
  <2>5. SumOf(FlowOf(g), 2, j) \in Int
    BY <2>1, <2>3, SumWhole
  <2>6. SumOf(FlowOf(f), 2, j + d) = c + SumOf(FlowOf(f), (d + 1) + 1, j + d)
    BY <2>1, <2>3, SumSplit
  <2>7. ObvOf(g)[j] = SumOf(FlowOf(g), 2, j) /\ ObvOf(f)[j + d] = SumOf(FlowOf(f), 2, j + d)
    BY <2>1 DEF ObvOf
  <2> HIDE DEF c
  <2> QED
    BY <1>5, <2>1, <2>4, <2>5, <2>6, <2>7
<1> HIDE DEF c
<1> QED
  BY <1>5, <1>6 DEF Raised

\* The mean of n candles up to i is c higher, d candles later.
AverageHigher(F, G, d, c, n, i) ==
  Average(F, n, i) \in Int /\ Average(G, n, i + d) = Average(F, n, i) + c

\* The mean of a window is higher by as much.
LEMMA AverageRaised ==
  ASSUME NEW F, NEW G, NEW d \in Int, NEW c \in Int, NEW n \in Nat, n > 0, NEW hi \in Int,
         Raised(F, G, d, c, 1, hi), NEW i \in Int, n <= i, i <= hi
  PROVE  AverageHigher(F, G, d, c, n, i)
<1> DEFINE a == i - n + 1
<1>1. /\ a \in Int /\ a - 1 <= i /\ (i + d) - n + 1 = a + d /\ a - 1 + n = i
      /\ a - 1 + n + d = i + d
  OBVIOUS
<1>2. Whole(F, a, i) /\ RaisedOver(F, G, d, c, a, n)
  BY DEF Whole, RaisedOver, Raised
<1>3. /\ Average(F, n, i) = SumOf(F, a, i) \div n
      /\ Average(G, n, i + d) = SumOf(G, a + d, i + d) \div n
  BY <1>1 DEF Average
<1> HIDE DEF a
<1>4. SumOf(F, a, i) \in Int
  BY <1>1, <1>2, SumWhole
<1>5. SumHigher(F, G, d, c, a, n)
  BY <1>1, <1>2, SumRaised
<1>6. SumOf(G, a + d, i + d) = SumOf(F, a, i) + n * c
  BY <1>1, <1>5 DEF SumHigher
<1>7. (SumOf(F, a, i) + n * c) \div n = SumOf(F, a, i) \div n + c
  BY <1>4, QuotientRaised
<1>8. SumOf(F, a, i) \div n \in Int
  BY <1>4
<1> QED
  BY <1>3, <1>6, <1>7, <1>8 DEF AverageHigher

\* The warmup of obv covers its windows, on the candle before too.
LEMMA OBVParamsAre ==
  ASSUME NEW p \in OBVParams
  PROVE  /\ p.obv_window \in Nat /\ p.obv_window > 0 /\ p.price_window \in Nat
         /\ OBVWarmup(p) \in Int
         /\ p.obv_window + 1 <= OBVWarmup(p) /\ p.price_window + 1 <= OBVWarmup(p)
<1> DEFINE o == p.obv_window
           w == p.price_window
<1>1. o \in 2..500
  BY DEF OBVParams
<1>2. w \in 0..500
  BY DEF OBVParams
<1>3. OBVWarmup(p) = Longer(o, w) + 1
  BY DEF OBVWarmup
<1> HIDE DEF o, w
<1>4. /\ o \in Nat /\ o > 0 /\ w \in Nat /\ Longer(o, w) \in Int
      /\ o + 1 <= Longer(o, w) + 1 /\ w + 1 <= Longer(o, w) + 1
  BY <1>1, <1>2 DEF Longer
<1> QED
  BY <1>3, <1>4 DEF o, w

\* The rule of obv compares on balance volume with its own mean: the constant cancels.
LEMMA OBVSame ==
  ASSUME NEW g, NEW f, NEW d, Ending(g, f, d), \A j \in 1..Len(f) : f[j].volume \in Nat,
         NEW p \in OBVParams,
         Len(g) >= OBVWarmup(p)
  PROVE  OBVRule(p, OBVLines(p, f, Len(f) - 1), OBVLines(p, f, Len(f)))
           = OBVRule(p, OBVLines(p, g, Len(g) - 1), OBVLines(p, g, Len(g)))
<1> DEFINE l == Len(g)
<1>1. d \in Int /\ d \in Nat /\ l \in Nat /\ Len(f) = l + d
  BY DEF Ending
<1>2. p.obv_window \in Nat /\ p.obv_window > 0 /\ p.price_window \in Nat
      /\ OBVWarmup(p) \in Int /\ p.obv_window + 1 <= OBVWarmup(p)
      /\ p.price_window + 1 <= OBVWarmup(p)
  BY OBVParamsAre
<1>3. p.obv_window + 1 <= l /\ p.price_window + 1 <= l
  BY <1>1, <1>2
<1>4. PICK c \in Int : Raised(ObvOf(g), ObvOf(f), d, c, 1, Len(g))
  <2>1. Len(g) >= 1
    BY <1>1, <1>2, <1>3
  <2> QED
    BY <2>1, ObvShift
<1>5. ASSUME NEW i \in {l - 1, l}
      PROVE  LET x == OBVLines(p, g, i)
                 y == OBVLines(p, f, i + d)
             IN  /\ x.obv \in Int /\ x.obv_average \in Int
                 /\ y.obv = x.obv + c /\ y.obv_average = x.obv_average + c
                 /\ y.close = x.close /\ y.price_average = x.price_average
  <2>1. i \in Int /\ i \in 1..Len(g) /\ p.obv_window <= i /\ p.price_window <= i /\ i <= Len(g)
    BY <1>1, <1>2, <1>3
  <2>2. ObvOf(g)[i] \in Int /\ ObvOf(f)[i + d] = ObvOf(g)[i] + c
    BY <1>4, <2>1 DEF Raised
  <2>3. /\ Average(ObvOf(g), p.obv_window, i) \in Int
        /\ Average(ObvOf(f), p.obv_window, i + d) = Average(ObvOf(g), p.obv_window, i) + c
    <3>1. AverageHigher(ObvOf(g), ObvOf(f), d, c, p.obv_window, i)
      BY <1>1, <1>2, <1>4, <2>1, AverageRaised
    <3> QED
      BY <3>1, Zenon DEF AverageHigher
  <2>4. f[i + d] = g[i]
    BY <2>1, Columns
  <2>5. Average(CloseOf(f), p.price_window, i + d) = Average(CloseOf(g), p.price_window, i)
    <3>1. Apart(CloseOf(g), CloseOf(f), d, 1, Len(g))
      BY Columns DEF Apart, CloseOf
    <3>2. 1 \in Int /\ Len(g) \in Int /\ 1 <= i - p.price_window + 1
      BY <1>1, <1>2, <2>1
    <3>3. Agree(CloseOf(g), CloseOf(f), d, p.price_window, i)
      BY <1>1, <1>2, <2>1, <3>1, <3>2, WindowsAgree
    <3> QED
      BY <3>3, Zenon DEF Agree
  <2> QED
    BY <2>2, <2>3, <2>4, <2>5, OBVLinesAre
<1>6. Len(f) = Len(g) + d /\ Len(f) - 1 = (Len(g) - 1) + d
  BY <1>1
<1> DEFINE x0 == OBVLines(p, g, Len(g) - 1)
           x  == OBVLines(p, g, Len(g))
           y0 == OBVLines(p, f, (Len(g) - 1) + d)
           y  == OBVLines(p, f, Len(g) + d)
<1>7. /\ x0.obv \in Int /\ x0.obv_average \in Int /\ x.obv \in Int /\ x.obv_average \in Int
      /\ y0.obv = x0.obv + c /\ y0.obv_average = x0.obv_average + c
      /\ y.obv = x.obv + c /\ y.obv_average = x.obv_average + c
      /\ y0.close = x0.close /\ y0.price_average = x0.price_average
      /\ y.close = x.close /\ y.price_average = x.price_average
  BY <1>5
<1> HIDE DEF x0, x, y0, y
<1>8. OBVRule(p, y0, y) = OBVRule(p, x0, x)
  <2>1. (y0.obv > y0.obv_average) = (x0.obv > x0.obv_average)
    BY <1>7
  <2>2. (y.obv > y.obv_average) = (x.obv > x.obv_average)
    BY <1>7
  <2>3. (y0.obv >= y0.obv_average) = (x0.obv >= x0.obv_average)
    BY <1>7
  <2>4. (y.obv < y.obv_average) = (x.obv < x.obv_average)
    BY <1>7
  <2> QED
    BY <1>7, <2>1, <2>2, <2>3, <2>4 DEF OBVRule, RisingEdge, CrossBelow
<1> QED
  BY <1>6, <1>8 DEF x0, x, y0, y

-----------------------------------------------------------------------------
(* The rule of every strategy is the same on both frames.                     *)

\* The candle a rule looks at and the one before, in both frames.
LEMMA LastTwo ==
  ASSUME NEW g, NEW f, NEW d, Ending(g, f, d), NEW w \in Int, w >= 2, Len(g) >= w
  PROVE  /\ Len(f) = Len(g) + d /\ Len(f) - 1 = (Len(g) - 1) + d
         /\ Len(g) \in 1..Len(g) /\ Len(g) - 1 \in 1..Len(g)
         /\ Len(g) - 1 >= w - 1 /\ Len(g) >= w - 1
  BY DEF Ending

\* The warmup of ma_cross covers its windows, on the candle before too.
LEMMA MovingAverageParamsAre ==
  ASSUME NEW p \in MovingAverageCrossParams
  PROVE  /\ MovingAverageCrossWarmup(p) \in Int /\ MovingAverageCrossWarmup(p) >= 2
         /\ \A i \in Int : i >= MovingAverageCrossWarmup(p) - 1 =>
              /\ p.short_window \in Nat /\ p.short_window <= i
              /\ p.long_window \in Nat /\ p.long_window <= i
              /\ p.volume_window \in Nat /\ p.volume_window <= i
<1> DEFINE a == p.short_window
           b == p.long_window
           c == p.volume_window
           d == p.rsi_window
           w == Longest(b, c, IF d > 0 THEN d + 1 ELSE 0) + 1
<1>1. a \in 2..500
  BY DEF MovingAverageCrossParams
<1>2. b \in 3..1000
  BY DEF MovingAverageCrossParams
<1>3. c \in 0..500
  BY DEF MovingAverageCrossParams
<1>4. d \in 0..200
  BY DEF MovingAverageCrossParams
<1>5. a < b
  BY DEF MovingAverageCrossParams
<1>6. MovingAverageCrossWarmup(p) = w
  BY DEF MovingAverageCrossWarmup
<1> HIDE DEF a, b, c, d
<1>7. /\ w \in Int /\ w >= 2
      /\ \A i \in Int : i >= w - 1 =>
           /\ a \in Nat /\ a <= i
           /\ b \in Nat /\ b <= i
           /\ c \in Nat /\ c <= i
  BY <1>1, <1>2, <1>3, <1>4, <1>5 DEF Longest, Longer
<1> HIDE DEF w
<1> QED
  BY <1>6, <1>7 DEF a, b, c, d

\* So the rule is the same on both frames.
LEMMA MovingAverageSame ==
  ASSUME NEW g, NEW f, NEW d, Ending(g, f, d), NEW p \in MovingAverageCrossParams,
         Len(g) >= MovingAverageCrossWarmup(p)
  PROVE  RuleOn("ma_cross", p, f) = RuleOn("ma_cross", p, g)
<1>1. /\ Len(f) = Len(g) + d /\ Len(f) - 1 = (Len(g) - 1) + d
      /\ Len(g) \in 1..Len(g) /\ Len(g) - 1 \in 1..Len(g)
      /\ Len(g) - 1 >= MovingAverageCrossWarmup(p) - 1 /\ Len(g) >= MovingAverageCrossWarmup(p) - 1
  BY MovingAverageParamsAre, LastTwo
<1>2. ASSUME NEW i \in 1..Len(g), i >= MovingAverageCrossWarmup(p) - 1
      PROVE  MovingAverages(p, f, i + d) = MovingAverages(p, g, i)
  <2>1. /\ p.short_window \in Nat /\ p.short_window <= i
        /\ p.long_window \in Nat /\ p.long_window <= i
        /\ p.volume_window \in Nat /\ p.volume_window <= i
    BY <1>2, MovingAverageParamsAre
  <2> QED
    BY <2>1, MovingAveragesShift
<1>3. /\ MovingAverages(p, f, Len(f)) = MovingAverages(p, g, Len(g))
      /\ MovingAverages(p, f, Len(f) - 1) = MovingAverages(p, g, Len(g) - 1)
  BY <1>1, <1>2
<1> QED
  BY <1>3, Zenon DEF RuleOn

\* The warmup of bollinger covers its windows, on the candle before too.
LEMMA BollingerParamsAre ==
  ASSUME NEW p \in BollingerParams
  PROVE  /\ BollingerWarmup(p) \in Int /\ BollingerWarmup(p) >= 2
         /\ \A i \in Int : i >= BollingerWarmup(p) - 1 =>
              /\ p.window \in Nat /\ p.window <= i
<1> DEFINE a == p.window
           b == p.rsi_window
           w == Longer(a, IF p.rsi_filter THEN b + 1 ELSE 0) + 1
<1>1. a \in 2..500
  BY DEF BollingerParams
<1>2. b \in 2..200
  BY DEF BollingerParams
<1>6. BollingerWarmup(p) = w
  BY DEF BollingerWarmup
<1> HIDE DEF a, b
<1>7. /\ w \in Int /\ w >= 2
      /\ \A i \in Int : i >= w - 1 =>
           /\ a \in Nat /\ a <= i
  BY <1>1, <1>2 DEF Longest, Longer
<1> HIDE DEF w
<1> QED
  BY <1>6, <1>7 DEF a, b

\* So the rule is the same on both frames.
LEMMA BollingerSame ==
  ASSUME NEW g, NEW f, NEW d, Ending(g, f, d), NEW p \in BollingerParams,
         Len(g) >= BollingerWarmup(p)
  PROVE  RuleOn("bollinger", p, f) = RuleOn("bollinger", p, g)
<1>1. /\ Len(f) = Len(g) + d /\ Len(f) - 1 = (Len(g) - 1) + d
      /\ Len(g) \in 1..Len(g) /\ Len(g) - 1 \in 1..Len(g)
      /\ Len(g) - 1 >= BollingerWarmup(p) - 1 /\ Len(g) >= BollingerWarmup(p) - 1
  BY BollingerParamsAre, LastTwo
<1>2. ASSUME NEW i \in 1..Len(g), i >= BollingerWarmup(p) - 1
      PROVE  BollingerBand(p, f, i + d) = BollingerBand(p, g, i)
  <2>1. /\ p.window \in Nat /\ p.window <= i
    BY <1>2, BollingerParamsAre
  <2> QED
    BY <2>1, BollingerShift
<1>3. /\ BollingerBand(p, f, Len(f)) = BollingerBand(p, g, Len(g))
      /\ BollingerBand(p, f, Len(f) - 1) = BollingerBand(p, g, Len(g) - 1)
  BY <1>1, <1>2
<1> QED
  BY <1>3, Zenon DEF RuleOn

\* The warmup of stochastic covers its windows, on the candle before too.
LEMMA StochasticParamsAre ==
  ASSUME NEW p \in StochasticParams
  PROVE  /\ StochasticWarmup(p) \in Int /\ StochasticWarmup(p) >= 2
         /\ \A i \in Int : i >= StochasticWarmup(p) - 1 =>
              /\ p.k_period \in Nat /\ p.k_period > 0
              /\ p.smooth_k \in Nat /\ p.smooth_k > 0
              /\ p.d_period \in Nat /\ p.d_period > 0
              /\ p.k_period + p.smooth_k + p.d_period - 2 <= i
<1> DEFINE a == p.k_period
           b == p.d_period
           c == p.smooth_k
           w == a + c + b - 1
<1>1. a \in 2..200
  BY DEF StochasticParams
<1>2. b \in 2..50
  BY DEF StochasticParams
<1>3. c \in 1..20
  BY DEF StochasticParams
<1>6. StochasticWarmup(p) = w
  BY DEF StochasticWarmup
<1> HIDE DEF a, b, c
<1>7. /\ w \in Int /\ w >= 2
      /\ \A i \in Int : i >= w - 1 =>
           /\ a \in Nat /\ a > 0
           /\ c \in Nat /\ c > 0
           /\ b \in Nat /\ b > 0
           /\ a + c + b - 2 <= i
  BY <1>1, <1>2, <1>3 DEF Longest, Longer
<1> HIDE DEF w
<1> QED
  BY <1>6, <1>7 DEF a, b, c

\* So the rule is the same on both frames.
LEMMA StochasticSame ==
  ASSUME NEW g, NEW f, NEW d, Ending(g, f, d), NEW p \in StochasticParams,
         Len(g) >= StochasticWarmup(p)
  PROVE  RuleOn("stochastic", p, f) = RuleOn("stochastic", p, g)
<1>1. /\ Len(f) = Len(g) + d /\ Len(f) - 1 = (Len(g) - 1) + d
      /\ Len(g) \in 1..Len(g) /\ Len(g) - 1 \in 1..Len(g)
      /\ Len(g) - 1 >= StochasticWarmup(p) - 1 /\ Len(g) >= StochasticWarmup(p) - 1
  BY StochasticParamsAre, LastTwo
<1>2. ASSUME NEW i \in 1..Len(g), i >= StochasticWarmup(p) - 1
      PROVE  StochasticLines(p, f, i + d) = StochasticLines(p, g, i)
  <2>1. /\ p.k_period \in Nat /\ p.k_period > 0
        /\ p.smooth_k \in Nat /\ p.smooth_k > 0
        /\ p.d_period \in Nat /\ p.d_period > 0
        /\ p.k_period + p.smooth_k + p.d_period - 2 <= i
    BY <1>2, StochasticParamsAre
  <2> QED
    BY <2>1, StochasticShift
<1>3. /\ StochasticLines(p, f, Len(f)) = StochasticLines(p, g, Len(g))
      /\ StochasticLines(p, f, Len(f) - 1) = StochasticLines(p, g, Len(g) - 1)
  BY <1>1, <1>2
<1> QED
  BY <1>3, Zenon DEF RuleOn

\* The warmup of williams_r covers its windows, on the candle before too.
LEMMA WilliamsRParamsAre ==
  ASSUME NEW p \in WilliamsRParams
  PROVE  /\ WilliamsRWarmup(p) \in Int /\ WilliamsRWarmup(p) >= 2
         /\ \A i \in Int : i >= WilliamsRWarmup(p) - 1 =>
              /\ p.window \in Nat /\ p.window > 0 /\ p.window <= i
<1> DEFINE a == p.window
           w == a + 1
<1>1. a \in 2..500
  BY DEF WilliamsRParams
<1>6. WilliamsRWarmup(p) = w
  BY DEF WilliamsRWarmup
<1> HIDE DEF a
<1>7. /\ w \in Int /\ w >= 2
      /\ \A i \in Int : i >= w - 1 =>
           /\ a \in Nat /\ a > 0 /\ a <= i
  BY <1>1 DEF Longest, Longer
<1> HIDE DEF w
<1> QED
  BY <1>6, <1>7 DEF a

\* So the rule is the same on both frames.
LEMMA WilliamsRSame ==
  ASSUME NEW g, NEW f, NEW d, Ending(g, f, d), NEW p \in WilliamsRParams,
         Len(g) >= WilliamsRWarmup(p)
  PROVE  RuleOn("williams_r", p, f) = RuleOn("williams_r", p, g)
<1>1. /\ Len(f) = Len(g) + d /\ Len(f) - 1 = (Len(g) - 1) + d
      /\ Len(g) \in 1..Len(g) /\ Len(g) - 1 \in 1..Len(g)
      /\ Len(g) - 1 >= WilliamsRWarmup(p) - 1 /\ Len(g) >= WilliamsRWarmup(p) - 1
  BY WilliamsRParamsAre, LastTwo
<1>2. ASSUME NEW i \in 1..Len(g), i >= WilliamsRWarmup(p) - 1
      PROVE  WilliamsRLine(p, f, i + d) = WilliamsRLine(p, g, i)
  <2>1. /\ p.window \in Nat /\ p.window > 0 /\ p.window <= i
    BY <1>2, WilliamsRParamsAre
  <2> QED
    BY <2>1, WilliamsRShift
<1>3. /\ WilliamsRLine(p, f, Len(f)) = WilliamsRLine(p, g, Len(g))
      /\ WilliamsRLine(p, f, Len(f) - 1) = WilliamsRLine(p, g, Len(g) - 1)
  BY <1>1, <1>2
<1> QED
  BY <1>3, Zenon DEF RuleOn

\* The warmup of cci covers its windows, on the candle before too.
LEMMA CCIParamsAre ==
  ASSUME NEW p \in CCIParams
  PROVE  /\ CCIWarmup(p) \in Int /\ CCIWarmup(p) >= 2
         /\ \A i \in Int : i >= CCIWarmup(p) - 1 =>
              /\ p.window \in Nat /\ p.window > 0 /\ p.window <= i
<1> DEFINE a == p.window
           w == a + 1
<1>1. a \in 2..500
  BY DEF CCIParams
<1>6. CCIWarmup(p) = w
  BY DEF CCIWarmup
<1> HIDE DEF a
<1>7. /\ w \in Int /\ w >= 2
      /\ \A i \in Int : i >= w - 1 =>
           /\ a \in Nat /\ a > 0 /\ a <= i
  BY <1>1 DEF Longest, Longer
<1> HIDE DEF w
<1> QED
  BY <1>6, <1>7 DEF a

\* So the rule is the same on both frames.
LEMMA CCISame ==
  ASSUME NEW g, NEW f, NEW d, Ending(g, f, d), NEW p \in CCIParams,
         Len(g) >= CCIWarmup(p)
  PROVE  RuleOn("cci", p, f) = RuleOn("cci", p, g)
<1>1. /\ Len(f) = Len(g) + d /\ Len(f) - 1 = (Len(g) - 1) + d
      /\ Len(g) \in 1..Len(g) /\ Len(g) - 1 \in 1..Len(g)
      /\ Len(g) - 1 >= CCIWarmup(p) - 1 /\ Len(g) >= CCIWarmup(p) - 1
  BY CCIParamsAre, LastTwo
<1>2. ASSUME NEW i \in 1..Len(g), i >= CCIWarmup(p) - 1
      PROVE  CCILine(p, f, i + d) = CCILine(p, g, i)
  <2>1. /\ p.window \in Nat /\ p.window > 0 /\ p.window <= i
    BY <1>2, CCIParamsAre
  <2> QED
    BY <2>1, CCIShift
<1>3. /\ CCILine(p, f, Len(f)) = CCILine(p, g, Len(g))
      /\ CCILine(p, f, Len(f) - 1) = CCILine(p, g, Len(g) - 1)
  BY <1>1, <1>2
<1> QED
  BY <1>3, Zenon DEF RuleOn

\* The warmup of ichimoku covers its windows, on the candle before too.
LEMMA IchimokuParamsAre ==
  ASSUME NEW p \in IchimokuParams
  PROVE  /\ IchimokuWarmup(p) \in Int /\ IchimokuWarmup(p) >= 2
         /\ \A i \in Int : i >= IchimokuWarmup(p) - 1 =>
              /\ p.conversion_period \in Nat /\ p.conversion_period > 0
              /\ p.conversion_period + p.displacement <= i
              /\ p.base_period \in Nat /\ p.base_period > 0
              /\ p.base_period + p.displacement <= i
              /\ p.span_b_period \in Nat /\ p.span_b_period > 0
              /\ p.span_b_period + p.displacement <= i
              /\ p.displacement \in Nat
<1> DEFINE a == p.conversion_period
           b == p.base_period
           c == p.span_b_period
           d == p.displacement
           w == Longest(a, b, c) + d + 1
<1>1. a \in 2..100
  BY DEF IchimokuParams
<1>2. b \in 3..200
  BY DEF IchimokuParams
<1>3. c \in 3..300
  BY DEF IchimokuParams
<1>4. d \in 1..100
  BY DEF IchimokuParams
<1>6. IchimokuWarmup(p) = w
  BY DEF IchimokuWarmup
<1> HIDE DEF a, b, c, d
<1>7. /\ w \in Int /\ w >= 2
      /\ \A i \in Int : i >= w - 1 =>
           /\ a \in Nat /\ a > 0 /\ a + d <= i
           /\ b \in Nat /\ b > 0 /\ b + d <= i
           /\ c \in Nat /\ c > 0 /\ c + d <= i
           /\ d \in Nat
  BY <1>1, <1>2, <1>3, <1>4 DEF Longest, Longer
<1> HIDE DEF w
<1> QED
  BY <1>6, <1>7 DEF a, b, c, d

\* So the rule is the same on both frames.
LEMMA IchimokuSame ==
  ASSUME NEW g, NEW f, NEW d, Ending(g, f, d), NEW p \in IchimokuParams,
         Len(g) >= IchimokuWarmup(p)
  PROVE  RuleOn("ichimoku", p, f) = RuleOn("ichimoku", p, g)
<1>1. /\ Len(f) = Len(g) + d /\ Len(f) - 1 = (Len(g) - 1) + d
      /\ Len(g) \in 1..Len(g) /\ Len(g) - 1 \in 1..Len(g)
      /\ Len(g) - 1 >= IchimokuWarmup(p) - 1 /\ Len(g) >= IchimokuWarmup(p) - 1
  BY IchimokuParamsAre, LastTwo
<1>2. ASSUME NEW i \in 1..Len(g), i >= IchimokuWarmup(p) - 1
      PROVE  IchimokuLines(p, f, i + d) = IchimokuLines(p, g, i)
  <2>1. /\ p.conversion_period \in Nat /\ p.conversion_period > 0
        /\ p.conversion_period + p.displacement <= i
        /\ p.base_period \in Nat /\ p.base_period > 0
        /\ p.base_period + p.displacement <= i
        /\ p.span_b_period \in Nat /\ p.span_b_period > 0
        /\ p.span_b_period + p.displacement <= i
        /\ p.displacement \in Nat
    BY <1>2, IchimokuParamsAre
  <2> QED
    BY <2>1, IchimokuShift
<1>3. /\ IchimokuLines(p, f, Len(f)) = IchimokuLines(p, g, Len(g))
      /\ IchimokuLines(p, f, Len(f) - 1) = IchimokuLines(p, g, Len(g) - 1)
  BY <1>1, <1>2
<1> QED
  BY <1>3, Zenon DEF RuleOn

\* The warmup of volume_breakout covers its windows, on the candle before too.
LEMMA BreakoutParamsAre ==
  ASSUME NEW p \in VolumeBreakoutParams
  PROVE  /\ VolumeBreakoutWarmup(p) \in Int /\ VolumeBreakoutWarmup(p) >= 2
         /\ \A i \in Int : i >= VolumeBreakoutWarmup(p) - 1 =>
              /\ p.breakout_window \in Nat /\ p.breakout_window + 1 <= i
              /\ p.volume_window \in Nat /\ p.volume_window + 1 <= i
              /\ p.exit_window \in Nat /\ p.exit_window + 1 <= i
<1> DEFINE a == p.breakout_window
           b == p.volume_window
           c == p.exit_window
           w == Longest(a, b, c) + 2
<1>1. a \in 2..500
  BY DEF VolumeBreakoutParams
<1>2. b \in 2..500
  BY DEF VolumeBreakoutParams
<1>3. c \in 0..500
  BY DEF VolumeBreakoutParams
<1>6. VolumeBreakoutWarmup(p) = w
  BY DEF VolumeBreakoutWarmup
<1> HIDE DEF a, b, c
<1>7. /\ w \in Int /\ w >= 2
      /\ \A i \in Int : i >= w - 1 =>
           /\ a \in Nat /\ a + 1 <= i
           /\ b \in Nat /\ b + 1 <= i
           /\ c \in Nat /\ c + 1 <= i
  BY <1>1, <1>2, <1>3 DEF Longest, Longer
<1> HIDE DEF w
<1> QED
  BY <1>6, <1>7 DEF a, b, c

\* So the rule is the same on both frames.
LEMMA BreakoutSame ==
  ASSUME NEW g, NEW f, NEW d, Ending(g, f, d), NEW p \in VolumeBreakoutParams,
         Len(g) >= VolumeBreakoutWarmup(p)
  PROVE  RuleOn("volume_breakout", p, f) = RuleOn("volume_breakout", p, g)
<1>1. /\ Len(f) = Len(g) + d /\ Len(f) - 1 = (Len(g) - 1) + d
      /\ Len(g) \in 1..Len(g) /\ Len(g) - 1 \in 1..Len(g)
      /\ Len(g) - 1 >= VolumeBreakoutWarmup(p) - 1 /\ Len(g) >= VolumeBreakoutWarmup(p) - 1
  BY BreakoutParamsAre, LastTwo
<1>2. ASSUME NEW i \in 1..Len(g), i >= VolumeBreakoutWarmup(p) - 1
      PROVE  BreakoutLines(p, f, i + d) = BreakoutLines(p, g, i)
  <2>1. /\ p.breakout_window \in Nat /\ p.breakout_window + 1 <= i
        /\ p.volume_window \in Nat /\ p.volume_window + 1 <= i
        /\ p.exit_window \in Nat /\ p.exit_window + 1 <= i
    BY <1>2, BreakoutParamsAre
  <2> QED
    BY <2>1, BreakoutShift
<1>3. /\ BreakoutLines(p, f, Len(f)) = BreakoutLines(p, g, Len(g))
      /\ BreakoutLines(p, f, Len(f) - 1) = BreakoutLines(p, g, Len(g) - 1)
  BY <1>1, <1>2
<1> QED
  BY <1>3, Zenon DEF RuleOn

\* The same of RuleOn.
LEMMA OBVRuleSame ==
  ASSUME NEW g, NEW f, NEW d, Ending(g, f, d), \A j \in 1..Len(f) : f[j].volume \in Nat,
         NEW p \in OBVParams,
         Len(g) >= OBVWarmup(p)
  PROVE  RuleOn("obv", p, f) = RuleOn("obv", p, g)
<1>1. OBVRule(p, OBVLines(p, f, Len(f) - 1), OBVLines(p, f, Len(f)))
        = OBVRule(p, OBVLines(p, g, Len(g) - 1), OBVLines(p, g, Len(g)))
  BY OBVSame
<1> QED
  BY <1>1, Zenon DEF RuleOn

\* Every rule of the window strategies says the same of both frames.
LEMMA RuleSame ==
  ASSUME NEW g, NEW f, NEW d, Ending(g, f, d), \A j \in 1..Len(f) : f[j].volume \in Nat,
         NEW s, NEW p, Allowed(s, p), Len(g) >= WarmupOf(s, p)
  PROVE  WarmupOf(s, p) \in Int /\ RuleOn(s, p, f) = RuleOn(s, p, g)
<1>1. CASE s = "ma_cross" /\ p \in MovingAverageCrossParams
  <2>1. WarmupOf(s, p) = MovingAverageCrossWarmup(p)
    BY <1>1, Zenon DEF WarmupOf
  <2> QED
    BY <1>1, <2>1, MovingAverageParamsAre, MovingAverageSame
<1>2. CASE s = "bollinger" /\ p \in BollingerParams
  <2>1. WarmupOf(s, p) = BollingerWarmup(p)
    BY <1>2, Zenon DEF WarmupOf
  <2> QED
    BY <1>2, <2>1, BollingerParamsAre, BollingerSame
<1>3. CASE s = "stochastic" /\ p \in StochasticParams
  <2>1. WarmupOf(s, p) = StochasticWarmup(p)
    BY <1>3, Zenon DEF WarmupOf
  <2> QED
    BY <1>3, <2>1, StochasticParamsAre, StochasticSame
<1>4. CASE s = "williams_r" /\ p \in WilliamsRParams
  <2>1. WarmupOf(s, p) = WilliamsRWarmup(p)
    BY <1>4, Zenon DEF WarmupOf
  <2> QED
    BY <1>4, <2>1, WilliamsRParamsAre, WilliamsRSame
<1>5. CASE s = "cci" /\ p \in CCIParams
  <2>1. WarmupOf(s, p) = CCIWarmup(p)
    BY <1>5, Zenon DEF WarmupOf
  <2> QED
    BY <1>5, <2>1, CCIParamsAre, CCISame
<1>6. CASE s = "ichimoku" /\ p \in IchimokuParams
  <2>1. WarmupOf(s, p) = IchimokuWarmup(p)
    BY <1>6, Zenon DEF WarmupOf
  <2> QED
    BY <1>6, <2>1, IchimokuParamsAre, IchimokuSame
<1>7. CASE s = "volume_breakout" /\ p \in VolumeBreakoutParams
  <2>1. WarmupOf(s, p) = VolumeBreakoutWarmup(p)
    BY <1>7, Zenon DEF WarmupOf
  <2> QED
    BY <1>7, <2>1, BreakoutParamsAre, BreakoutSame
<1>8. CASE s = "obv" /\ p \in OBVParams
  <2>1. WarmupOf(s, p) = OBVWarmup(p)
    BY <1>8, Zenon DEF WarmupOf
  <2> QED
    BY <1>8, <2>1, OBVParamsAre, OBVRuleSame
<1> QED
  BY <1>1, <1>2, <1>3, <1>4, <1>5, <1>6, <1>7, <1>8 DEF Allowed

\* What an engine that began later holds is what the longer history ends with.
LEMMA LastBarsEnding ==
  ASSUME NEW f \in Seq(Bars), NEW n \in 1..Len(f)
  PROVE  Len(LastBars(f, n)) = n /\ Ending(LastBars(f, n), f, Len(f) - n)
<1>1. Len(f) \in Nat /\ DOMAIN f = 1..Len(f)
  OBVIOUS
<1>3. LastBars(f, n) = [i \in 1..n |-> f[i + (Len(f) - n)]]
  BY <1>1 DEF LastBars
<1>4. LastBars(f, n) \in Seq(Bars)
  <2>1. \A i \in 1..n : f[i + (Len(f) - n)] \in Bars
    BY <1>1
  <2> QED
    BY <1>3, <2>1
<1>5. Len(LastBars(f, n)) = n /\ DOMAIN LastBars(f, n) = 1..n
  BY <1>3, <1>4
<1>6. \A i \in 1..n : f[i + (Len(f) - n)] = LastBars(f, n)[i]
  BY <1>3
<1> QED
  BY <1>1, <1>5, <1>6 DEF Ending

\* The type invariant of Signals.
SignalsInv == bars \in Seq(Bars) /\ strategy \in WindowStrategies

\* The invariant is all HistoryIrrelevant needs.
LEMMA SignalsInvSays ==
  ASSUME SignalsInv
  PROVE  HistoryIrrelevant
<1> USE DEF SignalsInv
<1> DEFINE p == ParamsOf[strategy]
<1> SUFFICES ASSUME NEW n \in 1..Len(bars), n >= WarmupOf(strategy, p)
             PROVE  GenerateSignal(LastBars(bars, n)) = GenerateSignal(bars)
  BY DEF HistoryIrrelevant
<1> DEFINE g == LastBars(bars, n)
<1>1. Len(g) = n /\ Ending(g, bars, Len(bars) - n)
  BY LastBarsEnding
<1>2. Allowed(strategy, p)
  BY SignalsAssumption
<1>3. \A j \in 1..Len(bars) : bars[j].volume \in Nat
  BY SignalsAssumption
<1>4. n \in Int /\ Len(bars) \in Int /\ n <= Len(bars)
  OBVIOUS
<1> HIDE DEF p, g
<1>5. WarmupOf(strategy, p) \in Int /\ RuleOn(strategy, p, bars) = RuleOn(strategy, p, g)
  BY <1>1, <1>2, <1>3, RuleSame
<1>6. ~(Len(g) < WarmupOf(strategy, p)) /\ ~(Len(bars) < WarmupOf(strategy, p))
  BY <1>1, <1>4, <1>5
<1> QED
  BY <1>5, <1>6 DEF GenerateSignal, SignalOf, p, g

(* The signal of a candle does not depend on how many candles came before the *)
(* frame, from warmup_periods on: for every strategy of Signals, every        *)
(* parameter set the validators let through and every history of candles.     *)
THEOREM HistoryIrrelevantHolds == SignalsSpec => []HistoryIrrelevant
<1>1. SignalsInit => SignalsInv
  BY DEF SignalsInit, SignalsInv
<1>2. SignalsInv /\ [SignalsNext]_signalVars => SignalsInv'
  BY DEF SignalsInv, SignalsNext, CandleCloses, signalVars
<1> QED
  BY <1>1, <1>2, SignalsInvSays, PTL DEF SignalsSpec
=============================================================================
