---------------------------- MODULE BacktestProofs ----------------------------
(***************************************************************************)
(* The books of an account balance, and a backtest fills at prices the     *)
(* market would have given: for every fee, price, rounding of the shares,  *)
(* exit rule, candle and length of the data.                               *)
(*                                                                         *)
(* BooksInv: what a position carries is a whole number and nothing is      *)
(* carried without one; then each purchase and each sale moves the two     *)
(* sides of the balance by the same amount, whatever share a sale takes.   *)
(*                                                                         *)
(* FillInv: the peak of the risk manager never exceeds the highest price   *)
(* of the candles the position was held through, or it is the entry and    *)
(* the trailing stop does not act.                                         *)
(***************************************************************************)
EXTENDS Backtest, TLAPS

Positions == [quantity : Nat, price : Nat, amount : Int, fee : Int]

BooksInv ==
  /\ cash \in Int /\ realised \in Int /\ feesPaid \in Int
  /\ position \in Positions
  /\ ~Held => position.amount = 0 /\ position.fee = 0
  /\ BooksBalance

\* Products are whole numbers.
LEMMA CostIsInt ==
  ASSUME NEW q \in Nat, NEW p \in Nat
  PROVE  Cost(q, p) \in Nat /\ FeeOn(q, p) \in Nat
BY AccountAssumption DEF Cost, FeeOn

\* A share of what is carried is a whole number.
LEMMA ShareIsInt ==
  ASSUME NEW q \in Nat, NEW carried \in Int, position \in Positions, Held
  PROVE  Share(q, carried) \in Int
BY DEF Share, Held, Positions

\* A purchase keeps the balance (portfolio.py, buy).
LEMMA BuyBalances ==
  ASSUME BooksInv, NEW q \in Nat \ {0}, NEW p \in Nat, NEW f \in Nat, Buy(q, p, f)
  PROVE  BooksInv'
<1> DEFINE c   == Cost(q, p)
           avg == (position.price * position.quantity + q * p) \div (position.quantity + q)
<1>1. c \in Int
  BY CostIsInt
<1>2. position \in Positions /\ position.quantity \in Nat /\ position.price \in Nat
      /\ position.amount \in Int /\ position.fee \in Int
  BY DEF BooksInv, Positions
<1>3. avg \in Nat
  <2> DEFINE n == position.price * position.quantity + q * p
             m == position.quantity + q
  <2>1. n \in Nat /\ m \in Nat \ {0}
    BY <1>2
  <2> HIDE DEF n, m
  <2>2. n \div m \in Nat
    BY <2>1
  <2>3. QED
    BY <2>2 DEF n, m
<1>4. /\ position' = [quantity |-> position.quantity + q, price |-> avg,
                      amount |-> position.amount + c, fee |-> position.fee + f]
      /\ cash' = cash - (c + f) /\ feesPaid' = feesPaid + f /\ realised' = realised
  BY DEF Buy
<1> HIDE DEF c, avg
<1>5. QED
  BY <1>1, <1>2, <1>3, <1>4, AccountAssumption DEF BooksInv, Positions, Held, BooksBalance

\* A sale, in part or of everything, keeps the balance (portfolio.py, sell).
LEMMA SellBalances ==
  ASSUME BooksInv, NEW q \in Nat \ {0}, NEW p \in Nat, NEW f \in Nat, Sell(q, p, f)
  PROVE  BooksInv'
<1> DEFINE c == Cost(Sold(q), p)
           a == Share(q, position.amount)
           g == Share(q, position.fee)
<1>1. /\ position \in Positions /\ position.quantity \in Nat \ {0} /\ position.price \in Nat
      /\ position.amount \in Int /\ position.fee \in Int
  BY DEF BooksInv, Positions, Sell, Held
<1>2. c \in Int
  <2>1. Sold(q) \in Nat
    BY <1>1 DEF Sold
  <2>2. QED
    BY <2>1, CostIsInt
<1>3. a \in Int /\ g \in Int
  BY <1>1, ShareIsInt DEF Sell
<1>4. q >= position.quantity => a = position.amount /\ g = position.fee
  BY DEF Share
<1>5. /\ cash' = cash + c - f /\ feesPaid' = feesPaid + f
      /\ realised' = realised + c - f - a - g
      /\ position' = IF q >= position.quantity THEN NoPosition
                     ELSE [position EXCEPT !.quantity = @ - q, !.amount = @ - a, !.fee = @ - g]
  BY DEF Sell, Remaining
<1> HIDE DEF c, a, g
<1>6. CASE q >= position.quantity
  BY <1>1, <1>2, <1>3, <1>4, <1>5, <1>6, AccountAssumption
     DEF BooksInv, Positions, Held, BooksBalance, NoPosition
<1>7. CASE ~(q >= position.quantity)
  <2>1. position' = [quantity |-> position.quantity - q, price |-> position.price,
                     amount |-> position.amount - a, fee |-> position.fee - g]
    BY <1>1, <1>5, <1>7 DEF Positions
  <2>2. position.quantity - q \in Nat \ {0}
    BY <1>1, <1>7
  <2>3. position' \in Positions /\ Held' /\ position'.amount = position.amount - a
        /\ position'.fee = position.fee - g
    BY <1>1, <1>3, <2>1, <2>2 DEF Positions, Held
  <2>4. cash' \in Int /\ realised' \in Int /\ feesPaid' \in Int
    BY <1>2, <1>3, <1>5 DEF BooksInv
  <2>5. BooksBalance'
    BY <1>1, <1>2, <1>3, <1>5, <2>3, AccountAssumption DEF BooksInv, BooksBalance
  <2>6. QED
    BY <2>3, <2>4, <2>5 DEF BooksInv
<1>8. QED
  BY <1>6, <1>7

\* An account begins balanced.
LEMMA BooksInit == AccountInit => BooksInv
BY AccountAssumption DEF AccountInit, BooksInv, Positions, Held, BooksBalance, NoPosition

\* BooksBalance: after any fills the exchange reports, in any order, the cash and
\* what the position carries are the initial cash and what the round trips are
\* said to have earned (portfolio.py, buy and sell).
THEOREM AccountBalances == AccountSpec => []BooksBalance
<1>1. ASSUME BooksInv, [AccountNext]_accountVars PROVE BooksInv'
  <2>1. CASE BuyFilled
    <3>1. PICK q \in Quantities, p \in Prices, f \in Fees : Buy(q, p, f)
      BY <2>1 DEF BuyFilled
    <3>2. q \in Nat \ {0} /\ p \in Nat /\ f \in Nat
      BY AccountAssumption
    <3>3. QED
      BY <1>1, <3>1, <3>2, BuyBalances
  <2>2. CASE SellFilled
    <3>1. PICK q \in Quantities, p \in Prices, f \in Fees : Sell(q, p, f)
      BY <2>2 DEF SellFilled
    <3>2. q \in Nat \ {0} /\ p \in Nat /\ f \in Nat
      BY AccountAssumption
    <3>3. QED
      BY <1>1, <3>1, <3>2, SellBalances
  <2>3. CASE UNCHANGED accountVars
    BY <1>1, <2>3 DEF accountVars, BooksInv, Held, BooksBalance
  <2>4. QED
    BY <1>1, <2>1, <2>2, <2>3 DEF AccountNext
<1>2. BooksInv => BooksBalance
  BY DEF BooksInv
<1>3. QED
  BY <1>1, <1>2, BooksInit, PTL DEF AccountSpec

-----------------------------------------------------------------------------
(* The backtest.                                                           *)

\* Whatever a candle may be where the loop reads one.
CandleFits ==
  stage \in {"open", "exits", "end of data"} => candle \in Candles

\* The highest price known to the risk manager is one the position was held
\* through, or does not exceed the entry.
PeakInv ==
  /\ peak \in Nat /\ topHigh \in Nat
  /\ ~Held => peak = 0
  /\ Held => peak <= topHigh \/ peak <= position.price

FillInv ==
  /\ BooksInv /\ CandleFits /\ PeakInv
  /\ pending.budget \in Int
  /\ FillsHonest

\* The range of a candle (backtest/engine.py reads it from a checked frame).
LEMMA CandleRange ==
  ASSUME NEW c \in Candles
  PROVE  /\ c.open \in Nat \ {0} /\ c.high \in Nat /\ c.low \in Nat /\ c.close \in Nat
         /\ c.low <= c.open /\ c.open <= c.high
         /\ c.low <= c.close /\ c.close <= c.high
<1>1. /\ c \in [open : Nat \ {0}, high : Nat, low : Nat \ {0}, close : Nat \ {0}]
      /\ c.low <= c.open /\ c.open <= c.high
      /\ c.low <= c.close /\ c.close <= c.high
  BY BacktestAssumption
<1>2. QED
  BY <1>1

\* Multiplying by a natural number keeps the order.
LEMMA TimesMonotone ==
  ASSUME NEW a \in Nat, NEW b \in Nat, NEW k \in Nat, a <= b
  PROVE  a * k \in Nat /\ b * k \in Nat /\ a * k <= b * k
<1>1. PICK d \in Nat : b = a + d
  <2>1. b - a \in Nat /\ b = a + (b - a)
    OBVIOUS
  <2>2. QED
    BY <2>1
<1>2. b * k = a * k + d * k /\ d * k \in Nat /\ a * k \in Nat
  BY <1>1
<1>3. QED
  BY <1>2

\* A percentage keeps the order, too.
LEMMA PercentMonotone ==
  ASSUME NEW pct \in Nat, NEW a \in Nat, NEW b \in Nat
  PROVE  /\ Percent(pct, a) \in Nat
         /\ a <= b => Percent(pct, a) <= Percent(pct, b)
<1> DEFINE x == a * pct
           y == b * pct
<1>1. x \in Nat /\ y \in Nat /\ (a <= b => x <= y)
  BY TimesMonotone
<1>2. Percent(pct, a) = x \div 100 /\ Percent(pct, b) = y \div 100
  BY DEF Percent
<1> HIDE DEF x, y
<1>3. QED
  BY <1>1, <1>2

\* Slippage lowers a price to a price.
LEMMA LoweredIsNat == ASSUME NEW p \in Nat PROVE Lowered(p) \in Nat
<1> DEFINE n == p * (Slips - SlipParts)
<1>1. Slips \in Nat \ {0} /\ Slips - SlipParts \in Nat
  BY BacktestAssumption
<1>2. n \in Nat
  BY <1>1
<1>3. Lowered(p) = n \div Slips
  BY DEF Lowered
<1> HIDE DEF n
<1>4. QED
  BY <1>1, <1>2, <1>3

\* Slippage raises a price to a price that is not zero.
LEMMA RaisedIsPositive == ASSUME NEW p \in Nat \ {0} PROVE Raised(p) \in Nat \ {0}
<1> DEFINE m == Slips + SlipParts
           n == p * m
<1>1. Slips \in Nat \ {0} /\ m \in Nat /\ Slips <= m
  BY BacktestAssumption
<1>2. Raised(p) = n \div Slips
  BY DEF Raised
<1> HIDE DEF m
<1>3. n \in Nat /\ 1 * m <= n /\ 1 * m = m
  BY <1>1, TimesMonotone
<1> HIDE DEF n
<1>4. Slips <= n
  BY <1>1, <1>3
<1>5. n \div Slips \in Nat \ {0}
  <2> DEFINE q == n \div Slips
  <2>1. q \in Int /\ Slips * q <= n /\ n < Slips * (q + 1)
    BY <1>1, <1>3
  <2> HIDE DEF q
  <2>2. q >= 1
    <3>1. ASSUME q + 1 <= 1 PROVE FALSE
      <4>1. PICK d \in Nat : q + 1 = 1 - d
        <5>1. 1 - (q + 1) \in Nat /\ q + 1 = 1 - (1 - (q + 1))
          BY <2>1, <3>1
        <5>2. QED
          BY <5>1
      <4>2. Slips * (q + 1) = Slips - Slips * d /\ Slips * d \in Nat
        BY <1>1, <4>1
      <4>3. QED
        BY <1>1, <1>3, <1>4, <2>1, <4>2
    <3>2. QED
      BY <2>1, <3>1
  <2>3. QED
    BY <2>1, <2>2 DEF q
<1>6. QED
  BY <1>2, <1>5

\* A budget pays for a whole number of units.
LEMMA AffordableIsInt ==
  ASSUME NEW budget \in Int, NEW p \in Nat \ {0}
  PROVE  Affordable(budget, p) \in Int
<1> DEFINE n == p * (Parts + FeeParts)
<1>1. Parts + FeeParts \in Nat \ {0}
  BY AccountAssumption
<1>2. n \in Nat \ {0}
  BY <1>1
<1>3. Affordable(budget, p) = budget \div n
  BY DEF Affordable
<1> HIDE DEF n
<1>4. QED
  BY <1>2, <1>3

\* A sale of everything at an honest price: nothing is held and nothing remembered
\* of what was (backtest/engine.py and risk/manager.py, record_trade).
LEMMA SellAllKeeps ==
  ASSUME FillInv, NEW price, NEW slipped \in Nat, NEW why, NEW basis,
         SellAll(price, slipped, why, basis),
         candle.low <= price, price <= candle.high,
         why = "trail" => price <= Percent(100 - TrailPct, basis)
  PROVE  BooksInv' /\ PeakInv' /\ FillsHonest'
<1> DEFINE q == position.quantity
<1>1. Sell(q, slipped, FeeOn(q, slipped))
  BY DEF SellAll
<1>2. q \in Nat \ {0}
  BY <1>1 DEF Sell, Held, FillInv, BooksInv, Positions
<1>3. BooksInv'
  BY <1>1, <1>2, SellBalances, CostIsInt DEF FillInv
<1>4. position' = NoPosition
  BY <1>1, <1>2 DEF Sell, Remaining
<1>5. PeakInv'
  BY <1>4 DEF SellAll, PeakInv, Held, NoPosition
<1>6. FillsHonest'
  BY DEF SellAll, FillsHonest
<1>7. QED
  BY <1>3, <1>5, <1>6

\* Nothing is sold.
LEMMA NothingSoldKeeps ==
  ASSUME FillInv, NothingSold
  PROVE  BooksInv' /\ PeakInv' /\ FillsHonest'
BY DEF NothingSold, accountVars, riskVars, FillInv, BooksInv, BooksBalance, PeakInv, Held,
       FillsHonest

\* The order of the last signal is filled at the open, or not at all.
LEMMA AtOpenKeeps == ASSUME FillInv, AtOpen PROVE FillInv'
<1>1. /\ candle \in Candles /\ candle' = candle /\ stage' = "exits" /\ pending' = NoOrder
      /\ cash \in Int /\ pending.budget \in Int
  BY DEF AtOpen, FillInv, CandleFits, BooksInv
<1>a. CandleFits' /\ pending'.budget \in Int
  BY <1>1 DEF CandleFits, NoOrder
<1>2. candle.open \in Nat \ {0} /\ candle.low <= candle.open /\ candle.open <= candle.high
  BY <1>1, CandleRange
<1>3. CASE BuyAtOpen
  <2> DEFINE price == Raised(candle.open)
             budget == Smaller(pending.budget, cash)
             quantity == Affordable(budget, price)
  <2>1. quantity > 0 /\ Buy(quantity, price, FeeOn(quantity, price)) /\ ~Held
    BY <1>3 DEF BuyAtOpen
  <2>2. price \in Nat \ {0} /\ budget \in Int
    BY <1>1, <1>2, RaisedIsPositive DEF Smaller
  <2>3. quantity \in Int
    BY <2>2, AffordableIsInt
  <2> HIDE DEF price, quantity
  <2>4. quantity \in Nat \ {0} /\ FeeOn(quantity, price) \in Nat
    BY <2>1, <2>2, <2>3, CostIsInt
  <2>5. BooksInv'
    BY <2>1, <2>2, <2>4, BuyBalances DEF FillInv
  <2>6. position'.quantity = position.quantity + quantity /\ position.quantity \in Nat
    BY <2>1 DEF Buy, FillInv, BooksInv, Positions
  <2>7. Held' /\ peak = 0
    BY <2>1, <2>4, <2>6 DEF Held, FillInv, PeakInv
  <2>8. PeakInv'
    BY <1>3, <2>7 DEF BuyAtOpen, riskVars, PeakInv
  <2>9. FillsHonest'
    BY <1>2, <1>3 DEF BuyAtOpen, FillsHonest
  <2>10. QED
    BY <1>a, <2>5, <2>8, <2>9 DEF FillInv
<1>4. CASE SellAtOpen
  <2>1. SellAll(candle.open, Lowered(candle.open), "signal", 0) /\ Lowered(candle.open) \in Nat
    BY <1>2, <1>4, LoweredIsNat DEF SellAtOpen
  <2>2. BooksInv' /\ PeakInv' /\ FillsHonest'
    BY <1>2, <2>1, SellAllKeeps
  <2>3. QED
    BY <1>a, <2>2 DEF FillInv
<1>5. CASE BuyRefused \/ OrderIgnored
  <2>1. BooksInv' /\ PeakInv' /\ FillsHonest'
    BY <1>5, NothingSoldKeeps DEF BuyRefused, OrderIgnored
  <2>2. QED
    BY <1>a, <2>1 DEF FillInv
<1>6. QED
  BY <1>3, <1>4, <1>5 DEF AtOpen

\* A stop, a target or a trailing stop is filled within the candle; otherwise the
\* peak rises with the highest price held through (risk/manager.py, check_exits).
LEMMA ExitsKeep == ASSUME FillInv, Exits PROVE FillInv'
<1>1. /\ candle \in Candles /\ candle' = candle /\ stage' = "end of data" /\ pending' = pending
  BY DEF Exits, FillInv, CandleFits
<1>2. /\ candle.open \in Nat /\ candle.low \in Nat /\ candle.high \in Nat
      /\ candle.low <= candle.open /\ candle.open <= candle.high
  BY <1>1, CandleRange
<1>3. position.price \in Nat /\ peak \in Nat /\ topHigh \in Nat
  BY DEF FillInv, BooksInv, Positions, PeakInv
<1>4. /\ 100 - StopPct \in Nat /\ 100 + TargetPct \in Nat /\ 100 - TrailPct \in Nat
  BY BacktestAssumption
<1>5. Stop \in Nat /\ Target \in Nat /\ PriorPeak \in Nat /\ Trail \in Nat
  <2>1. PriorPeak \in Nat
    BY <1>3 DEF PriorPeak
  <2>2. QED
    BY <1>3, <1>4, <2>1, PercentMonotone DEF Stop, Target, Trail
<1>6. SUFFICES BooksInv' /\ PeakInv' /\ FillsHonest'
  BY <1>1 DEF FillInv, CandleFits
<1>7. CASE StopOut
  <2> DEFINE price == StopFill(Stop)
  <2>1. price \in Nat /\ candle.low <= price /\ price <= candle.high
    BY <1>2, <1>5, <1>7 DEF StopOut, StopHit, StopFill, Smaller
  <2>2. SellAll(price, Lowered(price), "stop", 0) /\ Lowered(price) \in Nat
    BY <1>7, <2>1, LoweredIsNat DEF StopOut
  <2> HIDE DEF price
  <2>3. QED
    BY <2>1, <2>2, SellAllKeeps
<1>8. CASE TakeProfit
  <2> DEFINE price == Larger(candle.open, Target)
  <2>1. price \in Nat /\ candle.low <= price /\ price <= candle.high
    BY <1>2, <1>5, <1>8 DEF TakeProfit, TargetHit, Larger
  <2>2. SellAll(price, price, "target", 0)
    BY <1>8 DEF TakeProfit
  <2> HIDE DEF price
  <2>3. QED
    BY <2>1, <2>2, SellAllKeeps
<1>9. CASE TrailOut
  <2> DEFINE price == StopFill(Trail)
  <2>1. /\ price \in Nat /\ candle.low <= price /\ price <= candle.high /\ price <= Trail
    BY <1>2, <1>5, <1>9 DEF TrailOut, TrailHit, StopFill, Smaller
  <2>2. PriorPeak <= topHigh
    BY <1>3, <1>9 DEF TrailOut, TrailHit, PriorPeak, FillInv, PeakInv
  <2>3. Trail <= Percent(100 - TrailPct, topHigh) /\ Percent(100 - TrailPct, topHigh) \in Nat
    BY <1>3, <1>4, <1>5, <2>2, PercentMonotone DEF Trail
  <2>4. SellAll(price, Lowered(price), "trail", topHigh) /\ Lowered(price) \in Nat
    BY <1>9, <2>1, LoweredIsNat DEF TrailOut
  <2> HIDE DEF price
  <2>5. price <= Percent(100 - TrailPct, topHigh)
    BY <1>5, <2>1, <2>3
  <2>6. QED
    BY <2>1, <2>4, <2>5, SellAllKeeps
<1>10. CASE Stay
  <2>1. UNCHANGED <<cash, position, realised, feesPaid, fill>>
    BY <1>10 DEF Stay, accountVars
  <2>2. BooksInv' /\ FillsHonest' /\ Held' = Held
    BY <1>1, <2>1 DEF FillInv, BooksInv, BooksBalance, Held, FillsHonest
  <2>3. PeakInv'
    BY <1>2, <1>3, <1>10, <2>1, <2>2 DEF Stay, FillInv, PeakInv, PriorPeak, Larger
  <2>4. QED
    BY <2>2, <2>3
<1>11. QED
  BY <1>7, <1>8, <1>9, <1>10 DEF Exits

\* The last candle sells what is left at its close (backtest/engine.py).
LEMMA EndOfDataKeeps == ASSUME FillInv, EndOfData PROVE FillInv'
<1>1. candle \in Candles /\ candle' = candle /\ stage' = "signal" /\ pending' = pending
  BY DEF EndOfData, FillInv, CandleFits
<1>2. candle.close \in Nat /\ candle.low <= candle.close /\ candle.close <= candle.high
  BY <1>1, CandleRange
<1>3. CASE SellAll(candle.close, Lowered(candle.close), "end of data", 0)
  <2>1. BooksInv' /\ PeakInv' /\ FillsHonest'
    BY <1>2, <1>3, LoweredIsNat, SellAllKeeps
  <2>2. QED
    BY <1>1, <2>1 DEF FillInv, CandleFits
<1>4. CASE NothingSold
  <2>1. BooksInv' /\ PeakInv' /\ FillsHonest'
    BY <1>4, NothingSoldKeeps
  <2>2. QED
    BY <1>1, <2>1 DEF FillInv, CandleFits
<1>5. QED
  BY <1>3, <1>4 DEF EndOfData

\* A backtest begins with nothing held and nothing filled.
LEMMA FillInit == BacktestInit => FillInv
<1> SUFFICES ASSUME BacktestInit PROVE FillInv
  OBVIOUS
<1>1. BooksInv /\ ~Held
  BY BooksInit DEF BacktestInit, AccountInit, Held, NoPosition
<1>2. QED
  BY <1>1 DEF BacktestInit, FillInv, CandleFits, PeakInv, FillsHonest, NoFill, NoCandle, NoOrder

\* The budget of an order for the next candle is a whole number.
LEMMA BudgetIsInt == ASSUME FillInv PROVE Budget \in Int
<1>1. cash \in Int
  BY DEF FillInv, BooksInv
<1>2. FractionPct \in Nat /\ RatioPct \in Nat /\ MaxOrder \in Nat
  BY BacktestAssumption
<1>3. cash * FractionPct \in Int /\ cash * RatioPct \in Int
  BY <1>1, <1>2
<1>4. Percent(FractionPct, cash) \in Int /\ Percent(RatioPct, cash) \in Int
  <2> DEFINE x == cash * FractionPct
             y == cash * RatioPct
  <2>1. Percent(FractionPct, cash) = x \div 100 /\ Percent(RatioPct, cash) = y \div 100
    BY DEF Percent
  <2>2. x \in Int /\ y \in Int
    BY <1>3
  <2> HIDE DEF x, y
  <2>3. QED
    BY <2>1, <2>2
<1>5. QED
  BY <1>2, <1>4 DEF Budget, Smaller

\* Every step of the loop keeps the invariant.
LEMMA FillStep == FillInv /\ [BacktestNext]_backtestVars => FillInv'
<1> SUFFICES ASSUME FillInv, [BacktestNext]_backtestVars PROVE FillInv'
  OBVIOUS
<1>1. ASSUME UNCHANGED <<accountVars, peak, fill, topHigh>>, CandleFits', pending'.budget \in Int
      PROVE  FillInv'
  BY <1>1 DEF accountVars, FillInv, BooksInv, BooksBalance, PeakInv, Held, FillsHonest
<1>2. CASE NextCandle
  BY <1>1, <1>2 DEF NextCandle, riskVars, FillInv, CandleFits
<1>3. CASE AtOpen
  BY <1>3, AtOpenKeeps
<1>4. CASE Exits
  BY <1>4, ExitsKeep
<1>5. CASE EndOfData
  BY <1>5, EndOfDataKeeps
<1>6. CASE BuySignal
  <2>1. pending'.budget \in Int
    BY <1>6, BudgetIsInt DEF BuySignal, NoOrder
  <2>2. QED
    BY <1>1, <1>6, <2>1 DEF BuySignal, riskVars, CandleFits
<1>7. CASE SellSignal
  <2>1. pending'.budget \in Int
    BY <1>7 DEF SellSignal, NoOrder
  <2>2. QED
    BY <1>1, <1>7, <2>1 DEF SellSignal, riskVars, CandleFits
<1>8. CASE NoSignal
  BY <1>1, <1>8 DEF NoSignal, riskVars, FillInv, CandleFits
<1>9. CASE UNCHANGED backtestVars
  BY <1>1, <1>9 DEF backtestVars, FillInv, CandleFits
<1>10. QED
  BY <1>2, <1>3, <1>4, <1>5, <1>6, <1>7, <1>8, <1>9 DEF BacktestNext

\* The invariant of a backtest holds throughout.
LEMMA FillAlways == BacktestSpec => []FillInv
<1>1. FillInv /\ [BacktestNext]_backtestVars => FillInv'
  BY FillStep
<1>2. QED
  BY <1>1, FillInit, PTL DEF BacktestSpec

\* FillsHonest: a fill lies within the candle it is booked in, gaps included, and
\* a trailing stop hangs from a price of an earlier candle of this position
\* (backtest/engine.py, the loop body; risk/manager.py, the exit rules).
THEOREM BacktestFillsHonest == BacktestSpec => []FillsHonest
<1>1. FillInv => FillsHonest
  BY DEF FillInv
<1>2. QED
  BY <1>1, FillAlways, PTL

\* BooksBalance: the account of a backtest balances, too, where a sale is always
\* of everything and a purchase of what the budget affords.
THEOREM BacktestBalances == BacktestSpec => []BooksBalance
<1>1. FillInv => BooksBalance
  BY DEF FillInv, BooksInv
<1>2. QED
  BY <1>1, FillAlways, PTL

=============================================================================
