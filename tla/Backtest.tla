------------------------------ MODULE Backtest -------------------------------
(* A backtest of one market (app/backtest/engine.py) with the entry and exit  *)
(* rules of app/risk/manager.py.  Candle after candle: the order of the last  *)
(* signal at the open, stops and targets within the candle, the end of the    *)
(* data, then the signal of this candle.  What the strategy says, and whether *)
(* a daily limit forbids an entry (RiskDay), is left open.                    *)
EXTENDS Portfolio

CONSTANTS
  Candles,             \* [open, high, low, close] a candle may have
  Count,               \* the candles of the backtest
  Slips, SlipParts,    \* slippage_rate is SlipParts / Slips
  FractionPct,         \* position_fraction, in percent
  MaxOrder, RatioPct,  \* max_order_amount; max_position_ratio, in percent
  StopPct, TargetPct, TrailPct,   \* exit rules in percent, 0 for None
  CooldownCandles      \* cooldown_seconds, in candles

ASSUME BacktestAssumption ==
  /\ \A c \in Candles :
       /\ c \in [open : Nat \ {0}, high : Nat, low : Nat \ {0}, close : Nat \ {0}]
       /\ c.low <= c.open /\ c.open <= c.high
       /\ c.low <= c.close /\ c.close <= c.high
  /\ Count \in Nat \ {0, 1}
  /\ Slips \in Nat \ {0} /\ SlipParts \in Nat /\ SlipParts < Slips
  /\ FractionPct \in 1..100 /\ MaxOrder \in Nat /\ RatioPct \in 1..100
  /\ StopPct \in 0..99 /\ TargetPct \in Nat /\ TrailPct \in 0..99
  /\ CooldownCandles \in Nat

VARIABLES
  index,      \* i, from 1
  stage,      \* where the loop body is
  candle,     \* the candle of i
  pending,    \* the order for the next open: [action, budget], or None
  peak,       \* risk.state.peak_prices[market], 0 when there is none
  lastExit,   \* risk.state.last_exit_at[market], 0 when there is none
  fill,       \* history: the last fill: its price before slippage, its candle, its trigger
  topHigh     \* history: the highest price of the candles held through

backtestVars == <<accountVars, index, stage, candle, pending, peak, lastExit, fill, topHigh>>

NoOrder == [action |-> "none", budget |-> 0]
NoCandle == [open |-> 0, high |-> 0, low |-> 0, close |-> 0]
NoFill == [price |-> 0, candle |-> NoCandle, why |-> "none", basis |-> 0]

Raised(price) == (price * (Slips + SlipParts)) \div Slips
Lowered(price) == (price * (Slips - SlipParts)) \div Slips
Percent(pct, price) == (price * pct) \div 100
Larger(a, b) == IF a > b THEN a ELSE b
Smaller(a, b) == IF a < b THEN a ELSE b

BacktestInit ==
  /\ AccountInit
  /\ index = 0 /\ stage = "next" /\ candle = NoCandle
  /\ pending = NoOrder
  /\ peak = 0 /\ lastExit = 0
  /\ fill = NoFill /\ topHigh = 0

riskVars == <<peak, lastExit>>

NextCandle ==
  /\ stage = "next"
  /\ index < Count
  /\ index' = index + 1
  /\ stage' = "open"
  /\ candle' \in Candles
  /\ UNCHANGED <<accountVars, pending, riskVars, fill, topHigh>>

-----------------------------------------------------------------------------
(* A sale of everything, with record_trade of the risk manager                *)
SellAll(price, slipped, why, basis) ==
  /\ Sell(position.quantity, slipped, FeeOn(position.quantity, slipped))
  /\ fills' = fills + 1
  /\ peak' = 0
  /\ lastExit' = index
  /\ fill' = [price |-> price, candle |-> candle, why |-> why, basis |-> basis]
  /\ topHigh' = 0

NothingSold == UNCHANGED <<accountVars, riskVars, fill, topHigh>>

(* 1) The order of the last signal.  A purchase that is too small is refused. *)
BuyAtOpen ==
  /\ pending.action = "BUY" /\ ~Held
  /\ LET price == Raised(candle.open)
         quantity == Affordable(Smaller(pending.budget, cash), price)
     IN /\ quantity > 0
        /\ Cost(quantity, price) >= MinOrder
        /\ Buy(quantity, price, FeeOn(quantity, price))
        /\ fills' = fills + 1
  /\ fill' = [price |-> candle.open, candle |-> candle, why |-> "signal", basis |-> 0]
  /\ topHigh' = 0
  /\ UNCHANGED riskVars

BuyRefused ==
  /\ pending.action = "BUY" /\ ~Held
  /\ LET price == Raised(candle.open)
         quantity == Affordable(Smaller(pending.budget, cash), price)
     IN quantity = 0 \/ Cost(quantity, price) < MinOrder
  /\ NothingSold

SellAtOpen ==
  /\ pending.action = "SELL" /\ Held
  /\ SellAll(candle.open, Lowered(candle.open), "signal", 0)

OrderIgnored ==
  /\ ~(pending.action = "BUY" /\ ~Held)
  /\ ~(pending.action = "SELL" /\ Held)
  /\ NothingSold

AtOpen ==
  /\ stage = "open"
  /\ \/ BuyAtOpen \/ BuyRefused \/ SellAtOpen
     \/ OrderIgnored
  /\ pending' = NoOrder
  /\ stage' = "exits"
  /\ UNCHANGED <<index, candle>>

(* 2) Stops and targets: the stop first; a target must be passed; the         *)
(* trailing stop follows the highest price up to the candle before.           *)
Stop == Percent(100 - StopPct, position.price)
Target == Percent(100 + TargetPct, position.price)
PriorPeak == IF peak = 0 THEN position.price ELSE peak
Trail == Percent(100 - TrailPct, PriorPeak)

StopHit == Held /\ StopPct > 0 /\ candle.low <= Stop
TargetHit == Held /\ ~StopHit /\ TargetPct > 0 /\ candle.high > Target
TrailHit == Held /\ TrailPct > 0 /\ candle.low <= Trail /\ PriorPeak > position.price

\* A mutant of StopFill: the trigger is paid even if the candle opened below it.
StopFillAtTrigger(trigger) == trigger

(* A stop is filled at its trigger, or at the open when that is worse.        *)
StopFill(trigger) == Smaller(candle.open, trigger)

StopOut ==
  /\ StopHit
  /\ SellAll(StopFill(Stop), Lowered(StopFill(Stop)), "stop", 0)

TakeProfit ==
  /\ TargetHit
  /\ SellAll(Larger(candle.open, Target), Larger(candle.open, Target), "target", 0)

TrailOut ==
  /\ TrailHit /\ ~StopHit /\ ~TargetHit
  /\ SellAll(StopFill(Trail), Lowered(StopFill(Trail)), "trail", topHigh)

Stay ==
  /\ Held => ~StopHit /\ ~TargetHit /\ ~TrailHit
  /\ peak' = IF Held /\ TrailPct > 0 THEN Larger(PriorPeak, candle.high) ELSE peak
  /\ topHigh' = IF Held THEN Larger(topHigh, candle.high) ELSE topHigh
  /\ UNCHANGED <<accountVars, lastExit, fill>>

Exits ==
  /\ stage = "exits"
  /\ StopOut \/ TakeProfit \/ TrailOut \/ Stay
  /\ stage' = "end of data"
  /\ UNCHANGED <<index, candle, pending>>

(* 3) The last candle sells what is left at its close.                        *)
EndOfData ==
  /\ stage = "end of data"
  /\ \/ /\ index = Count /\ Held
        /\ SellAll(candle.close, Lowered(candle.close), "end of data", 0)
     \/ /\ ~(index = Count /\ Held)
        /\ NothingSold
  /\ stage' = "signal"
  /\ UNCHANGED <<index, candle, pending>>

-----------------------------------------------------------------------------
(* 5) The signal of this candle, judged by the risk manager                   *)

CoolingDown ==
  /\ CooldownCandles > 0 /\ lastExit > 0
  /\ index - lastExit < CooldownCandles

(* Nothing is held, so that the equity is the cash.                           *)
Budget ==
  Smaller(Smaller(Percent(FractionPct, cash), MaxOrder), Percent(RatioPct, cash))

BuySignal ==
  /\ stage = "signal"
  /\ pending' = IF ~Held /\ ~CoolingDown /\ Budget >= MinOrder
                THEN [action |-> "BUY", budget |-> Budget] ELSE NoOrder
  /\ stage' = "next"
  /\ UNCHANGED <<accountVars, index, candle, riskVars, fill, topHigh>>

SellSignal ==
  /\ stage = "signal"
  /\ pending' = IF Held THEN [action |-> "SELL", budget |-> 0] ELSE NoOrder
  /\ stage' = "next"
  /\ UNCHANGED <<accountVars, index, candle, riskVars, fill, topHigh>>

(* No signal, or an entry that a daily limit forbids.                         *)
NoSignal ==
  /\ stage = "signal"
  /\ stage' = "next"
  /\ UNCHANGED <<accountVars, index, candle, pending, riskVars, fill, topHigh>>

BacktestNext ==
  \/ NextCandle
  \/ AtOpen \/ Exits \/ EndOfData
  \/ BuySignal \/ SellSignal \/ NoSignal

BacktestSpec == BacktestInit /\ [][BacktestNext]_backtestVars

-----------------------------------------------------------------------------
(* Every fill is one the market would have given: before slippage its price   *)
(* lies within the candle it is booked in, gaps included, and a trailing stop *)
(* hangs from a price of a candle the position was held through before, never *)
(* from this candle's own high or from an earlier position's.                 *)
FillsHonest ==
  /\ fill.candle.low <= fill.price /\ fill.price <= fill.candle.high
  /\ fill.why = "trail" => fill.price <= Percent(100 - TrailPct, fill.basis)
=============================================================================
