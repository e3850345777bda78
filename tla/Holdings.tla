------------------------------ MODULE Holdings -------------------------------
(* What the live engine takes to be its position in one market: built from    *)
(* the account when it starts (app/main.py, portfolio_from_accounts and       *)
(* merge_saved_positions of app/trading/live_broker.py), compared with the    *)
(* account again and again (reconcile), judged at every price (check_exits)   *)
(* and kept in the database.  Coins that came in from elsewhere have no       *)
(* purchase price: the price the bot first saw stands in for it.              *)
EXTENDS Integers

CONSTANTS
  Marks,          \* the prices the market may have
  LeastAmount,    \* min_order_amount: less than that cannot be sold
  Lots,           \* units the owner moves and the bot buys at a time
  MaxUnits,       \* bound: units on the account
  Rules,          \* stop, target and trail in percent, 0 for None
  Upsets          \* what may happen besides, see HoldingsAssumption

(* "sold_outside": the owner empties the market while the bot runs.           *)
(* "bought_over_dust": the bot buys again what had become too little to sell. *)
(* "unrecorded": the database refuses the record of a sale.                   *)
(* "cheap_start": an engine starts while the coins are worth too little: the  *)
(* stored basis is not looked at, and the price may have risen a moment later.*)
ASSUME HoldingsAssumption ==
  /\ Marks \subseteq Nat \ {0} /\ Lots \subseteq Nat \ {0}
  /\ LeastAmount \in Nat /\ MaxUnits \in Nat
  /\ Rules \in [stop : 0..99, target : Nat, trail : 0..99]
  /\ Upsets \subseteq {"sold_outside", "bought_over_dust", "unrecorded", "cheap_start"}

VARIABLES
  coins,      \* the account: units, and avg_buy_price (0: unknown)
  mark,       \* the price of the market
  engine,     \* "down", "starting" or "running"
  quoted,     \* the last price the engine has seen, 0 when none
  holding,    \* portfolio.positions[market]; nothing held is 0 units
  stored,     \* its PositionRecord
  top,        \* risk.state.peak_prices[market], 0 when there is none
  highest,    \* history: the highest price known of the coins held now
  touched     \* history: the owner has moved coins since stored was written

holdingVars == <<coins, mark, engine, quoted, holding, stored, top, highest, touched>>

Nothing == [units |-> 0, basis |-> 0, known |-> FALSE]
Higher(a, b) == IF a > b THEN a ELSE b

HoldingsInit ==
  /\ coins = [units |-> 0, avg |-> 0]
  /\ mark \in Marks
  /\ engine = "down" /\ quoted = 0
  /\ holding = Nothing /\ stored = Nothing
  /\ top = 0 /\ highest = 0 /\ touched = FALSE

-----------------------------------------------------------------------------
(* portfolio_from_accounts: coins worth too little are dust, not a position;  *)
(* the reference is the price used where the purchase price is unknown.       *)
Valuation(reference) == IF reference # 0 THEN reference ELSE coins.avg

IsDust(reference) ==
  Valuation(reference) > 0 /\ coins.units * Valuation(reference) < LeastAmount

FromAccount(reference) ==
  IF coins.units = 0 \/ IsDust(reference) THEN Nothing
  ELSE [units |-> coins.units, known |-> coins.avg > 0,
        basis |-> IF coins.avg > 0 THEN coins.avg ELSE reference]

\* A mutant of MergeSaved: only what the account does not tell otherwise is kept.
MergeSavedAfresh(h) == h

(* merge_saved_positions: the stored basis of as many units stays in force.   *)
MergeSaved(h) ==
  IF h.units # 0 /\ h.units = stored.units /\ ~h.known /\ stored.basis > 0
  THEN [h EXCEPT !.basis = stored.basis, !.known = stored.known]
  ELSE h

(* The holding is h from now on; history: so much its coins have been worth.  *)
HoldNow(h, since, price) ==
  /\ holding' = h
  /\ highest' = Higher(since, Higher(h.basis, price))

-----------------------------------------------------------------------------
(* The engine                                                                 *)

(* sync_portfolio, or the account in record_fill.                             *)
Store(h) == stored' = h /\ touched' = FALSE

(* The database holds a basis for coins without a purchase price.             *)
StoredBasis == stored.units > 0 /\ ~stored.known /\ stored.basis > 0

(* build_live_components: the tickers may be unavailable.  rebuild starts     *)
(* with no peak prices, stored or not.                                        *)
Build ==
  /\ engine = "down"
  /\ engine' = "starting"
  /\ quoted' = 0
  /\ \E reference \in {0, mark} :
       /\ StoredBasis /\ IsDust(reference) => "cheap_start" \in Upsets
       /\ HoldNow(MergeSaved(FromAccount(reference)), 0, 0)
  /\ top' = 0
  /\ UNCHANGED <<coins, mark, stored, touched>>

(* ensure_prices                                                              *)
EnsurePrices ==
  /\ engine # "down"
  /\ quoted' = mark
  /\ UNCHANGED <<coins, mark, engine, holding, stored, top, highest, touched>>

(* _reconcile_locked: a basis once chosen is its own reference.               *)
Reference ==
  IF holding.units > 0 /\ ~holding.known /\ holding.basis > 0 THEN holding.basis ELSE quoted

(* reconcile and sync_portfolio; no await between them.  The first one is     *)
(* part of the startup; a later one may fail to store.                        *)
Reconcile ==
  /\ engine # "down"
  /\ engine' = "running"
  /\ HoldNow(FromAccount(Reference), highest, 0)
  /\ \/ Store(holding')
     \/ engine = "running" /\ UNCHANGED <<stored, touched>>
  /\ UNCHANGED <<coins, mark, quoted, top>>

Prior == IF top # 0 THEN top ELSE holding.basis

StopReached == Rules.stop # 0 /\ mark * 100 <= holding.basis * (100 - Rules.stop)
TargetPassed == Rules.target # 0 /\ mark * 100 > holding.basis * (100 + Rules.target)
TrailReached ==
  Rules.trail # 0 /\ mark * 100 <= Prior * (100 - Rules.trail) /\ Prior > holding.basis

(* A price message: check_exits.  Without a basis this price becomes it.      *)
FirstPrice ==
  /\ holding.basis = 0
  /\ HoldNow([holding EXCEPT !.basis = mark, !.known = FALSE], highest, mark)
  /\ UNCHANGED <<coins, stored, top, touched>>

(* Nothing is sold: no rule is met, or the sale is put off or refused.        *)
Judged ==
  /\ holding.basis # 0
  /\ top' = IF Rules.trail = 0 \/ StopReached \/ TargetPassed THEN top ELSE Higher(Prior, mark)
  /\ HoldNow(holding, highest, mark)
  /\ UNCHANGED <<coins, stored, touched>>

(* Everything held is sold, recorded and reported to the risk manager;        *)
(* record_fill comes first and may raise.                                     *)
SoldOut ==
  /\ coins.units >= holding.units
  /\ coins' = [units |-> coins.units - holding.units,
               avg |-> IF coins.units = holding.units THEN 0 ELSE coins.avg]
  /\ holding' = Nothing /\ highest' = 0
  /\ \/ Store(Nothing) /\ top' = 0
     \/ "unrecorded" \in Upsets /\ UNCHANGED <<stored, touched, top>>

ExitSale ==
  /\ holding.basis # 0
  /\ StopReached \/ TargetPassed \/ TrailReached
  /\ SoldOut

PriceTick ==
  /\ engine = "running"
  /\ holding.units > 0
  /\ quoted' = mark
  /\ FirstPrice \/ Judged \/ ExitSale
  /\ UNCHANGED <<mark, engine>>

(* Signals: a sale of everything, or a purchase where nothing is held.        *)
SignalSale ==
  /\ engine = "running"
  /\ holding.units > 0
  /\ SoldOut
  /\ UNCHANGED <<mark, engine, quoted>>

AverageOver(n) ==
  IF coins.units = 0 THEN mark
  ELSE IF coins.avg = 0 THEN 0
  ELSE (coins.units * coins.avg + n * mark) \div (coins.units + n)

Purchase(n) ==
  /\ engine = "running"
  /\ holding.units = 0
  /\ n * mark >= LeastAmount
  /\ coins.units = 0 \/ "bought_over_dust" \in Upsets
  /\ coins.units + n <= MaxUnits
  /\ coins' = [units |-> coins.units + n, avg |-> AverageOver(n)]
  /\ HoldNow([units |-> n, basis |-> mark, known |-> TRUE], 0, mark)
  /\ Store(holding')
  /\ UNCHANGED <<mark, engine, quoted, top>>

(* The end of the engine; an orderly one, once it runs, stores the holding.   *)
EngineStops ==
  /\ engine # "down"
  /\ engine' = "down"
  /\ \/ engine = "running" /\ Store(holding)
     \/ UNCHANGED <<stored, touched>>
  /\ holding' = Nothing /\ quoted' = 0
  /\ UNCHANGED <<coins, mark, top, highest>>

-----------------------------------------------------------------------------
(* The market and the owner.                                                  *)
PriceMoves ==
  /\ mark' \in Marks \ {mark}
  /\ UNCHANGED <<coins, engine, quoted, holding, stored, top, highest, touched>>

OwnerMoves(now) ==
  /\ coins' = now
  /\ touched' = (touched \/ now.units # coins.units)
  /\ UNCHANGED <<mark, engine, quoted, holding, stored, top, highest>>

Deposit(n) ==
  /\ coins.units + n <= MaxUnits
  /\ OwnerMoves([coins EXCEPT !.units = @ + n])

Withdraw(n) ==
  /\ n < coins.units
  /\ OwnerMoves([coins EXCEPT !.units = @ - n])

WithdrawAll ==
  /\ coins.units > 0
  /\ engine = "down" \/ "sold_outside" \in Upsets
  /\ OwnerMoves([units |-> 0, avg |-> 0])

(* The owner enters a purchase price at the exchange.                         *)
StateCost(price) ==
  /\ coins.units > 0 /\ coins.avg = 0
  /\ OwnerMoves([coins EXCEPT !.avg = price])

HoldingsNext ==
  \/ Build \/ EnsurePrices \/ Reconcile \/ PriceTick
  \/ SignalSale \/ EngineStops
  \/ \E n \in Lots : Purchase(n) \/ Deposit(n) \/ Withdraw(n)
  \/ PriceMoves \/ WithdrawAll
  \/ \E price \in Marks : StateCost(price)

HoldingsSpec == HoldingsInit /\ [][HoldingsNext]_holdingVars

-----------------------------------------------------------------------------
(* What exits are judged by stands as long as the coins are the same ones.    *)
(* The price that was stored in place of an unknown purchase price is never   *)
(* replaced by a later one while the owner leaves the coins alone, over any     *)
(* number of reconciles and restarts (live_broker.py, merge_saved_positions, reconcile),*)
(* and the peak a trailing stop follows was reached by the coins held now     *)
(* (manager.py, peak_prices).                                                 *)
PeakIsOfTheseCoins == holding.units > 0 => top <= highest

BasisStands ==
  StoredBasis /\ ~touched /\ stored'.units = stored.units /\ ~stored'.known
  => stored'.basis = stored.basis

ExitsJudgeTheseCoins == []PeakIsOfTheseCoins /\ [][BasisStands]_holdingVars
=============================================================================
