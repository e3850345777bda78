------------------------------ MODULE Portfolio ------------------------------
(* The account of the bot in one market (app/trading/portfolio.py): cash, the *)
(* position and what round trips have earned.  Money is counted in parts of a *)
(* won, so that a fee is a whole number; a quantity is a number of units.     *)
EXTENDS Integers

CONSTANTS
  InitialCash,        \* initial_cash
  Parts, FeeParts,    \* fee_rate is FeeParts / Parts
  MinOrder,           \* min_order_amount
  Prices, Quantities, Fees,   \* the fills an exchange may report
  MaxFills            \* bound: fills applied

ASSUME AccountAssumption ==
  /\ InitialCash \in Nat /\ MinOrder \in Nat /\ MaxFills \in Nat
  /\ Parts \in Nat \ {0} /\ FeeParts \in Nat
  /\ Prices \subseteq Nat \ {0} /\ Quantities \subseteq Nat \ {0} /\ Fees \subseteq Nat

VARIABLES
  cash,       \* portfolio.cash
  position,   \* portfolio.positions[market]; nothing held is a quantity of 0
  realised,   \* the sum of trade.pnl over portfolio.trades
  feesPaid,   \* portfolio.fees_paid
  fills       \* bounded counter

accountVars == <<cash, position, realised, feesPaid, fills>>

NoPosition == [quantity |-> 0, price |-> 0, amount |-> 0, fee |-> 0]
Held == position.quantity > 0

AccountInit ==
  /\ cash = InitialCash
  /\ position = NoPosition
  /\ realised = 0 /\ feesPaid = 0 /\ fills = 0

Cost(quantity, price) == quantity * price * Parts
FeeOn(quantity, price) == quantity * price * FeeParts

(* The units a budget pays for, fee included, rounded down.                   *)
Affordable(budget, price) == budget \div (price * (Parts + FeeParts))

(* buy: amounts and fees add up; the price becomes the average.               *)
Buy(quantity, price, fee) ==
  /\ cash' = cash - (Cost(quantity, price) + fee)
  /\ feesPaid' = feesPaid + fee
  /\ position' =
       [quantity |-> position.quantity + quantity,
        price |-> (position.price * position.quantity + quantity * price)
                    \div (position.quantity + quantity),
        amount |-> position.amount + Cost(quantity, price),
        fee |-> position.fee + fee]
  /\ UNCHANGED realised

(* What a sale of some units takes of an amount the position carries.         *)
Share(quantity, carried) ==
  IF quantity >= position.quantity THEN carried
  ELSE (carried * quantity) \div position.quantity

\* A mutant of Remaining: the fee paid for the units sold stays.
RemainingFee(quantity) ==
  IF quantity >= position.quantity THEN NoPosition
  ELSE [position EXCEPT !.quantity = @ - quantity,
                        !.amount = @ - Share(quantity, position.amount)]

Remaining(quantity) ==
  IF quantity >= position.quantity THEN NoPosition
  ELSE [position EXCEPT !.quantity = @ - quantity,
                        !.amount = @ - Share(quantity, position.amount),
                        !.fee = @ - Share(quantity, position.fee)]

(* sell: a round trip earns the proceeds less both fees and the entry.  More  *)
(* than is held sells what is held.                                           *)
Sold(quantity) == IF quantity >= position.quantity THEN position.quantity ELSE quantity

Sell(quantity, price, fee) ==
  /\ Held
  /\ cash' = cash + Cost(Sold(quantity), price) - fee
  /\ feesPaid' = feesPaid + fee
  /\ realised' = realised + Cost(Sold(quantity), price) - fee
                   - Share(quantity, position.amount) - Share(quantity, position.fee)
  /\ position' = Remaining(quantity)

-----------------------------------------------------------------------------
(* The live broker applies what the exchange reports, without limits          *)

Bounded == fills < MaxFills /\ fills' = fills + 1

BuyFilled ==
  /\ Bounded
  /\ \E q \in Quantities, p \in Prices, f \in Fees : Buy(q, p, f)

SellFilled ==
  /\ Bounded
  /\ \E q \in Quantities, p \in Prices, f \in Fees : Sell(q, p, f)

AccountNext == BuyFilled \/ SellFilled

AccountSpec == AccountInit /\ [][AccountNext]_accountVars

-----------------------------------------------------------------------------
(* After any purchases on top of each other and any sales in part, the cash   *)
(* and what the position carries are the initial cash and what the round      *)
(* trips are said to have earned: no share of an entry or of a fee is booked  *)
(* twice or never.                                                            *)
BooksBalance == cash + position.amount + position.fee = InitialCash + realised
=============================================================================
