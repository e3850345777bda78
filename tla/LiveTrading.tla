---------------------------- MODULE LiveTrading ----------------------------
(***************************************************************************)
(* app/trading/engine.py around app/trading/live_broker.py: the two tasks  *)
(* of a LIVE engine process that send orders, the books they share, and    *)
(* what the database carries over a restart.                               *)
(*                                                                         *)
(* "main" is TradingEngine.run's loop: it resolves UNKNOWN orders, forces  *)
(* an exit check, turns closed candles into orders and reconciles the      *)
(* books with the exchange.  "price" is _price_loop: every price message   *)
(* runs check_exits.  They share LiveBroker._lock.  Both are tasks of one  *)
(* asyncio loop, so only an await can come between two steps of a task.    *)
(*                                                                         *)
(* A call of LiveBroker.execute is RefuseOrder, or Send and then Conclude; *)
(* OrderExecution is the detail behind them.  The duplicate check in it    *)
(* is left to that module: here save_signal has dealt with duplicates      *)
(* before.  A buy buys one unit of the coin for one unit of cash, and an   *)
(* order is executed as a whole, so one that is settled early (a failed or *)
(* slow cancel, OrderExecution) is REJECTED with nothing booked.           *)
(***************************************************************************)
EXTENDS Integers, FiniteSetsExt

CONSTANTS
  Markets,        \* settings.markets
  Funds,          \* cash and coins of the account, in units
  MaxOrders,      \* bound: orders made
  MaxCandles,     \* bound: candles closed
  MaxLost,        \* bound: calls of execute that end UNKNOWN
  MaxGiveUps,     \* bound: UNKNOWN orders that reach pending_max_age
  MaxDbFailures,  \* bound: orders whose record the database refuses
  MaxCrashes      \* bound: ends of the process, killed or stopped

ASSUME ConstantsAssumption ==
  /\ IsFiniteSet(Markets)
  /\ {Funds, MaxOrders, MaxCandles, MaxLost, MaxGiveUps, MaxDbFailures, MaxCrashes}
       \subseteq Nat

VARIABLES
  order,    \* the orders made so far, by number: request, exchange, database record
  made,     \* how many
  hold,     \* external: the coins of the account on the exchange
  candle,   \* external: candles closed so far
  signals,  \* database: the <<market, candle>> of the signals saved
  qty,      \* Portfolio.positions: the quantity, 0 without a position
  cash,     \* Portfolio.cash
  pending,  \* pending_orders: the number of the UNKNOWN order of a market, or 0
  merged,   \* MarketState: the last closed candle merged
  phase,    \* how far the process has come
  lock,     \* LiveBroker._lock
  pc,       \* what a task is about
  req,      \* the order a task has in hand
  exits,    \* what is left of check_exits' copy of the positions
  todo,     \* what is left of resolve_pending_orders' copy of pending_orders
  exclude,  \* the markets main has asked reconcile to leave alone
  budget    \* bound: how often each kind of trouble may still happen

exchangeVars == <<hold, candle>>
orderVars    == <<order, made>>
bookVars     == <<qty, cash>>
taskVars     == <<lock, pc, req, exits, todo, exclude>>
vars == <<orderVars, exchangeVars, signals, bookVars, pending, merged, phase, taskVars,
          budget>>

Tasks    == {"main", "price"}
OrderIds == 1..MaxOrders
Orders   == [market : Markets,
             side   : {"BUY", "SELL"},
             signal : 0..MaxCandles,     \* the candle of the signal; 0 for an exit
             size   : Nat,
             exch   : {"unsent", "absent", "open", "filled", "cancelled"},
             \* EARLY is stored as REJECTED; only the properties tell it apart
             rec    : {"none", "UNKNOWN", "FILLED", "REJECTED", "EARLY"}]
NoOrder  == [market |-> "none"]
Made     == 1..made
NoOrders == [m \in Markets |-> 0]
Free     == "free"

\* GET /v1/accounts and /v1/orders/chance.
ExchangeCash  == Funds - MapThenSumSet(LAMBDA m : hold[m], Markets)
Waiting(side) == {i \in Made : order[i].exch = "open" /\ order[i].side = side}
AvailableCash == ExchangeCash - MapThenSumSet(LAMBDA i : order[i].size, Waiting("BUY"))
Available(m)  ==
  hold[m] - MapThenSumSet(LAMBDA i : order[i].size,
                          {i \in Waiting("SELL") : order[i].market = m})

Init ==
  /\ order = [i \in OrderIds |-> NoOrder] /\ made = 0
  /\ hold = [m \in Markets |-> 0] /\ candle = 0
  /\ signals = {}
  /\ qty = [m \in Markets |-> 0] /\ cash = 0
  /\ pending = NoOrders /\ merged = [m \in Markets |-> 0]
  /\ phase = "down"
  /\ lock = Free /\ pc = [t \in Tasks |-> "idle"] /\ req = [t \in Tasks |-> 0]
  /\ exits = [t \in Tasks |-> {}] /\ todo = NoOrders /\ exclude = {}
  /\ budget = [lost |-> MaxLost, giveups |-> MaxGiveUps, db |-> MaxDbFailures,
               crashes |-> MaxCrashes]

Spend(kind) == budget[kind] > 0 /\ budget' = [budget EXCEPT ![kind] = @ - 1]

-----------------------------------------------------------------------------
(* Decisions: what makes a task ask for an order.                          *)

MakeOrder(t, m, side, signal) ==
  /\ made < MaxOrders
  /\ made' = made + 1
  /\ order' = [order EXCEPT ![made + 1] =
                 [market |-> m, side |-> side, signal |-> signal, size |-> 0,
                  exch |-> "unsent", rec |-> "none"]]
  /\ req' = [req EXCEPT ![t] = made + 1]
  /\ pc' = [pc EXCEPT ![t] = "want"]

MainIdle == phase = "run" /\ pc["main"] = "idle"

\* process_closed_candles finds a new closed candle of m and saves its signal:
\* HOLD, saved before, too old, paused, or refused by the risk manager.
SignalWithoutOrder(m) ==
  /\ MainIdle /\ merged[m] < candle
  /\ merged' = [merged EXCEPT ![m] = candle]
  /\ signals' = signals \cup {<<m, candle>>}
  /\ UNCHANGED <<orderVars, exchangeVars, bookVars, pending, phase, taskVars, budget>>

\* Mutant of SignalOrder: the signal saved before a restart is not looked for.
SignalOrderAgain(m, side) ==
  /\ MainIdle /\ merged[m] < candle /\ pending[m] = 0
  /\ IF side = "BUY" THEN qty[m] = 0 /\ cash > 0 ELSE qty[m] > 0
  /\ merged' = [merged EXCEPT ![m] = candle]
  /\ signals' = signals \cup {<<m, candle>>}
  /\ MakeOrder("main", m, side, candle)
  /\ UNCHANGED <<exchangeVars, bookVars, pending, phase, lock, exits, todo, exclude, budget>>

\* _on_signal up to the call of execute.
SignalOrder(m, side) ==
  /\ MainIdle /\ merged[m] < candle
  /\ <<m, candle>> \notin signals
  /\ pending[m] = 0
  /\ IF side = "BUY" THEN qty[m] = 0 /\ cash > 0 ELSE qty[m] > 0
  /\ merged' = [merged EXCEPT ![m] = candle]
  /\ signals' = signals \cup {<<m, candle>>}
  /\ MakeOrder("main", m, side, candle)
  /\ UNCHANGED <<exchangeVars, bookVars, pending, phase, lock, exits, todo, exclude, budget>>

\* check_exits goes through a copy of the positions.
BeginExits(t) ==
  /\ phase = "run" /\ pc[t] = "idle"
  /\ exits' = [exits EXCEPT ![t] = {m \in Markets : qty[m] > 0}]
  /\ exits'[t] # {}
  /\ pc' = [pc EXCEPT ![t] = "exits"]
  /\ UNCHANGED <<orderVars, exchangeVars, signals, bookVars, pending, merged, phase, lock,
                 req, todo, exclude, budget>>

\* A task that is done with one market goes on with the rest of its copy.
After(t, rest) == IF rest = {} THEN "idle" ELSE "exits"

\* No exit condition, a stale price, a backoff, or an order pending.
SkipExit(t, m) ==
  /\ pc[t] = "exits" /\ m \in exits[t]
  /\ exits' = [exits EXCEPT ![t] = @ \ {m}]
  /\ pc' = [pc EXCEPT ![t] = After(t, exits[t] \ {m})]
  /\ UNCHANGED <<orderVars, exchangeVars, signals, bookVars, pending, merged, phase, lock,
                 req, todo, exclude, budget>>

ExitOrder(t, m) ==
  /\ pc[t] = "exits" /\ m \in exits[t]
  /\ pending[m] = 0
  /\ exits' = [exits EXCEPT ![t] = @ \ {m}]
  /\ MakeOrder(t, m, "SELL", 0)
  /\ UNCHANGED <<exchangeVars, signals, bookVars, pending, merged, phase, lock, todo,
                 exclude, budget>>

-----------------------------------------------------------------------------
(* execute and _record_order.                                              *)

Resume(t) ==
  /\ pc' = [pc EXCEPT ![t] = After(t, exits[t])]
  /\ req' = [req EXCEPT ![t] = 0]

\* An exception leaves the loop over the positions.
Abandon(t) ==
  /\ pc' = [pc EXCEPT ![t] = "idle"]
  /\ req' = [req EXCEPT ![t] = 0]
  /\ exits' = [exits EXCEPT ![t] = {}]

\* The price guard, the chance lookup or an empty balance end execute early.
RefuseOrder(t) ==
  /\ pc[t] = "want" /\ lock = Free
  /\ order' = [order EXCEPT ![req[t]].rec = "REJECTED"]
  /\ Resume(t)
  /\ UNCHANGED <<made, exchangeVars, signals, bookVars, pending, merged, phase, lock,
                 exits, todo, exclude, budget>>

\* What _build_params asks for: a sale takes the position of this moment.
AskedSize(i) ==
  IF order[i].side = "BUY"
  THEN IF AvailableCash > 0 THEN 1 ELSE 0
  ELSE LET m == order[i].market
       IN  IF qty[m] < Available(m) THEN qty[m] ELSE Available(m)

\* Mutant of Send: execute does not take the lock first.
SendUnlocked(t) ==
  /\ pc[t] = "want" /\ AskedSize(req[t]) > 0
  /\ \E e \in {"open", "absent"} :
       order' = [order EXCEPT ![req[t]].exch = e, ![req[t]].size = AskedSize(req[t])]
  /\ lock' = t
  /\ pc' = [pc EXCEPT ![t] = "wait"]
  /\ UNCHANGED <<made, exchangeVars, signals, bookVars, pending, merged, phase, req,
                 exits, todo, exclude, budget>>

\* create_order; the exchange may have refused it or never got it.
Send(t) ==
  /\ pc[t] = "want" /\ lock = Free
  /\ AskedSize(req[t]) > 0
  /\ \E e \in {"open", "absent"} :
       order' = [order EXCEPT ![req[t]].exch = e, ![req[t]].size = AskedSize(req[t])]
  /\ lock' = t
  /\ pc' = [pc EXCEPT ![t] = "wait"]
  /\ UNCHANGED <<made, exchangeVars, signals, bookVars, pending, merged, phase, req,
                 exits, todo, exclude, budget>>

\* _apply_fill of an executed order.  A sale finds at most the position.
Bookable(i) == order[i].side = "BUY" \/ qty[order[i].market] > 0

Book(i) ==
  LET m == order[i].market
      n == IF order[i].side = "BUY" THEN order[i].size
           ELSE IF order[i].size < qty[m] THEN -order[i].size ELSE -qty[m]
  IN  /\ qty'  = [qty EXCEPT ![m] = @ + n]
      /\ cash' = cash - n

\* Mutant of Settle: the record is made, the books are not touched.
SettleUnbooked(i) ==
  /\ order' = [order EXCEPT ![i].rec =
                 IF order[i].exch = "filled" /\ Bookable(i) THEN "FILLED" ELSE "REJECTED"]
  /\ UNCHANGED bookVars

\* The order is final on the exchange: its fill is applied, its record saved.
Settle(i) ==
  IF order[i].exch = "filled" /\ Bookable(i)
  THEN /\ Book(i)
       /\ order' = [order EXCEPT ![i].rec = "FILLED"]
  ELSE /\ UNCHANGED bookVars
       /\ order' = [order EXCEPT ![i].rec = "REJECTED"]

\* Mutant of Final: an open order passes for one that is done.
FinalTooSoon(i) == order[i].exch \in {"absent", "open", "filled", "cancelled"}

Final(i) == order[i].exch \in {"absent", "filled", "cancelled"}

ConcludeSettled(t) ==
  /\ pc[t] = "wait" /\ Final(req[t])
  /\ Settle(req[t])
  /\ Resume(t)
  /\ lock' = Free
  /\ UNCHANGED <<made, exchangeVars, signals, pending, merged, phase, exits, todo,
                 exclude, budget>>

\* The order is still open, the cancel has failed or is slow, and the one reading
\* after it settles the order: REJECTED, although the exchange may yet execute it.
\* It is not pending, nothing resolves it, and reconcile is not told of it.
ConcludeEarly(t) ==
  /\ pc[t] = "wait" /\ order[req[t]].exch = "open"
  /\ order' = [order EXCEPT ![req[t]].rec = "EARLY"]
  /\ Resume(t)
  /\ lock' = Free
  /\ UNCHANGED <<made, exchangeVars, signals, bookVars, pending, merged, phase, exits, todo,
                 exclude, budget>>

\* Mutant of ConcludeUnknown: the order is remembered but not recorded.
ConcludeUnknownInMemory(t) ==
  /\ pc[t] = "wait" /\ Spend("lost")
  /\ pending' = [pending EXCEPT ![order[req[t]].market] = req[t]]
  /\ Resume(t)
  /\ lock' = Free
  /\ UNCHANGED <<orderVars, exchangeVars, signals, bookVars, merged, phase, exits, todo, exclude>>

\* Neither the answer nor the lookups came through.
ConcludeUnknown(t) ==
  /\ pc[t] = "wait" /\ Spend("lost")
  /\ order' = [order EXCEPT ![req[t]].rec = "UNKNOWN"]
  /\ pending' = [pending EXCEPT ![order[req[t]].market] = req[t]]
  /\ Resume(t)
  /\ lock' = Free
  /\ UNCHANGED <<made, exchangeVars, signals, bookVars, merged, phase, exits, todo, exclude>>

\* execute has ended, but _record_order's first statement on the database
\* fails: what was applied stays applied, nothing is recorded or remembered.
ConcludeUnrecorded(t) ==
  /\ pc[t] = "wait" /\ Spend("db")
  /\ \/ order[req[t]].exch = "filled" /\ Book(req[t])
     \/ UNCHANGED bookVars
  /\ Abandon(t)
  /\ lock' = Free
  /\ UNCHANGED <<orderVars, exchangeVars, signals, pending, merged, phase, todo, exclude>>

-----------------------------------------------------------------------------
(* resolve_pending_orders, over a copy of pending_orders.                  *)

BeginResolve ==
  /\ MainIdle /\ pending # NoOrders
  /\ todo' = pending
  /\ pc' = [pc EXCEPT !["main"] = "resolve"]
  /\ UNCHANGED <<orderVars, exchangeVars, signals, bookVars, pending, merged, phase, lock,
                 req, exits, exclude, budget>>

GoOn(rest) == pc' = [pc EXCEPT !["main"] = IF rest = NoOrders THEN "idle" ELSE "resolve"]

Resolving(m) == pc["main"] = "resolve" /\ todo[m] # 0 /\ lock = Free

\* The lookup failed or the order is still open.
ResolveLater(m) ==
  /\ Resolving(m)
  /\ todo' = [todo EXCEPT ![m] = 0]
  /\ GoOn(todo')
  /\ UNCHANGED <<orderVars, exchangeVars, signals, bookVars, pending, merged, phase, lock,
                 req, exits, exclude, budget>>

\* del pending_orders[market] and _record_order.
ResolveSettled(m) ==
  /\ Resolving(m) /\ Final(todo[m])
  /\ Settle(todo[m])
  /\ pending' = [pending EXCEPT ![m] = 0]
  /\ todo' = [todo EXCEPT ![m] = 0]
  /\ GoOn(todo')
  /\ UNCHANGED <<made, exchangeVars, signals, merged, phase, lock, req, exits, exclude, budget>>

\* The database refuses the record of a decided order: the order is applied and
\* no longer pending, its record stays UNKNOWN, and the loop is left.  During
\* the startup this ends the process (Crash).
ResolveUnrecorded(m) ==
  /\ Resolving(m) /\ Final(todo[m]) /\ phase = "run" /\ Spend("db")
  /\ IF order[todo[m]].exch = "filled" THEN Book(todo[m]) ELSE UNCHANGED bookVars
  /\ pending' = [pending EXCEPT ![m] = 0]
  /\ todo' = NoOrders
  /\ GoOn(todo')
  /\ UNCHANGED <<orderVars, exchangeVars, signals, merged, phase, lock, req, exits, exclude>>

\* _give_up_pending: the record stays UNKNOWN, the books are to be reconciled.
GiveUp(m) ==
  /\ Resolving(m) /\ Spend("giveups")
  /\ pending' = [pending EXCEPT ![m] = 0]
  /\ todo' = [todo EXCEPT ![m] = 0]
  /\ exclude' = {x \in Markets : pending'[x] # 0}
  /\ pc' = [pc EXCEPT !["main"] = "giveup"]
  /\ UNCHANGED <<orderVars, exchangeVars, signals, bookVars, merged, phase, lock, req, exits>>

-----------------------------------------------------------------------------
(* reconcile.  The markets to leave alone are named before the lock is     *)
(* asked for.                                                              *)

\* Mutant of BeginSync: reconcile is called without the pending markets.
BeginSyncEverywhere ==
  /\ MainIdle
  /\ pc' = [pc EXCEPT !["main"] = "sync"]
  /\ UNCHANGED <<orderVars, exchangeVars, signals, bookVars, pending, merged, phase, lock,
                 req, exits, todo, exclude, budget>>

BeginSync ==
  /\ MainIdle
  /\ exclude' = {m \in Markets : pending[m] # 0}
  /\ pc' = [pc EXCEPT !["main"] = "sync"]
  /\ UNCHANGED <<orderVars, exchangeVars, signals, bookVars, pending, merged, phase, lock,
                 req, exits, todo, budget>>

\* Mutant of CopyAccounts: a coin the account no longer holds stays in the books.
CopyAccountsWithoutZeroes(except) ==
  /\ qty' = [m \in Markets |-> IF m \in except \/ hold[m] = 0 THEN qty[m] ELSE hold[m]]
  /\ cash' = IF except = {} THEN ExchangeCash ELSE cash

CopyAccounts(except) ==
  /\ qty' = [m \in Markets |-> IF m \in except THEN qty[m] ELSE hold[m]]
  /\ cash' = IF except = {} THEN ExchangeCash ELSE cash

\* A failed get_accounts leaves the books as they are.
Sync ==
  /\ pc["main"] \in {"sync", "giveup"} /\ lock = Free
  /\ CopyAccounts(exclude) \/ UNCHANGED bookVars
  /\ exclude' = {}
  /\ GoOn(todo)
  /\ UNCHANGED <<orderVars, exchangeVars, signals, pending, merged, phase, lock, req,
                 exits, todo, budget>>

-----------------------------------------------------------------------------
(* Start and end of the process.                                           *)

\* build_live_components and warmup; the newest candle may not be there yet.
Build ==
  /\ phase = "down"
  /\ phase' = "built"
  /\ qty' = hold /\ cash' = ExchangeCash
  /\ merged' \in [Markets -> {candle} \cup (IF candle > 0 THEN {candle - 1} ELSE {})]
  /\ UNCHANGED <<orderVars, exchangeVars, signals, pending, taskVars, budget>>

\* run's first reconcile, with the pending orders known so far: none.
StartSync ==
  /\ phase = "built"
  /\ phase' = "synced"
  /\ CopyAccounts({m \in Markets : pending[m] # 0})
  /\ UNCHANGED <<orderVars, exchangeVars, signals, pending, merged, taskVars, budget>>

Unknown(m) == {i \in Made : order[i].market = m /\ order[i].rec = "UNKNOWN"}

\* load_pending_orders: setdefault keeps the oldest of a market.
LoadPending ==
  /\ phase = "synced"
  /\ phase' = "loaded"
  /\ pending' = [m \in Markets |-> IF Unknown(m) = {} THEN 0 ELSE Min(Unknown(m))]
  /\ todo' = pending'
  /\ GoOn(todo')
  /\ UNCHANGED <<orderVars, exchangeVars, signals, bookVars, merged, lock, req, exits,
                 exclude, budget>>

\* The first resolve is through: the price task starts.
Run ==
  /\ phase = "loaded" /\ pc["main"] = "idle"
  /\ phase' = "run"
  /\ UNCHANGED <<orderVars, exchangeVars, signals, bookVars, pending, merged, taskVars, budget>>

\* The process dies where it stands.  A stop is no gentler with an order in
\* the hands of the price task: the task is cancelled.
Crash ==
  /\ phase # "down" /\ Spend("crashes")
  /\ phase' = "down"
  /\ qty' = [m \in Markets |-> 0] /\ cash' = 0
  /\ pending' = NoOrders /\ merged' = [m \in Markets |-> 0]
  /\ lock' = Free /\ pc' = [t \in Tasks |-> "idle"] /\ req' = [t \in Tasks |-> 0]
  /\ exits' = [t \in Tasks |-> {}] /\ todo' = NoOrders /\ exclude' = {}
  /\ UNCHANGED <<orderVars, exchangeVars, signals>>

-----------------------------------------------------------------------------
(* The exchange and the clock.                                             *)

Fill(i) ==
  /\ i \in Made /\ order[i].exch = "open"
  /\ order' = [order EXCEPT ![i].exch = "filled"]
  /\ hold' = [hold EXCEPT ![order[i].market] =
                IF order[i].side = "BUY" THEN @ + order[i].size ELSE @ - order[i].size]
  /\ UNCHANGED <<made, candle, signals, bookVars, pending, merged, phase, taskVars, budget>>

Cancel(i) ==
  /\ i \in Made /\ order[i].exch = "open"
  /\ order' = [order EXCEPT ![i].exch = "cancelled"]
  /\ UNCHANGED <<made, exchangeVars, signals, bookVars, pending, merged, phase, taskVars, budget>>

CloseCandle ==
  /\ candle < MaxCandles
  /\ candle' = candle + 1
  /\ UNCHANGED <<orderVars, hold, signals, bookVars, pending, merged, phase, taskVars, budget>>

-----------------------------------------------------------------------------
Decide ==
  \/ \E m \in Markets : SignalWithoutOrder(m) \/ \E s \in {"BUY", "SELL"} : SignalOrder(m, s)
  \/ \E t \in Tasks : BeginExits(t) \/ \E m \in Markets : SkipExit(t, m) \/ ExitOrder(t, m)

Conclude(t) ==
  ConcludeSettled(t) \/ ConcludeEarly(t) \/ ConcludeUnknown(t) \/ ConcludeUnrecorded(t)
Execute(t)  == RefuseOrder(t) \/ Send(t) \/ Conclude(t)
ResolveOne(m) == ResolveLater(m) \/ ResolveSettled(m) \/ ResolveUnrecorded(m) \/ GiveUp(m)
Resolve     == BeginResolve \/ \E m \in Markets : ResolveOne(m)
Startup     == Build \/ StartSync \/ LoadPending \/ Run
Exchange    == CloseCandle \/ \E i \in OrderIds : Fill(i) \/ Cancel(i)

Next ==
  \/ Decide \/ (\E t \in Tasks : Execute(t)) \/ Resolve \/ BeginSync \/ Sync
  \/ Startup \/ Crash \/ Exchange

Spec == Init /\ [][Next]_vars

\* A process that has started gets through its startup and its tasks go on:
\* every await ends.  asyncio.Lock serves its waiters in order.  The main loop
\* comes back to the pending orders and to reconcile for ever, and neither the
\* lookup of an order nor get_accounts fails for ever.  A market order does not
\* stay open for ever.
Fairness ==
  /\ WF_vars(Startup)
  /\ \A t \in Tasks :
       /\ SF_vars(RefuseOrder(t) \/ Send(t))
       /\ WF_vars(Conclude(t))
       /\ WF_vars(\E m \in Markets : SkipExit(t, m) \/ ExitOrder(t, m))
  /\ SF_vars(BeginResolve) /\ SF_vars(BeginSync)
  /\ SF_vars(Sync) /\ SF_vars(Sync /\ CopyAccounts(exclude))
  /\ SF_vars(\E m \in Markets : ResolveOne(m))
  /\ \A m \in Markets : SF_vars(ResolveSettled(m))
  /\ \A i \in OrderIds : WF_vars(Fill(i) \/ Cancel(i))

FairSpec == Spec /\ Fairness

-----------------------------------------------------------------------------
(* Properties.                                                             *)

TypeOK ==
  /\ made \in 0..MaxOrders
  /\ order \in [OrderIds -> Orders \cup {NoOrder}]
  /\ \A i \in Made : order[i] \in Orders
  /\ hold \in [Markets -> Nat] /\ candle \in 0..MaxCandles
  /\ signals \subseteq Markets \X (0..MaxCandles)
  /\ qty \in [Markets -> Nat] /\ cash \in Int
  /\ pending \in [Markets -> 0..made] /\ todo \in [Markets -> 0..made]
  /\ merged \in [Markets -> 0..MaxCandles]
  /\ phase \in {"down", "built", "synced", "loaded", "run"}
  /\ lock \in Tasks \cup {Free}
  /\ pc \in [Tasks -> {"idle", "exits", "want", "wait", "resolve", "sync", "giveup"}]
  /\ req \in [Tasks -> 0..made]
  /\ \A t \in Tasks : pc[t] \in {"want", "wait"} <=> req[t] # 0
  /\ exits \in [Tasks -> SUBSET Markets]
  /\ exclude \subseteq Markets
  /\ budget \in [{"lost", "giveups", "db", "crashes"} -> Nat]

\* A signal never leads to two orders, over restarts and over candles that are
\* seen again after one.
OneOrderPerSignal ==
  \A i, j \in Made :
    /\ order[i].signal # 0 /\ order[i].signal = order[j].signal
    /\ order[i].market = order[j].market
    => i = j

\* Whoever waits for the exchange holds the lock, so nothing else moves the
\* books or asks for a balance while an order is under way.
OneCallAtATime == \A t \in Tasks : pc[t] = "wait" <=> lock = t

\* What is kept back as pending can be found again after a restart.
PendingIsRecorded ==
  \A m \in Markets : pending[m] # 0 =>
    order[pending[m]].market = m /\ order[pending[m]].rec = "UNKNOWN"

\* The orders that may move, or may have moved, the holdings of m without the books
\* knowing: open, not decided, given up, or settled while the exchange had them open.
Outstanding(m) ==
  {i \in Made : /\ order[i].market = m
                /\ \/ order[i].exch = "open"
                   \/ order[i].rec \in {"UNKNOWN", "EARLY"}
                   \/ \E t \in Tasks : pc[t] = "wait" /\ req[t] = i}

\* Without an outstanding order the books hold what the exchange holds: the
\* positions always, the cash as long as no second order has become UNKNOWN.  With
\* two, reconcile may leave the cash alone for the sake of the one and copy the
\* position of the other, which became UNKNOWN after it had been told what to leave.
\* A market where an order was given up or settled early is left to BooksHeal.
BooksAgree ==
  phase = "run" =>
    /\ \A m \in Markets : Outstanding(m) = {} => qty[m] = hold[m]
    /\ (\A m \in Markets : Outstanding(m) = {}) /\ MaxLost - budget.lost <= 1
       => cash = ExchangeCash

\* A fill found by a later lookup is applied to books that miss it, never to
\* books that already show it.
BookedFillWasMissing ==
  [][\A i \in Made :
       /\ order[i].rec = "UNKNOWN" /\ order'[i].rec = "FILLED"
       /\ Outstanding(order[i].market) = {i}
       => qty[order[i].market] # hold[order[i].market]]_vars

\* Books that differ from the exchange come back to it, whatever was lost, not
\* recorded, given up, settled too early or left behind by a process that died.
BooksHeal ==
  \A m \in Markets :
    phase = "run" /\ qty[m] # hold[m] ~> qty[m] = hold[m] \/ phase = "down"

\* Every order of the engine is one request of the promise.
PlacedAs(i) ==
  IF i \notin Made \/ order[i].exch \in {"unsent", "absent"} THEN "absent"
  ELSE IF order[i].exch = "open" THEN "live" ELSE "closed"

ToldAs(i) ==
  CASE i \notin Made              -> "nothing"
    [] i \in Made /\ order[i].rec = "none"     -> "asked"
    [] i \in Made /\ order[i].rec = "UNKNOWN"  -> "unknown"
    [] i \in Made /\ order[i].rec = "FILLED"   -> "filled"
    [] i \in Made /\ order[i].rec = "REJECTED" -> "rejected"
    [] i \in Made /\ order[i].rec = "EARLY"    -> "early"

Promise == INSTANCE OrderPromise WITH
  Requests <- OrderIds,
  placed   <- [i \in OrderIds |-> PlacedAs(i)],
  told     <- [i \in OrderIds |-> ToldAs(i)]

\* The two tasks, the resolves, the give-ups and the restarts between them
\* keep the promise for every order.
KeepsPromise == Promise!Spec

\* An UNKNOWN order keeps its market closed to new orders until it is decided.
NoOrderWhilePending ==
  [][\A t \in Tasks : lock # t /\ lock' = t => pending[order[req[t]].market] = 0]_vars

=============================================================================
