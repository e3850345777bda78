# Formal models of upbit-auto-trader

TLA+ models of `src/app`: the live order protocol, the engine around it, the
daily risk state, the control of engines by the dashboard, its jobs, the feed
of prices and candles, notifications, and the rules that decide what is bought
and sold. TLC checks them on small instances, TLAPS proves the central
properties for every value of the constants.

    tlc -workers 2 -config OrderExecution.cfg MCOrderExecution.tla
    tlapm OrderExecutionProofs.tla

`PROJECT.json` lists the runs, the source lines behind every definition, the
hazards the properties answer, a mutant per property, the findings and the
theorems.

## 1. Inventory of the system

One **engine process** (`python -m app.main run`) trades. It is a single asyncio
program with two tasks: the *main* loop of `TradingEngine.run` (commands, cash
flows, pending orders, candles, reconcile, snapshots) and the *price* task
`_price_loop` (every price message runs `check_exits`). They share one
`LiveBroker`, whose `_lock` serialises `execute`, `resolve_order` and
`reconcile`; everything else relies on the fact that only an `await` lets the
other task in. One or more **dashboard processes** (`app/api`) read the same
SQLite database, queue commands in it, start or kill the engine and run
backtests as background jobs. The **exchange** is reached over REST
(rate-limited client) and WebSocket.

| component | state | operations | what is hard | what makes it correct | module |
|---|---|---|---|---|---|
| Live broker (`trading/live_broker.py`) | `processed`, `_lock`, the `Order` in hand | `execute`, `resolve_order`, `reconcile`, `portfolio_from_accounts`, `merge_saved_positions` | answers lost or late, lookups that fail, trades that lag, cancels that race fills, coins moved by the owner | one order per client_id; a verdict is given once and is true; the price a position is judged by belongs to its coins | OrderExecution, OrderPromise, LiveTrading, Holdings |
| Engine (`trading/engine.py`) | `pending_orders`, exit backoff, timers, stop flag | signals, exits, recording, resolving, giving up, reconcile, startup, stop | two tasks, restart at any await, database failures | one order per signal, pending orders survive a restart, the books return to the exchange | LiveTrading, MarketRound, ControlPlane, PriceFeed |
| Portfolio (`trading/portfolio.py`) | cash, positions, trades | `buy`, `sell` | partial sales, fees, rounding of shares | what was spent is in the position or in the result of a trip | Portfolio, LiveTrading |
| Risk manager (`risk/manager.py`, `state_store.py`) | `RiskState`, its copy in the database | day roll-over, `update_equity`, `record_trade`, `apply_cash_flow`, `halt`, `resume`, `rebuild`, `evaluate`, `check_exit` | midnight, restart in mid-day, replay, order of startup | a closed day stays closed; nothing is forgotten or counted twice | RiskDay, Holdings, Backtest |
| Repository (`database/`) | signals, orders, fills, trips, cash flows, commands, status, settings | one session per call | a call fails between two others | what a restart needs is there | in the modules that use it |
| Market state (`trading/market_state.py`) | candle frames, prices with times | `merge_candles`, `update_price`, `find_gaps` | late, repeated, missing candles; stale prices | the frame is whole, only the newest candle is acted on, no stale price passes for fresh | MarketRound, PriceFeed |
| Runtime settings (`trading/runtime_settings.py`) | version, parts that need a restart | `maybe_reload_settings` | a failure half way, an invalid version | all of one version, or nothing | ControlPlane |
| Process control (`trading/instance_lock.py`, `api/process.py`) | lock file, PID, heartbeat | start, stop, kill | two starters, stale heartbeat, commands left over | one engine per mode; a command reaches the engine it was meant for | ControlPlane |
| Exchange client (`exchange/upbit_client.py`, `rate_limiter.py`) | call windows, penalty times | `_request`, `acquire`, `block_for` | retries, 429/418, sleeping waiters | never more calls than allowed, none during a block | ExchangeClient |
| WebSocket (`exchange/websocket.py`) | connection, attempt | connect, receive, reconnect | dropped and silent connections | prices return once the network does | PriceFeed |
| Notifications (`notify/manager.py`) | bounded queue, cooldowns | `emit`, eviction, delivery, close | queue at its limit, drain on stop | every accepted event is delivered in its turn, waiting, or dropped to make room; those lost with an unlabelled victim are known | Notifications |
| Jobs (`api/backtests.py`, `api/optimizer.py`, `backtest/loader.py`) | job table, gate, cache files, rows | submit, cancel, delete, trim, load | cancel while waiting or finishing, paging, restart | a record says how its job ended; no candle is lost or repeated | DashboardJobs |
| Backtest engine (`backtest/engine.py`) | position, pending order, peak | the loop over candles | fills at prices of the future | fills at a price the candle had | Backtest |
| Strategies and indicators (`strategy/`) | none | `generate_signal` | warm-up, frames that begin anywhere | a signal depends on the window only, is one-sided | Strategies, Signals |
| Safety flags (`trading/live_guard.py`) | `.env`, settings of each process | start, confirm, arm | two processes read the file at different times | no real order without mode, switch and typed phrase | LiveGuard |
| Dashboard handlers, web page, logging | none of their own | I/O | none a model reaches | tests | no |

## 2. What is modelled

### OrderPromise
The abstract specification both detailed models implement. For each request it
keeps the exchange's side (`absent`, `live`, `closed`) and the verdict (`nothing`,
`asked`, `unknown`, `filled`, `rejected`, `early`): an order is placed only while
it is being asked for, at most once; a verdict that settles is final; `filled`
only when the order is closed, `rejected` never while it is live. `SettleEarly`
is the verdict the code gives on a reading that was still open (finding 1): only
on a request that is being asked for and has been placed, and after it nothing
is promised about the order but that there is no second one.

### OrderExecution (`live_broker.py`)
One action per stretch between two awaits of `execute` and `resolve_order`.
`cid` and `step` say which call holds the lock and where it waits; `tries` and
`missing` are its loop counters; `seen` the last `OrderInfo` read. An identifier
is a pair of client_id and attempt (`make_identifier`), so the suffix retry on
`duplicated_identifier` and the lookup under the *same* identifier are told
apart. A fill is counted in units; what the model keeps of money is whether the
funds are known (`FundsKnown`, from `OrderInfo.fill_funds`), since that decides
between booking and UNKNOWN. The exchange is external: it takes an identifier
once, executes step by step, may end an order short, and may answer with an
execution whose trades are not listed yet.

A cancel may be carried out, accepted and not carried out yet, or refused
(`TryCancel`): a DELETE is not repeated (`upbit_client.py:459`) and an API error
of it is ignored (`live_broker.py:340-345`). One reading follows, and
`_apply_fill` does not ask whether it is final. `early` is a history variable
with the requests that were settled on a reading that was still open. It is part
of the model whatever `Faults` is. `GiveUp` is the engine's end of patience
(`engine.py:614-625`): an UNKNOWN order past `pending_max_age` is no longer
resolved (`givenUp`) and stays UNKNOWN.

`Faults` selects environment behaviour beyond lost answers, failed lookups and
failed cancels: `late_request`, `server_error`, `garbled`, `position_gone`
(defined at the top of the module). Nothing in the code excludes them; they are
separate so that one can see which property depends on which.

### LiveTrading (`engine.py` around the broker)
Both tasks, the books (`qty`, `cash`), `pending_orders`, the database records
that survive a restart, and the account on the exchange. A call of the broker is
condensed to `RefuseOrder`, or `Send` and a conclusion: settled
(`ConcludeSettled`), settled while the exchange still has the order open
(`ConcludeEarly`: the engine stores it as REJECTED, does not keep it as pending
and does not name its market to reconcile, and the exchange may yet execute it),
UNKNOWN, or not recorded. `check_exits` and
`resolve_pending_orders` iterate over copies (`exits`, `todo`), and `reconcile`
is given the markets to leave alone before it waits for the lock (`exclude`):
the three places where the code acts on what it read earlier. `Build`,
`StartSync`, `LoadPending` and `Run` are the startup in the code's order;
`Crash` is the end of the process at any point (a stop cancels the price task in
the middle of an order, so it is no gentler). An order left UNKNOWN may be given
up during the startup as well as later.

`Outstanding` is what may move the account behind the back of the books: orders
that are open or undecided, and for good those that were given up or settled
early, which nobody looks at again. `BooksAgree` speaks of the markets without
any; the others are left to the next reconcile, and `BooksHeal` says that it
comes and mends them.

What the proof of `BooksAgree` brought out: `reconcile` names the markets to
leave alone before it waits for the lock (`engine.py:1100`). If another order
becomes UNKNOWN meanwhile, the cash is left alone for the sake of the first
(`live_broker.py:497`) and the coins of the second are copied, after which its
fill changes nothing: the cash is wrong until a reconcile with nothing pending.
`BooksAgree` speaks of the coins always, and of the cash while one order at most
has become UNKNOWN. `BooksHeal` says that it ends.

### Holdings (`live_broker.py`, `manager.py`, `engine.py`)
LiveTrading counts units; this module adds what they cost. It follows one market
from the account (`portfolio_from_accounts`, `merge_saved_positions` with the
stored `PositionRecord`) through `reconcile`, purchases and sales of the bot and
of the owner, to `check_exits` with its stop, target and trailing stop. Where
the exchange does not know a purchase price the first price seen stands in for
it. `highest` and `touched` are history. Each of the four `Upsets` alone breaks
`ExitsJudgeTheseCoins`; they are real and are kept out of the run so that the
rest of the code is checked without them:

- `sold_outside`, `bought_over_dust`: `reconcile` removes a position without
  `record_trade`, so its peak stays and the next position of the market inherits
  it, against the comment at `risk/manager.py:56`;
- `unrecorded`: `record_fill` raises (`engine.py:526`) and `record_trade` is
  never reached; the peak stays here too, and `sync_portfolio` later stores an
  account without the round trip;
- `cheap_start`: an engine that starts while the coins are worth less than the
  least order drops the stored basis (`live_broker.py:90`).

### RiskDay (`manager.py`, `state_store.py`, startup of `engine.py`)
`RiskManager` has no await, so each method is an operator on its state and one
step of the engine; `store` is the copy in the database and is written exactly
where the code persists (`update_equity` saves a new day or a new lock, not
every measurement). `held` is the `now` a task has taken and still uses after an
await; `entering` that the main task waits for the order of an entry it was
allowed, so that an entry is a step of its own. `BeginRebuild`, `ReplayTrip` and
`FinishRebuild` are `rebuild` with its intermediate saves; the cash flows that
`run` applies next are part of `FinishRebuild`, since no task runs in between.
History variables (`halting`, `closed`, `began`, `counted`) remember what was
ordered and what happened, and no action of the code reads them. (`Halt` and
`Resume` are disabled where they would change nothing.)

`Faults`: `stale_now` (midnight while a task holds its `now`), `late_sale` (an
UNKNOWN sale of a day that is halted or locked is found during the restart),
`torn_replay` (the process ends inside `rebuild`), `no_price` (no equity at
startup).

### ControlPlane (`api/server.py`, `api/process.py`, `main.py`, `instance_lock.py`, `engine.py`, `runtime_settings.py`)
Dashboards and engines are processes that meet in the database and at the lock
file. A dashboard's request runs over several steps (looks at the status, queues
a command, waits for a child); an engine goes through `launched`, the lock,
reading the settings, discarding old commands, running, stopping. The clock is
reduced to "fresh or stale": a heartbeat may be overtaken at any await. Commands
are marked one by one in a transaction of their own that may be refused
(`MaxRefusals`). `maybe_reload_settings` leaves an invalid version alone and
takes a valid one as a whole, at once when the candles at hand are enough for
the new strategy (`Reload`), otherwise after a warm-up (`ReloadWaits`, then
`ReloadWarmed` or `ReloadFails`). The strategy is replaced before the warm-up
(`engine.py:777`) and stays replaced when that raises: a *torn* engine, a new
strategy under the old version. A later version that brings the old strategy
back shows no change and the wrong one stays. `SettingsInForce` therefore says
of the strategy only that it belongs to the version in force unless the engine
is torn; limits and version belong together always, and markets that differ from
those of the start are announced.

### ExchangeClient and DashboardJobs
`ExchangeClient` models `_request` and the limiter as coroutines see them:
`acquire` sleeps while it holds the lock, waiters queue in order, `block_for`
may come while somebody sleeps, a GET is retried with backoff, 429 and 418 pause
everyone. Ages and remaining waits are kept instead of clock readings, so that
time needs no bound. `quiet` and `recent` are what the exchange has asked for and
what it has been sent, whoever asks; `blocked` and `events` are what the limiter
remembers of it, in memory only (`upbit_client.py:118`). A restart (`Forget`)
empties the second pair and leaves the first; `forgotten` is how long what was
forgotten still lasts. `LimitsKept` promises silence and window to the exchange
except for what was under way at a restart: a dashboard that is restarted within
a 418 block does send into it. What is asked for after the restart and lasts
longer is kept, and nothing is broken once the forgotten part is over.
`DashboardJobs` EXTENDS it: jobs wait at the gate of their
runner, load frames page by page (`get_candles_range`) or from files, compute in
a thread and leave a row; requests cancel and delete them, the table is trimmed
(`MAX_JOBS`, `KEEP_JOBS`), the process restarts. What the module found and the
properties are worded around:

- a job cancelled while queued keeps the row `queued`, and rows of a process
  that ended stay `running` or `queued` for ever;
- cancelling a job in `to_thread` frees the gate while its thread computes on,
  against the comment at `backtests.py:286`;
- a failure that would pass makes a search skip a market, and the poorer result
  is what it caches;
- a candle file cached for an end in the future, or cut off by `max_requests`,
  is later taken for complete (`FramesComplete` speaks of ranges that are over).

### MarketRound (`engine.py`, `market_state.py`, `strategy/data.py`)
A candle is the number of its interval; a slot nobody traded in has none, and
one may be shown late. A round asks for the latest candles, merges the closed
ones, refills holes and executes the signal of the newest; time passes at its
awaits. `FrameWhole`: when the strategy is asked, what the exchange had shown for the
range the frame covers is in the frame, unless the refill failed or was cut at
its limit. `acted` is the sequence of the candles whose signal was executed.
`ActsOnTheLatest`: every execution is of the newest candle of the frame and of
one newer than all executed before, so never twice and never out of order,
restarts included. The record of signals (`save_signal`), which also stops a
second execution, is left out here: the candles and the age check
(`engine.py:354`) do it alone. Two facts of the code bound what can be stated: the frame is advanced before the signal is acted on (`market_state.py:86`), so an exception
afterwards (`RoundRaises`) loses that candle's signal for good, against the
docstring at `engine.py:305`; and a slot without trades looks like a hole for
ever, so every new candle costs a refill.

### PriceFeed (`websocket.py`, `engine.py`, `market_state.py`)
One market's ticker and order book as ages, the price task that connects,
receives with a time-out, reconnects with growing pauses and opens a new stream
after a fatal error, and the rounds that ask REST when the stream's price is
old. Ages saturate at `Long`, beyond every limit, so the state space is finite
for a feed that runs for ever. Shown by the model but not stated as a property:
the attempt counter is reset at connect (`websocket.py:290`), so a server that
accepts and drops is asked again without a growing pause; `last_data_at`
(`engine.py:808`) takes the newest over all markets and counts corrections from
REST, so the alarm of a silent stream repeats or is masked.

### Notifications (`notify/manager.py`)
`emit` with cooldown and eviction by priority, the worker over channels with
retries, `close` with its drain. `EventKind.ACCOUNT` has no label
(`notify/base.py:37`, 51-66), which the model keeps: its formatting raises, so
the warnings of an account sync (`engine.py:653`) reach no channel, and evicting
such an event (`manager.py:117`) raises after the queue was emptied.
`EventsAccounted` says where every accepted event is: delivered in its turn,
waiting, dropped to make room, or lost with the rest of the queue in that second
case.

### Portfolio and Backtest
`Portfolio` is the account of one market in parts of a won, so that fees are
whole numbers; a partial sale takes a rounded share of amount and fee with it.
`Backtest` EXTENDS it with the loop of `backtest/engine.py`: the order of the
last signal at the open, stops and targets within the candle (the stop first),
the sale at the end, the next signal. `FillsHonest`: before slippage the price
of every fill lies within the candle it is booked in, and a trailing stop hangs
from a price of a candle the position was held through before this one.

### Strategies and Signals
`Strategies` has the rule of each of the twelve strategies over its indicators,
the parameters its validator lets through, and from which candle every indicator
has a value; it is pure and is used by `Signals` and by proofs. `Signals`
computes the eight strategies whose indicators look at a window of candles;
`HistoryIrrelevant` compares the signal of a frame with that of every longer
one. EMA, RSI, MACD and ADX depend on where the history begins, so the property
does not hold of them and they are not computed. One exception among the rules:
Bollinger without its RSI filter can, after a flat window, say both BUY and
SELL; the signal is then SELL with the reason of a purchase.

### LiveGuard (`live_guard.py`, `config/settings.py`, `upbit_client.py`)
The `.env` file may change at any time; the dashboard judges by what it read at
its own start, the child reads the file again, a start as PAPER overrides the
mode, and a running engine keeps its settings for life. The module has no run;
its theorem covers all of it.

## 3. Runs

| run | instance | shows |
|---|---|---|
| order_execution | a buy and a sale, 2 submissions each, 2 attempts, 2 lookups, 1 poll, 2 units, no faults; 83 544 states | every safety property of the protocol and the refinement of OrderPromise, failed and slow cancels included |
| order_execution_faults | as above, 1 submission, 1 unit, all faults, fairness; 5 589 states | one order, one booking and a findable order survive every fault; UNKNOWN orders are settled unless given up |
| live_trading | 1 market, 2 orders, 2 candles, one of each trouble (lost, given up, database, restart), any order settled early, fairness; 63 182 states | one order per signal, recorded pending orders, books that heal, the refinement of OrderPromise |
| live_trading_steady | 2 markets, 3 orders, 2 lost, no restart, 1 given up, no database failure; 2 694 611 states | calls of the broker exclude each other; the books agree with the account on every market with nothing outstanding, given up or settled early (the cash, while besides one order at most is lost); no late fill is booked twice |
| risk_day | 2 days, 3 sales, 2 cash flows, 1 restart, 2 equities one loss apart; 780 848 states | halts, locks, counts, the day's base and cash flows survive everything the code handles |
| control_plane | 2 engines, 1 dashboard, 4 commands by name and 2 queued, 3 versions, 2 events, 1 refusal, fairness; 106 705 states | one engine; commands in order and for their engine; one version in force; the status heals and commands are answered |
| dashboard_jobs | 2 backtests, 1 search, 2 keys of which one has two pages, 2 submissions, 1 request, 1 restart, 1 trouble, 1 call per 2 ticks, fairness; 350 102 states | records are true, frames complete, limits kept but for those under way at a restart, jobs end |
| engine_parts | seven parts that share no state, one chosen by `part`; 995 023 states | the frame of candles, notifications, the account, a backtest, window strategies, the price feed (with fairness), the holding of a market |
| early_verdict, startup_sync, pending_race, halt_lost | the smallest instances that show it | the four findings below |

**Why the bounds are enough.** *OrderExecution:* a second client_id matters only
through the lock and through the two kinds of `OrderInfo` (a completed market
buy tells its funds, a sale does not), hence one of each. Two attempts reach the
suffix retry and its exhaustion; two lookups reach 'all missing', 'mixed' and
'found late'; two units distinguish partial from complete. The engine submits a
client_id once (signals are saved once, exits carry their time), so one
submission is the real case and two are generous. *LiveTrading:* two markets are
needed only to see that leaving one alone also leaves the cash alone; three
orders on one market let both tasks and a resolve meet; two lost orders are what
the exception of `BooksAgree` is about. *RiskDay:* two losses
out of three sales reach the consecutive lock and its reset; 9 of 10 with a
limit of 10 % is exactly on the boundary of `drawdown >= limit`; two cash flows
can lie on either side of a restart; two days suffice because nothing older than
the stored day is compared. *ControlPlane:* the second engine is the one that
must be kept out, or that follows the first; two commands have an order; three
versions are the default, a change and its reversal, which the torn reload
needs; one of three settings is unknown to this release. `Mixed = FALSE` keeps commands and
versions in different behaviours: they meet only in the counter of events, since one is handled in `Poll` and the other
at a candle boundary. *DashboardJobs:* two backtests compete for a gate, a
search and a backtest for the limiter; one key takes two pages, with a hole and
with candles before its start, one is empty; one trouble reaches the retry
and, with `MaxRetries = 1`, a second attempt that may block. *engine_parts:* intervals of 3 ticks with lateness of 2
intervals let a candle appear after its successor; 5 rows make the oldest fall
out; a queue of 2 with 6 events evicts both kinds; a backtest of 5 candles
enters, exits by each rule and can enter again after its cooldown; 6
bars are longer than every warm-up by one candle at least; marks {4, 6, 10} with
a stop of 20 %, a target of 50 % and a trail of 10 % reach every exit rule,
and a least amount of 12 makes small lots dust at some prices and not at others.

**Fairness.** In `OrderExecution.FairSpec` a call that has begun goes on (every
HTTP request ends in an answer or a timeout), the engine resolves an order again
at every round of its loop as long as it has not given it up (nothing says that
it gives up, and once it has, nothing more is assumed), and an environment that answers infinitely often sooner or
later answers well: the lookup, the trades. In `LiveTrading.FairSpec` startup
and tasks go on, `asyncio.Lock` serves its waiters in order (strong fairness of
taking it), the main loop returns to pending orders and to reconcile for ever,
and neither lookups nor `get_accounts` fail for ever. A market order does not
stay open for ever. In `ControlPlane` a process that can go on does; the
heartbeat and the poll of commands come round again and again and do not fail
every time (strong fairness, since the end of a process or a refused
transaction disables them in between). In `DashboardJobs` tasks, threads,
requests and time go on: the event loop starves nobody and bad answers are
bounded. In `PriceFeed` the clock, the tasks and their time-outs go on, and a
connection that stays up for ever delivers a ticker now and then (strong
fairness). Restarts, crashes, losses, give-ups, outages and database failures
are unfair everywhere.

**Deadlock.** The broker models stop when every request is settled,
ControlPlane when its events are used up, DashboardJobs and engine_parts when
all work is done; their configurations switch the deadlock check off. LiveTrading
and RiskDay leave it on.

## 4. Findings

1. *early_verdict* (`live_broker.py:342`). The head comment promises the final
   state after a cancel. The code sends the cancel once, ignores an API error of
   it, reads the order once and does not look whether that reading is final.
   Nothing executed yet means REJECTED, while the order is open and may be
   executed later; something executed means FILLED, with that much.
2. *startup_sync* (`engine.py:1039`). The first reconcile runs before the
   pending orders are loaded, with nothing excluded, against the reason the
   docstring of `reconcile` gives for `exclude`: the fill is then booked on
   balances that contain it.
3. *pending_race* (`engine.py:682`). The check for a pending order precedes the
   wait for the broker's lock, so an order can follow an UNKNOWN one on the same
   market, against the comment at `engine.py:179`.
4. *halt_lost* (`engine.py:1047`). Resolving pending orders precedes
   `rebuild_risk_state`. A sale found filled there saves an empty risk state
   over the stored one: halt, daily lock, base and cursor are lost.

Section 2 names further places where code and comment part (Holdings,
ControlPlane, DashboardJobs, MarketRound, Notifications). They are part of the
models, and the properties are stated so that they hold beside them; they have
no run of their own.

## 5. Proofs

| theorem | property | assumption |
|---|---|---|
| OrderExecutionProofs!Typing | TypeOK | none |
| OrderExecutionProofs!FillsBookedOnce | BookedOnce | none: every fault allowed |
| OrderExecutionProofs!OneOrderPerClientId | AtMostOneOrder | CreateIsDecided |
| OrderExecutionProofs!PlacedOrderGuarded | PlacedIsGuarded | CreateIsDecided |
| OrderExecutionProofs!OrderFindable | OrderKeepsItsHandle | CreateIsDecided |
| OrderExecutionProofs!PlacedOrderOnRecord | PlacedIsOnRecord | CreateIsDecided |
| OrderExecutionProofs!SettledOrderTrue | SettledIsTrue | NoFaults |
| OrderExecutionProofs!RequestsKeepPromise | KeepsPromise | NoFaults |
| LiveTradingProofs!SignalOrderedOnce | OneOrderPerSignal | none |
| LiveTradingProofs!CallsExclusive | OneCallAtATime | none |
| LiveTradingProofs!PendingRecorded | PendingIsRecorded | none |
| LiveTradingProofs!PromiseKept | KeepsPromise | none |
| LiveTradingProofs!BooksAgreeHolds | BooksAgree | Untroubled |
| LiveTradingProofs!LaterFillWasMissing | BookedFillWasMissing | Untroubled |
| RiskDayProofs!HaltSurvives | HaltStays | NoLateSale |
| RiskDayProofs!BaseOfTheDayKept | DayStartKept | NoFaults |
| RiskDayProofs!FlowsCounted | FlowsCountedOnce | NoFaults |
| RiskDayProofs!LossesMatch | LossesMatchTrips | NoFaults |
| RiskDayProofs!ClosedDayStaysClosed | NoEntryWhenClosed | NoFaults |
| ControlPlaneProofs!EnginesExclusive | OneEngine | none |
| ControlPlaneProofs!OneVersionInForce | SettingsInForce | none |
| ControlPlaneProofs!CommandsReachTheirEngine | OwnCommands | none |
| ControlPlaneProofs!EffectsFollowCommands | EffectsInOrder | none |
| EnginePartsProofs!ActsOnTheLatestHolds | ActsOnTheLatest | none |
| EnginePartsProofs!FrameWholeHolds | FrameWhole | ShortRounds |
| EnginePartsProofs!EventsAccountedHolds | EventsAccounted | none |
| EnginePartsProofs!ExitsJudgeTheseCoinsHolds | ExitsJudgeTheseCoins | Calm |
| EnginePartsProofs!FreshPricesAreRecent | MarkIsRecent | none |
| BacktestProofs!AccountBalances, BacktestBalances | BooksBalance | none |
| BacktestProofs!BacktestFillsHonest | FillsHonest | none |
| DashboardProofs!LimitsKeptHolds | LimitsKept | none |
| DashboardProofs!RecordsTrueHolds | RecordsTrue | none |
| DashboardProofs!FramesCompleteHolds | FramesComplete | Enough |
| DashboardProofs!RealMoneyAskedFor | RealOrdersAskedFor | none |
| StrategiesProofs!HistoryIrrelevantHolds | HistoryIrrelevant | SignalsAssumption: valid parameters, whole prices, RSI filters off |
| StrategiesProofs!LevelRulesOneSided, BollingerOneSided, StochasticOneSided, TrendRulesOneSided, IchimokuOneSided, VolumeBreakoutOneSided | no rule says buy and sell at once | valid parameters; Bollinger: a band with a width, or the RSI filter |
| StrategiesProofs!WarmupSuffices | behind `warmup_periods` every indicator has its two values | valid parameters |

The named assumption on the constants of each module is assumed throughout and
evaluated by TLC on every run. `CreateIsDecided` leaves out `late_request`,
`server_error` and `garbled`: then what a create request did is settled by the
time it is answered or times out. It is needed: with `late_request` and a second
submission the retry under a new suffix does place a second order. `NoLateSale`
leaves out finding 4. `NoFaults` means `Faults = {}`; in OrderExecution that still
includes cancels that fail or are slow, so `SettledIsTrue` and the refinement
speak of early verdicts as well, and each of the four faults of RiskDay breaks
`DayStartKept` or `FlowsCountedOnce`. `Untroubled` means no database failure and
no end of the process, as in the run: after either the books may be wrong
until a reconcile (`BooksHeal` is about that), and finding 2 begins with a
restart. `ShortRounds` says that what passes in one round, requests and waiting
included, is at most an interval: the refill asks for two candles more than the
gap needs, and these cover what begins meanwhile. Intervals are of a
minute and more, a request ends after seconds. `Calm` means `Upsets = {}`, each
of which is a real exception (section 2). `Enough` means that the candles of a
range fit into `max_requests` pages; longer ranges are cut off, as section 2
says.

*OrderExecution.* `BookedOnce` is not inductive: `BookInv` ties the number
of bookings to the verdict (one behind FILLED or PARTIAL, none otherwise) and
says at which steps of a call which verdicts are possible and whether the
client_id is in `processed`: whatever may still book it has not been booked.
`GuardInv` joins `PlacedIsGuarded` and `OrderKeepsItsHandle`, which need each
other, with: a lookup never counted as missing an order the exchange has, so a
REJECTED after all-404 is right and the client_id may be left open to execute.
Since every placed order is the one under the current attempt, there is at most
one. `TruthInv` adds, for `SettledIsTrue`: nothing is booked before a verdict
settles, and a call that is about to judge holds a reading that is either final,
and then it is the truth, or open, and then what it shows executed has been
executed and the verdict goes to `early`; such a verdict cannot be CANCELLED or
PARTIAL, which only a cancelled order's reading leads to. For the refinement (`PromiseStep`) a request is reduced to two values, the
side of its order on the exchange and its verdict; since one entry at most is
placed, the side is read off the entry under the identifier in hand. Each step
then takes the pair along an edge OrderPromise has: a submission places the order,
the exchange or a cancellation closes it, and a judgement falls on what
`TruthInv` knows to be closed or `GuardInv` to be absent, or it is early, on an
order that has been placed.

*LiveTrading.* The invariant has three parts: every order's fields fit
together and a signal's order implies its saved signal (OrdersOK); a task has an
order in hand exactly while it wants or waits, that order has no record yet and
no other task has it, and waiting is holding the lock (HandsOK); every entry of
`pending` and of the copy `todo` is an UNKNOWN record of its market (QueuesOK).
The refinement lifts each step on an order to a step of OrderPromise on that
order, and every other step to a stutter.

`BooksInv` adds what the books of a market may show at each moment of an order's
life. A market with a lost order, one UNKNOWN that the engine no longer goes
after or one settled early, may show anything. Any other is *at rest* (it shows the account, or waits
for exactly its pending order: bought and not in the books, sold and still in
the books, or a sale a reconcile has put there already) or has a call *under
way* and waits for that. This is preserved because a purchase is decided only on
a market at rest with nothing pending (`HandsFull`), and because what a reconcile
leaves alone holds every purchase that is pending (`MainsPart`): only the main
task buys, and it is the one that reconciles. A second sale can be on its
way beside an UNKNOWN one, finding 3; `UnderWay` says that it is possible only
when the first sold nothing, so no fill is lost. `CashFits` is the sum over all
markets: coins and cash of the books together are the funds, while `OneUnknown`
holds. `LaterFillWasMissing` reads `AtRest` at the moment of the lookup.

*RiskDay.* From the first rebuild on the halt in memory and the one in the
database equal the halt that was ordered; each method of the manager is shown
once to leave the halt alone. `DayInv`: the base in memory is the one the day
began with, and while the engine works and after it ended the database has it;
no stored day lies ahead of the clock. `FlowInv` says the same of what the flows
of the day add up to; a flow beyond a cursor, in memory or in the database, has
been counted on no day. `LossInv`: the losses in memory are those of the day's
trips, during a rebuild of those replayed so far (a trip more makes the streak
one longer or ends it). A closed day is locked in memory and in the database;
during a rebuild either the daily lock was taken over, or the lock is set
already, or the trips of the day show a streak that sets it before the replay
ends. That is why a lock for consecutive losses need not be taken over.

*ControlPlane.* `EngineInv` (types, lock, settings): whoever has come past the
lock file and is not gone holds it; an engine that is not torn has the settings
of the version it believes to have, and a pending restart names the parts that
differ. `QueueInv` adds to it that a command bears the engine that was there
when it was queued and that the engine has not yet carried out a later one;
`EffectsInv` that paused and halted are what the last command carried out made
them.

*MarketRound.* `RoundInv`: the frame holds closed candles the exchange has
published; it reaches as far as the new candles of the round, and further than
whatever was acted on while new ones are there; what was acted on is in rising
order and within the frame, so an execution adds a candle newer than all. For `FrameWhole` the refill is followed through its
await: the number it asks for reaches from the first gap to the last candle
begun when the answer comes, so the answer, if it was not cut short, has every
published candle from the gap on.

*Notifications.* Making room takes one victim out and leaves the order of the
others as it was, so the events in the queue stay in the order of their
acceptance, and each accepted event is in one of its places: delivered, waiting,
dropped, or lost with the rest when making room raises.

*Holdings.* A peak belongs to coins: without coins there is none, and with them
it is no higher than the prices seen since the purchase. The basis in memory and the
stored one agree as long as nothing was bought or sold, so a restart that finds
no price of purchase at the exchange takes the stored one.

*PriceFeed.* No price is stamped later than it was quoted: a REST answer bears
the clock its round read before it asked. So a mark that passes the guard, by
the clock of either task, was quoted no longer ago than the two limits together.

*Dashboard.* `LimitsKept`: the limiter's window is the end of the one counted at
the exchange, and what is missing at its front is too old to count (`Trails`);
so with room in the one there is room in the other. The silence the exchange
asks for is never longer than what the limiter knows of. Both hold of what came
after the last restart; what was sent or asked for before it is over when
`forgotten` is. `RecordsTrue`: of a deleted backtest no task is left
that could write its row again, and a job whose task is over has a verdict and
either the row that says so or none (`Told`). `FramesComplete`: between two
pages a load has every candle of the range from `to` on, and each page but the
last was full; so with pages to spare none is missing when the loop ends.

*Backtest.* `BooksInv`: without a position nothing is carried, so each purchase
and each sale, whatever share rounding takes, moves both sides of the balance
alike. `FillInv`: the peak never exceeds the highest price of the candles the
position was held through (or is the entry), hence a trailing stop fires at a
price the candle had.

*Signals.* What the last n candles of a frame f make is the same in f and in the
n candles alone (`Ending`), indicator by indicator: windows that agree candle by
candle have the same sum and the same extremes (`WindowsAgree`), and an
indicator made of indicators agrees from the candle on where all its windows are
full, which is what `warmup_periods` has to cover (`StochasticShift`: three
windows in a row; `IchimokuShift`: the displacement on top). On balance volume
does not agree. It differs by what the candles before the shorter frame added,
its mean differs by as much, whole-number quotients included (`QuotientRaised`),
and the rule only compares the two (`OBVSame`). What `SumOf` computes is proved
for every length by induction over the candles (`SetInduction`, from the
library's well-foundedness of the naturals).

*LiveGuard.* The phrase reaches a process only when it was typed for that start
and never one started as PAPER; a process runs with a live broker only if the
settings it read itself have both switches on and it was given the phrase.

**Only model-checked.** Liveness (`UnknownIsResolved`, `BooksHeal`,
`StatusHeals`, `CommandAnswered`, `JobEnds`, `FeedReturns`): the prover does not
handle fairness and ENABLED. No module declares a
RECURSIVE operator.

**What the proofs corrected.** The old `BooksAgree` promised the cash
without the exception above; with two lost orders TLC refutes it. In
`DashboardJobs` the guards of a CASE overlapped for a thread whose job had been
cancelled: TLC took the first, the definition left the choice open. They exclude
each other now.

## 6. What is not modelled

*Data.* Floating-point rounding (Portfolio and Backtest use whole numbers),
notification texts, logs, snapshots, metrics and reports, the buy-and-hold
benchmark, parsing and signing of exchange messages, migrations, retention and
listings of the database, charts, the web page. `evaluate`'s order sizes and
cooldown are in Backtest; the live cooldown's restoration (`manager.py:218`) is
not.

*Engine.* PAPER mode as a broker of its own (it never awaits, so it is the case
of LiveTrading where every order is decided at once); several markets in one
round; the confirmation streak and backoff of exits in Holdings; a tolerance of
1 % in `reconcile`, taken as equality; exceptions inside `_handle_price_message`;
trade messages of the WebSocket. A save of the risk state that fails is not
modelled: `RepositoryRiskStateStore` only logs it and nothing repeats it.
`LiveTrading` takes an order as executed in whole, and leaves partial execution
to `OrderExecution`; an early verdict there is therefore always REJECTED, with
nothing booked.

*Control.* CLI overrides of settings, safe mode, rotation of the engine's log,
reuse of a PID by the operating system, an engine whose command line cannot be
read.

*Jobs.* Failures to save a row (`_persist` suppresses them), transfers (POST),
skipping single intervals of a market in a search; the daily limits inside a
backtest (RiskDay has them).

*Strategies.* The values of EMA, RSI, MACD and ADX; only their rules and their
warm-up are modelled. The RSI filters of Bollinger and MA cross are off in
`Signals`: the RSI does depend on where its history begins.

*Notifications.* `flush` and `send_now`.

## 7. Structure and what could follow

OrderPromise is implemented by OrderExecution and by LiveTrading.
DashboardJobs composes the jobs with ExchangeClient, Backtest extends Portfolio,
Signals extends Strategies. MCEngineParts puts components that share no state
side by side (a variable names the one at work), which checks them in one run
without multiplying their states. Each `*Proofs` module extends the module it
is about.

What would add to it: RiskDay inside the startup of LiveTrading, to see findings 2 and 4 in one
behaviour; a second market in MarketRound, to state what `RoundRaises` costs the
others.
