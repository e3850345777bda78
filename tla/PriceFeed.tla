------------------------------ MODULE PriceFeed ------------------------------
(* The prices of one market in the engine (app/exchange/websocket.py: stream; *)
(* app/trading/engine.py: _price_loop, ensure_prices, _check_price_staleness; *)
(* app/trading/market_state.py: PriceState).  The price task reads tickers    *)
(* and order books from a stream that reconnects by itself, and opens a new   *)
(* stream when one ends in an error; the rounds of the main task ask REST for *)
(* a price when the stream's is old.  Times are kept as ages in ticks; an age *)
(* of Long means that long ago, or never.                                     *)
EXTENDS Integers

CONSTANTS
  BaseDelay, LongestDelay,      \* reconnect_base_delay, reconnect_max_delay
  BaseBackoff, LongestBackoff,  \* price_loop_backoff, price_loop_max_backoff
  RecvTimeout,   \* recv_timeout
  MaxAge,        \* price_max_age_seconds
  BookAge,       \* book_max_age_seconds
  Alert,         \* price_stale_alert_seconds
  MaxTransit,    \* bound: age of a message when it is handled
  MaxRound,      \* bound: ticks of a round
  Long           \* bound: an age from which on ages are not told apart

ASSUME FeedAssumption ==
  /\ {BaseDelay, LongestDelay, BaseBackoff, LongestBackoff, RecvTimeout} \subseteq Nat \ {0}
  /\ {MaxAge, BookAge, Alert, MaxTransit, MaxRound, Long} \subseteq Nat
  /\ MaxAge + BookAge + MaxRound < Long /\ Alert + MaxRound < Long /\ MaxTransit < Long

VARIABLES
  network,   \* "up", "down", or "refusing": the request is answered by an error
  link,      \* where the price task is: "connecting", "connected", "waiting" to
             \* reconnect, "resting" between two streams, "ended",
             \* or "cancelled" by the end of the engine
  delay,     \* what is left of a sleep
  pause,     \* the next reconnect delay of this stream
  backoff,   \* the next pause between two streams
  quiet,     \* ticks since the connection delivered anything
  silence,   \* ticks since a price came from the stream, for the properties
  last,      \* last_price: [at: age of last_time, quoted: age of the quote]
  book,      \* the same of best_bid, best_ask and book_time
  held,      \* the portfolio has a position
  round,     \* the main task: "asleep", "awake", "asking", "judging"
  since,     \* ticks since the round read its clock
  alerted    \* _price_stale_alerted

linkVars == <<link, delay, pause, backoff, quiet, silence>>
priceVars == <<last, book>>
roundsVars == <<round, since, alerted>>
feedVars == <<network, linkVars, priceVars, held, roundsVars>>

Lesser(a, b) == IF a < b THEN a ELSE b
Older(age) == Lesser(age + 1, Long)
Quoted(age) == [at |-> age, quoted |-> age]

-----------------------------------------------------------------------------
(* PriceState *)

(* is_fresh, judged by a clock that was read `lag` ticks ago.                 *)
Fresh(lag) == Lesser(last.at, book.at) - lag <= MaxAge

\* A mutant of BookUsable: an order book is used whatever its age.
BookUsableAlways == book.at < Long

BookUsable == book.at < Long /\ book.at - last.at <= BookAge

(* The age of what mark_price shows.                                          *)
MarkAge == IF BookUsable THEN book.quoted ELSE last.quoted

FeedInit ==
  /\ network = "up"
  /\ link = "connecting" /\ delay = 0 /\ pause = BaseDelay /\ backoff = BaseBackoff
  /\ quiet = 0 /\ silence = 0
  /\ last = Quoted(Long) /\ book = Quoted(Long)
  /\ held \in BOOLEAN
  /\ round = "asleep" /\ since = 0 /\ alerted = FALSE

-----------------------------------------------------------------------------
(* The clock, the network and the account *)

(* A sleep that is over, a silence that is too long and a round that is at    *)
(* its bound do not wait.                                                     *)
ClockTicks ==
  /\ link \in {"waiting", "resting"} => delay > 0
  /\ link = "connected" => quiet < RecvTimeout
  /\ round # "asleep" => since < MaxRound
  /\ delay' = IF delay > 0 THEN delay - 1 ELSE 0
  /\ quiet' = IF link = "connected" THEN quiet + 1 ELSE 0
  /\ silence' = Lesser(silence + 1, Long)
  /\ last' = [at |-> Older(last.at), quoted |-> Older(last.quoted)]
  /\ book' = [at |-> Older(book.at), quoted |-> Older(book.quoted)]
  /\ since' = IF round = "asleep" THEN 0 ELSE since + 1
  /\ UNCHANGED <<network, link, pause, backoff, held, round, alerted>>

NetworkTurns ==
  /\ network' \in {"up", "down", "refusing"} \ {network}
  /\ UNCHANGED <<linkVars, priceVars, held, roundsVars>>

PositionTurns ==
  /\ round = "asleep"
  /\ held' = ~held
  /\ UNCHANGED <<network, linkVars, priceVars, roundsVars>>

-----------------------------------------------------------------------------
(* The stream: connect, receive, wait and connect again *)

(* The counter of attempts starts again with a connection, before anything    *)
(* has come over it.                                                          *)
Connect ==
  /\ link = "connecting" /\ network # "down"
  /\ link' = "connected" /\ pause' = BaseDelay /\ quiet' = 0
  /\ UNCHANGED <<network, delay, backoff, silence, priceVars, held, roundsVars>>

(* The stream sleeps before it connects again, longer every time.             *)
Reconnecting ==
  /\ link' = "waiting"
  /\ delay' = pause
  /\ pause' = Lesser(2 * pause, LongestDelay)
  /\ quiet' = 0
  /\ UNCHANGED <<network, backoff, silence, priceVars, held, roundsVars>>

ConnectFails == link = "connecting" /\ network = "down" /\ Reconnecting

(* The peer closes, an error closes, or the server asks for fewer requests.   *)
ConnectionLost == link = "connected" /\ Reconnecting

ReceiveTimesOut == link = "connected" /\ quiet >= RecvTimeout /\ Reconnecting

DelayOver ==
  /\ link = "waiting" /\ delay = 0
  /\ link' = "connecting"
  /\ UNCHANGED <<network, delay, pause, backoff, quiet, silence, priceVars, held, roundsVars>>

(* A status message, or one that nobody can read: it keeps the stream.        *)
StatusMessage ==
  /\ link = "connected" /\ network = "up" /\ quiet > 0
  /\ quiet' = 0
  /\ UNCHANGED <<network, link, delay, pause, backoff, silence, priceVars, held, roundsVars>>

PriceMessage ==
  /\ link = "connected" /\ network = "up"
  /\ quiet' = 0 /\ silence' = 0
  /\ backoff' = BaseBackoff
  /\ UNCHANGED <<network, link, delay, pause, held, roundsVars>>

Ticker(age) == PriceMessage /\ last' = Quoted(age) /\ UNCHANGED book
Orderbook(age) == PriceMessage /\ book' = Quoted(age) /\ UNCHANGED last

-----------------------------------------------------------------------------
(* The price loop: a new stream after an error *)

\* A mutant of FatalError: the error ends the loop.
FatalErrorEnds ==
  /\ link = "connected" /\ network = "refusing"
  /\ link' = "ended"
  /\ delay' = backoff
  /\ backoff' = Lesser(2 * backoff, LongestBackoff)
  /\ quiet' = 0
  /\ UNCHANGED <<network, pause, silence, priceVars, held, roundsVars>>

FatalError ==
  /\ link = "connected" /\ network = "refusing"
  /\ link' = "resting"
  /\ delay' = backoff
  /\ backoff' = Lesser(2 * backoff, LongestBackoff)
  /\ quiet' = 0
  /\ UNCHANGED <<network, pause, silence, priceVars, held, roundsVars>>

NewStream ==
  /\ link = "resting" /\ delay = 0
  /\ link' = "connecting" /\ pause' = BaseDelay
  /\ UNCHANGED <<network, delay, backoff, quiet, silence, priceVars, held, roundsVars>>

(* The engine stops: the price task is cancelled in whatever await it is.     *)
FeedStops ==
  /\ link # "cancelled" /\ round = "asleep"
  /\ link' = "cancelled"
  /\ UNCHANGED <<network, delay, pause, backoff, quiet, silence, priceVars, held, roundsVars>>

-----------------------------------------------------------------------------
(* The rounds of the main task *)

WakeUp ==
  /\ round = "asleep" /\ link # "cancelled"
  /\ round' = "awake" /\ since' = 0
  /\ UNCHANGED <<network, linkVars, priceVars, held, alerted>>

(* _check_price_staleness, by the round's clock.                              *)
Silent == held /\ Lesser(last.at, book.at) - since >= Alert

(* The rest of the round: on some rounds ensure_prices, which asks when the   *)
(* price is not fresh.                                                        *)
CheckStaleness ==
  /\ round = "awake"
  /\ alerted' = Silent
  /\ round' \in {"asleep", IF Fresh(since) THEN "judging" ELSE "asking"}
  /\ UNCHANGED <<network, linkVars, priceVars, held, since>>

(* The price is stamped with the round's clock; the exchange quoted it later. *)
PriceAnswered ==
  /\ round = "asking" /\ network # "down"
  /\ \E age \in 0..since : last' = [at |-> since, quoted |-> age]
  /\ round' = "judging"
  /\ UNCHANGED <<network, linkVars, book, held, since, alerted>>

PriceUnanswered ==
  /\ round = "asking"
  /\ round' = "judging"
  /\ UNCHANGED <<network, linkVars, priceVars, held, since, alerted>>

(* check_exits by the round's clock, then back to sleep.                      *)
Judge ==
  /\ round = "judging"
  /\ round' = "asleep"
  /\ UNCHANGED <<network, linkVars, priceVars, held, since, alerted>>

FeedNext ==
  \/ ClockTicks \/ NetworkTurns \/ PositionTurns
  \/ Connect \/ ConnectFails \/ ConnectionLost \/ ReceiveTimesOut \/ DelayOver
  \/ StatusMessage
  \/ \E age \in 0..MaxTransit : Ticker(age) \/ Orderbook(age)
  \/ FatalError \/ NewStream \/ FeedStops
  \/ WakeUp \/ CheckStaleness \/ PriceAnswered \/ PriceUnanswered \/ Judge

FeedSpec == FeedInit /\ [][FeedNext]_feedVars

(* Time passes; an attempt, a sleep and a timeout end; an exchange that is up *)
(* sends tickers over a connection; an await of the main task ends.           *)
FeedFairness ==
  /\ WF_feedVars(ClockTicks)
  /\ WF_feedVars(Connect \/ ConnectFails)
  /\ WF_feedVars(DelayOver) /\ WF_feedVars(NewStream)
  /\ WF_feedVars(ReceiveTimesOut) /\ WF_feedVars(FatalError)
  /\ SF_feedVars(\E age \in 0..MaxTransit : Ticker(age))
  /\ WF_feedVars(CheckStaleness)
  /\ WF_feedVars(PriceAnswered \/ PriceUnanswered)
  /\ WF_feedVars(Judge)

-----------------------------------------------------------------------------
(* A price that passes for fresh, by the clock of the price task or by the    *)
(* older one of a round, shows a quote that is not older than the two limits  *)
(* together: neither an order book that stopped hours ago next to a REST      *)
(* price of now, nor a REST answer that came late, passes.                    *)
MarkIsRecent ==
  \A lag \in {0, since} : Fresh(lag) => MarkAge - lag <= MaxAge + BookAge

(* The stream comes back by itself: when the exchange stays up, prices keep   *)
(* coming, whatever errors, refusals and silences there were before, unless   *)
(* the engine stops.                                                          *)
FeedReturns == <>[](network = "up") => ([]<>(silence = 0) \/ <>(link = "cancelled"))
=============================================================================
