--------------------------- MODULE OrderExecution ---------------------------
(***************************************************************************)
(* app/trading/live_broker.py: what LiveBroker does with one order request *)
(* from the moment the engine calls execute until the order is settled.    *)
(*                                                                         *)
(* LiveBroker._lock serialises execute and resolve_order, so one call is   *)
(* under way at a time (cid, step); between two of its steps the call      *)
(* awaits an HTTP request and the exchange moves on its own.               *)
(*                                                                         *)
(* The exchange is external.  It keeps one entry per identifier            *)
(* (client_id, attempt) = make_identifier(client_id, attempt):             *)
(*   "none"     never heard of             "refused"  refused, value burnt *)
(*   "transit"  request still on its way   "wait"     order open           *)
(*   "done", "cancel"                      order final                     *)
(* A fill is counted in units, an order asks for Size of them.             *)
(***************************************************************************)
EXTENDS Integers, FiniteSets

CONSTANTS
  ClientIds,       \* client_ids of the requests: one per signal or exit
  NoClient,        \* no call holds the lock
  Buys,            \* the requests that buy; the others sell
  Size,            \* units one order asks for
  MaxAttempts,     \* max_attempts
  LookupAttempts,  \* lookup_attempts
  MaxPolls,        \* fill_timeout / poll_interval
  TradesLookups,   \* trades_lookup_attempts
  MaxSubmits,      \* bound: how often the same client_id is handed to execute
  Faults           \* which of FaultKinds the environment shows

\* late_request   a create request without an answer may still arrive later
\* server_error   a create request answered by a 5xx may have been executed
\* garbled        a create request may be executed and answered unreadably
\* position_gone  the position to sell may have left the portfolio meanwhile
FaultKinds ==
  {"late_request", "server_error", "garbled", "position_gone"}

ASSUME ConstantsAssumption ==
  /\ NoClient \notin ClientIds
  /\ Buys \subseteq ClientIds
  /\ {Size, MaxAttempts, LookupAttempts} \subseteq Nat \ {0}
  /\ {MaxPolls, TradesLookups, MaxSubmits} \subseteq Nat
  /\ Faults \subseteq FaultKinds

VARIABLES
  exch,       \* external: the exchange's entry per identifier
  executed,   \* external: executed_volume per identifier
  processed,  \* LiveBroker.processed
  status,     \* Order.status of the last Order made for a client_id
  attempt,    \* the attempt in its exchange_identifier
  uuid,       \* does it know its exchange_order_id
  booked,     \* units of it applied to the portfolio
  bookings,   \* history: how often a fill of the client_id was applied
  submits,    \* history: how often execute was called with the client_id
  early,      \* history: the client_ids settled on a reading that was still open
  givenUp,    \* the client_ids of UNKNOWN orders the engine no longer resolves
  cid,        \* the request whose call holds the lock
  step,       \* where that call awaits
  tries,      \* its loop counter
  missing,    \* 404 answers among its lookups
  seen        \* the last OrderInfo it read

exchangeVars == <<exch, executed>>
fateVars     == <<early, givenUp>>
orderVars    == <<processed, status, attempt, uuid, booked, bookings, submits, fateVars>>
callVars     == <<cid, step, tries, missing, seen>>
vars         == <<exchangeVars, orderVars, callVars>>

Ids      == ClientIds \X (1..MaxAttempts)
Statuses == {"none", "NEW", "SUBMITTED", "FILLED", "PARTIAL", "CANCELLED",
             "REJECTED", "UNKNOWN"}
Settled  == {"FILLED", "PARTIAL", "CANCELLED", "REJECTED"}
Steps    == {"idle", "prepare", "create", "confirm", "poll", "final", "trades",
             "query"}
Entries  == {"none", "transit", "refused", "wait", "done", "cancel"}
InBook   == {"wait", "done", "cancel"}      \* GET /v1/order finds the order
Infos    == [state : Entries, executed : 0..Size, trades : BOOLEAN]
NoInfo   == [state |-> "none", executed |-> 0, trades |-> FALSE]

Identifier(c) == <<c, attempt[c]>>
IsFinal(info) == info.state \in {"done", "cancel"}

\* What get_order answers about an order the exchange knows.  The list of
\* trades may lag behind the executed volume.
Reading(id) ==
  {[state |-> exch[id], executed |-> executed[id], trades |-> t] :
     t \in IF executed[id] = 0 THEN {FALSE} ELSE BOOLEAN}

NeedsTrades(info) == info.executed > 0 /\ ~info.trades

\* OrderInfo.fill_funds: without trades only a completed market buy tells
\* what it spent.
FundsKnown(c, info) == info.trades \/ (c \in Buys /\ info.state = "done")

Init ==
  /\ exch      = [id \in Ids |-> "none"]
  /\ executed  = [id \in Ids |-> 0]
  /\ processed = {}
  /\ status    = [c \in ClientIds |-> "none"]
  /\ attempt   = [c \in ClientIds |-> 1]
  /\ uuid      = [c \in ClientIds |-> FALSE]
  /\ booked    = [c \in ClientIds |-> 0]
  /\ bookings  = [c \in ClientIds |-> 0]
  /\ submits   = [c \in ClientIds |-> 0]
  /\ early = {} /\ givenUp = {}
  /\ cid = NoClient /\ step = "idle" /\ tries = 0 /\ missing = 0 /\ seen = NoInfo

-----------------------------------------------------------------------------
(* How a call ends and how it moves on.                                    *)

\* Mutant of Return: the lock is not released.
ReturnLocked(c, result) ==
  /\ status' = [status EXCEPT ![c] = result]
  /\ step' = "idle" /\ tries' = 0 /\ missing' = 0 /\ seen' = NoInfo
  /\ UNCHANGED cid

Return(c, result) ==
  /\ status' = [status EXCEPT ![c] = result]
  /\ cid' = NoClient /\ step' = "idle" /\ tries' = 0 /\ missing' = 0
  /\ seen' = NoInfo

MoveTo(next) ==
  /\ step' = next /\ tries' = 0 /\ missing' = 0
  /\ UNCHANGED cid

\* Mutant of Watch: the client_id is not added to processed.
WatchUnguarded(c, info) ==
  /\ status' = [status EXCEPT ![c] = "SUBMITTED"]
  /\ uuid' = [uuid EXCEPT ![c] = TRUE]
  /\ seen' = info
  /\ MoveTo(IF IsFinal(info) THEN "trades" ELSE "poll")
  /\ UNCHANGED processed

\* Entering _wait_for_fill with an order the exchange has confirmed.
Watch(c, info) ==
  /\ status' = [status EXCEPT ![c] = "SUBMITTED"]
  /\ uuid' = [uuid EXCEPT ![c] = TRUE]
  /\ processed' = processed \cup {c}
  /\ seen' = info
  /\ MoveTo(IF IsFinal(info) THEN "trades" ELSE "poll")

-----------------------------------------------------------------------------
(* execute                                                                 *)

\* The client_id was processed before: a new Order is rejected as a
\* duplicate, the recorded one is left as it is.
RejectDuplicate(c) ==
  /\ step = "idle" /\ submits[c] < MaxSubmits /\ c \in processed
  /\ submits' = [submits EXCEPT ![c] = @ + 1]
  /\ UNCHANGED <<exchangeVars, callVars, processed, status, attempt, uuid,
                 booked, bookings, fateVars>>

BeginExecute(c) ==
  /\ step = "idle" /\ submits[c] < MaxSubmits /\ c \notin processed
  /\ submits' = [submits EXCEPT ![c] = @ + 1]
  /\ status'  = [status EXCEPT ![c] = "NEW"]
  /\ attempt' = [attempt EXCEPT ![c] = 1]
  /\ uuid'    = [uuid EXCEPT ![c] = FALSE]
  /\ cid' = c /\ step' = "prepare"
  /\ UNCHANGED <<exchangeVars, processed, booked, bookings, fateVars, tries, missing, seen>>

\* _price_guard and _build_params: a stale price, a refused chance lookup, an
\* amount below the minimum or an empty balance end the call before any order.
Prepare(c) ==
  /\ step = "prepare" /\ cid = c
  /\ \/ /\ MoveTo("create")
        /\ UNCHANGED <<status, seen>>
     \/ Return(c, "REJECTED")
  /\ UNCHANGED <<exchangeVars, processed, attempt, uuid, booked, bookings, submits, fateVars>>

CreateAccepted(c) ==
  /\ step = "create" /\ cid = c
  /\ exch[Identifier(c)] = "none"
  /\ exch' = [exch EXCEPT ![Identifier(c)] = "wait"]
  /\ Watch(c, [state |-> "wait", executed |-> 0, trades |-> FALSE])
  /\ UNCHANGED <<executed, attempt, booked, bookings, submits, fateVars>>

\* An API error that is not about the identifier.  The exchange does not take
\* the identifier of a failed order a second time.
CreateRefused(c) ==
  /\ step = "create" /\ cid = c
  /\ exch[Identifier(c)] = "none"
  /\ \E e \in {"none", "refused"}
              \cup (IF "server_error" \in Faults THEN {"wait"} ELSE {}) :
       exch' = [exch EXCEPT ![Identifier(c)] = e]
  /\ Return(c, "REJECTED")
  /\ UNCHANGED <<executed, processed, attempt, uuid, booked, bookings, submits, fateVars>>

\* duplicated_identifier: the next attempt, under the next suffix, if any.
CreateDuplicated(c) ==
  /\ step = "create" /\ cid = c
  /\ exch[Identifier(c)] # "none"
  /\ IF attempt[c] < MaxAttempts
     THEN /\ attempt' = [attempt EXCEPT ![c] = @ + 1]
          /\ UNCHANGED <<status, callVars>>
     ELSE /\ Return(c, "REJECTED")
          /\ UNCHANGED attempt
  /\ UNCHANGED <<exchangeVars, processed, uuid, booked, bookings, submits, fateVars>>

\* Mutant of CreateUnanswered: tries again under the next suffix at once.
CreateUnansweredRetries(c) ==
  /\ step = "create" /\ cid = c /\ attempt[c] < MaxAttempts
  /\ exch[Identifier(c)] = "none"
  /\ \E e \in {"none", "wait"} : exch' = [exch EXCEPT ![Identifier(c)] = e]
  /\ attempt' = [attempt EXCEPT ![c] = @ + 1]
  /\ UNCHANGED <<executed, processed, status, uuid, booked, bookings, submits, fateVars, callVars>>

\* UpbitNetworkError: whether the request was executed is not known.
CreateUnanswered(c) ==
  /\ step = "create" /\ cid = c
  /\ IF exch[Identifier(c)] = "none"
     THEN \E e \in {"none", "refused", "wait"}
                   \cup (IF "late_request" \in Faults THEN {"transit"} ELSE {}) :
            exch' = [exch EXCEPT ![Identifier(c)] = e]
     ELSE UNCHANGED exch
  /\ MoveTo("confirm")
  /\ UNCHANGED <<executed, processed, status, attempt, uuid, booked, bookings,
                 submits, fateVars, seen>>

\* UpbitResponseError: a 2xx body that does not parse.  Neither except clause
\* catches it, so the exception leaves execute and the Order is dropped.
CreateGarbled(c) ==
  /\ "garbled" \in Faults
  /\ step = "create" /\ cid = c
  /\ exch[Identifier(c)] = "none"
  /\ exch' = [exch EXCEPT ![Identifier(c)] = "wait"]
  /\ Return(c, status[c])
  /\ UNCHANGED <<executed, processed, attempt, uuid, booked, bookings, submits, fateVars>>

-----------------------------------------------------------------------------
(* _confirm_by_identifier                                                  *)

LookupFinds(c) ==
  /\ step = "confirm" /\ cid = c
  /\ exch[Identifier(c)] \in InBook
  /\ \E info \in Reading(Identifier(c)) : Watch(c, info)
  /\ UNCHANGED <<exchangeVars, attempt, booked, bookings, submits, fateVars>>

\* Mutant of LookupEmpty: a failed lookup counts as a missing order.
LookupEmptyRejects(c, absent) ==
  /\ step = "confirm" /\ cid = c
  /\ IF tries + 1 < LookupAttempts
     THEN tries' = tries + 1 /\ UNCHANGED <<cid, step, missing, seen, status>>
     ELSE Return(c, "REJECTED")
  /\ UNCHANGED <<exchangeVars, processed, attempt, uuid, booked, bookings, submits, fateVars>>

\* One more lookup without an order; after the last one the call is decided.
LookupEmpty(c, absent) ==
  LET count == missing + (IF absent THEN 1 ELSE 0)
  IN  /\ step = "confirm" /\ cid = c
      /\ IF tries + 1 < LookupAttempts
         THEN /\ tries' = tries + 1
              /\ missing' = count
              /\ UNCHANGED <<cid, step, seen, status, processed>>
         ELSE IF count = LookupAttempts
         THEN /\ Return(c, "REJECTED")
              /\ UNCHANGED processed
         ELSE /\ Return(c, "UNKNOWN")
              /\ processed' = processed \cup {c}
      /\ UNCHANGED <<exchangeVars, attempt, uuid, booked, bookings, submits, fateVars>>

\* Mutant of LookupFails: takes the order for never made and makes it again.
LookupFailsRetries(c) ==
  /\ step = "confirm" /\ cid = c /\ attempt[c] < MaxAttempts
  /\ attempt' = [attempt EXCEPT ![c] = @ + 1]
  /\ MoveTo("create")
  /\ UNCHANGED <<exchangeVars, processed, status, uuid, booked, bookings, submits, fateVars, seen>>

LookupMissing(c) == exch[Identifier(c)] \notin InBook /\ LookupEmpty(c, TRUE)
LookupFails(c)   == LookupEmpty(c, FALSE)

-----------------------------------------------------------------------------
(* _wait_for_fill                                                          *)

Poll(c) ==
  /\ step = "poll" /\ cid = c /\ tries < MaxPolls
  /\ \E info \in Reading(Identifier(c)) :
       /\ seen' = info
       /\ IF IsFinal(info) THEN MoveTo("trades")
          ELSE tries' = tries + 1 /\ UNCHANGED <<cid, step, missing>>
  /\ UNCHANGED <<exchangeVars, orderVars>>

\* What an attempt to cancel does to an order.  The exchange may cancel it, may
\* have taken the cancel without carrying it out yet, or may refuse it (too many
\* requests, an error of its own): a DELETE is not repeated.
TryCancel(id) ==
  exch' \in {exch} \cup (IF exch[id] = "wait" THEN {[exch EXCEPT ![id] = "cancel"]} ELSE {})

\* Mutant of CancelUnfilled: the order passes for cancelled without being read.
CancelUnfilledUnread(c) ==
  /\ step = "poll" /\ cid = c /\ tries = MaxPolls
  /\ TryCancel(Identifier(c))
  /\ MoveTo("trades")
  /\ seen' = [seen EXCEPT !.state = "cancel"]
  /\ UNCHANGED <<executed, orderVars>>

\* The order is still open after fill_timeout.  An API error of the cancel is
\* logged and ignored (it may have been filled meanwhile).
CancelUnfilled(c) ==
  /\ step = "poll" /\ cid = c /\ tries = MaxPolls
  /\ TryCancel(Identifier(c))
  /\ MoveTo("final")
  /\ UNCHANGED <<executed, orderVars, seen>>

ReadAfterCancel(c) ==
  /\ step = "final" /\ cid = c
  /\ seen' \in Reading(Identifier(c))
  /\ MoveTo("trades")
  /\ UNCHANGED <<exchangeVars, orderVars>>

\* Mutant of WatchFails: the error leaves execute.
WatchFailsLoudly(c) ==
  /\ step \in {"poll", "final"} /\ cid = c
  /\ Return(c, status[c])
  /\ UNCHANGED <<exchangeVars, processed, attempt, uuid, booked, bookings, submits, fateVars>>

\* UpbitError from a poll, from the cancel or from the last read: the order is
\* on the exchange, so it stays UNKNOWN.
WatchFails(c) ==
  /\ step \in {"poll", "final"} /\ cid = c
  /\ \/ UNCHANGED exch
     \/ step = "poll" /\ tries = MaxPolls /\ TryCancel(Identifier(c))
  /\ Return(c, "UNKNOWN")
  /\ UNCHANGED <<executed, processed, attempt, uuid, booked, bookings, submits, fateVars>>

\* _refresh_trades: a failed read ends the loop.
RefreshTrades(c) ==
  /\ step = "trades" /\ cid = c
  /\ NeedsTrades(seen) /\ tries < TradesLookups
  /\ \/ seen' \in Reading(Identifier(c)) /\ tries' = tries + 1
     \/ tries' = TradesLookups /\ UNCHANGED seen
  /\ UNCHANGED <<exchangeVars, orderVars, cid, step, missing>>

-----------------------------------------------------------------------------
(* _apply_fill: the verdict on the information gathered.                   *)

ReadyToApply(c) ==
  /\ step = "trades" /\ cid = c
  /\ NeedsTrades(seen) => tries = TradesLookups

\* The reading a verdict rests on is not asked whether it is final.
Settling(c) ==
  /\ early' = IF IsFinal(seen) THEN early ELSE early \cup {c}
  /\ UNCHANGED givenUp

ApplyNothing(c) ==
  /\ ReadyToApply(c) /\ seen.executed = 0
  /\ Settling(c)
  /\ Return(c, IF seen.state = "cancel" THEN "CANCELLED" ELSE "REJECTED")
  /\ UNCHANGED <<exchangeVars, processed, attempt, uuid, booked, bookings, submits>>

ApplyUnpriced(c) ==
  /\ ReadyToApply(c) /\ seen.executed > 0 /\ ~FundsKnown(c, seen)
  /\ Return(c, "UNKNOWN")
  /\ UNCHANGED <<exchangeVars, processed, attempt, uuid, booked, bookings, submits, fateVars>>

ApplyFill(c) ==
  /\ ReadyToApply(c) /\ seen.executed > 0 /\ FundsKnown(c, seen)
  /\ booked'   = [booked EXCEPT ![c] = @ + seen.executed]
  /\ bookings' = [bookings EXCEPT ![c] = @ + 1]
  /\ Settling(c)
  /\ Return(c, IF seen.state = "cancel" THEN "PARTIAL" ELSE "FILLED")
  /\ UNCHANGED <<exchangeVars, processed, attempt, uuid, submits>>

\* PortfolioError of a sale: executed on the exchange, not applied here.
ApplyImpossible(c) ==
  /\ "position_gone" \in Faults /\ c \notin Buys
  /\ ReadyToApply(c) /\ seen.executed > 0 /\ FundsKnown(c, seen)
  /\ Settling(c)
  /\ Return(c, "REJECTED")
  /\ UNCHANGED <<exchangeVars, processed, attempt, uuid, booked, bookings, submits>>

-----------------------------------------------------------------------------
(* resolve_order: what the engine calls for an UNKNOWN order.              *)

\* Mutant of BeginResolve: an order that is settled is resolved once more.
BeginResolveAgain(c) ==
  /\ step = "idle" /\ status[c] \in {"UNKNOWN", "FILLED", "PARTIAL"} /\ c \notin givenUp
  /\ cid' = c /\ step' = "query"
  /\ UNCHANGED <<exchangeVars, orderVars, tries, missing, seen>>

BeginResolve(c) ==
  /\ step = "idle" /\ status[c] = "UNKNOWN" /\ c \notin givenUp
  /\ cid' = c /\ step' = "query"
  /\ UNCHANGED <<exchangeVars, orderVars, tries, missing, seen>>

\* The lookup failed: None, the order stays UNKNOWN.
ResolveFails(c) ==
  /\ step = "query" /\ cid = c
  /\ Return(c, "UNKNOWN")
  /\ UNCHANGED <<exchangeVars, processed, attempt, uuid, booked, bookings, submits, fateVars>>

\* Mutant of ResolveMissing: a missing order is looked for again for ever.
ResolveMissingWaits(c) ==
  /\ step = "query" /\ cid = c
  /\ ~uuid[c] /\ exch[Identifier(c)] \notin InBook
  /\ Return(c, "UNKNOWN")
  /\ UNCHANGED <<exchangeVars, processed, attempt, uuid, booked, bookings, submits, fateVars>>

\* 404 for the identifier: the order was never made.
ResolveMissing(c) ==
  /\ step = "query" /\ cid = c
  /\ ~uuid[c] /\ exch[Identifier(c)] \notin InBook
  /\ Return(c, "REJECTED")
  /\ UNCHANGED <<exchangeVars, processed, attempt, uuid, booked, bookings, submits, fateVars>>

\* Still open: None, after a cancel whose failure is ignored once fill_timeout
\* has passed.
ResolveOpen(c) ==
  /\ step = "query" /\ cid = c
  /\ exch[Identifier(c)] = "wait"
  /\ uuid' = [uuid EXCEPT ![c] = TRUE]
  /\ TryCancel(Identifier(c))
  /\ Return(c, "UNKNOWN")
  /\ UNCHANGED <<executed, processed, attempt, booked, bookings, submits, fateVars>>

ResolveFinal(c) ==
  /\ step = "query" /\ cid = c
  /\ exch[Identifier(c)] \in {"done", "cancel"}
  /\ uuid' = [uuid EXCEPT ![c] = TRUE]
  /\ seen' \in Reading(Identifier(c))
  /\ MoveTo("trades")
  /\ UNCHANGED <<exchangeVars, processed, status, attempt, booked, bookings, submits, fateVars>>

\* The engine's part: an order still UNKNOWN at pending_max_age is resolved no
\* more and stays UNKNOWN; reconcile has to mend the books (LiveTrading).
GiveUp(c) ==
  /\ status[c] = "UNKNOWN" /\ cid # c /\ c \notin givenUp
  /\ givenUp' = givenUp \cup {c}
  /\ UNCHANGED <<exchangeVars, processed, status, attempt, uuid, booked, bookings,
                 submits, early, callVars>>

-----------------------------------------------------------------------------
(* The exchange on its own.                                                *)

Arrive(id) ==
  /\ exch[id] = "transit"
  /\ \E e \in {"wait", "refused"} : exch' = [exch EXCEPT ![id] = e]
  /\ UNCHANGED <<executed, orderVars, callVars>>

Match(id) ==
  /\ exch[id] = "wait" /\ executed[id] < Size
  /\ executed' = [executed EXCEPT ![id] = @ + 1]
  /\ exch' = [exch EXCEPT ![id] = IF executed[id] + 1 = Size THEN "done" ELSE "wait"]
  /\ UNCHANGED <<orderVars, callVars>>

\* A market order that cannot be filled further is cancelled by the exchange.
StopShort(id) ==
  /\ exch[id] = "wait"
  /\ exch' = [exch EXCEPT ![id] = "cancel"]
  /\ UNCHANGED <<executed, orderVars, callVars>>

-----------------------------------------------------------------------------
CreateStep(c) ==
  \/ CreateAccepted(c) \/ CreateRefused(c) \/ CreateDuplicated(c)
  \/ CreateUnanswered(c) \/ CreateGarbled(c)
LookupStep(c) == LookupFinds(c) \/ LookupMissing(c) \/ LookupFails(c)
WatchStep(c) ==
  Poll(c) \/ CancelUnfilled(c) \/ ReadAfterCancel(c) \/ WatchFails(c) \/ RefreshTrades(c)
ApplyStep(c) ==
  ApplyNothing(c) \/ ApplyUnpriced(c) \/ ApplyFill(c) \/ ApplyImpossible(c)
ResolveStep(c) ==
  ResolveFails(c) \/ ResolveMissing(c) \/ ResolveOpen(c) \/ ResolveFinal(c)

\* The rest of a call that has begun.
CallStep(c) ==
  Prepare(c) \/ CreateStep(c) \/ LookupStep(c) \/ WatchStep(c) \/ ApplyStep(c) \/ ResolveStep(c)

ExchangeStep(id) == Arrive(id) \/ Match(id) \/ StopShort(id)

Next ==
  \/ \E c \in ClientIds :
       RejectDuplicate(c) \/ BeginExecute(c) \/ BeginResolve(c) \/ GiveUp(c) \/ CallStep(c)
  \/ \E id \in Ids : ExchangeStep(id)

Spec == Init /\ [][Next]_vars

\* A call that has begun goes on: every await ends, with an answer or with a
\* timeout.  The engine resolves what is UNKNOWN again and again (its loop wakes
\* at least every command_poll_interval), as long as it has not given it up;
\* nothing says that it gives up.  Lookups that are repeated do not all fail and
\* do not all withhold the trades.  A market order does not stay open for ever,
\* and a request does not travel for ever.
Fairness ==
  /\ \A c \in ClientIds :
       /\ WF_vars(CallStep(c))
       /\ SF_vars(BeginResolve(c))
       /\ SF_vars(ResolveMissing(c))
       /\ SF_vars(ResolveFinal(c))
       /\ SF_vars(RefreshTrades(c) /\ seen'.trades)
       /\ SF_vars(ApplyFill(c))
  /\ \A id \in Ids : WF_vars(ExchangeStep(id))

FairSpec == Spec /\ Fairness

-----------------------------------------------------------------------------
(* Properties.                                                             *)

ExchangeTypeOK ==
  /\ exch     \in [Ids -> Entries]
  /\ executed \in [Ids -> 0..Size]

OrderTypeOK ==
  /\ processed \in SUBSET ClientIds
  /\ status    \in [ClientIds -> Statuses]
  /\ attempt   \in [ClientIds -> 1..MaxAttempts]
  /\ uuid      \in [ClientIds -> BOOLEAN]
  /\ booked    \in [ClientIds -> Nat]
  /\ bookings  \in [ClientIds -> Nat]
  /\ submits   \in [ClientIds -> 0..MaxSubmits]
  /\ early \subseteq ClientIds /\ givenUp \subseteq ClientIds

\* The lock is held exactly while a call is under way.
CallTypeOK ==
  /\ cid     \in ClientIds \cup {NoClient}
  /\ step    \in Steps
  /\ (cid = NoClient) <=> (step = "idle")
  /\ tries   \in Nat
  /\ missing \in Nat
  /\ seen    \in Infos

TypeOK == ExchangeTypeOK /\ OrderTypeOK /\ CallTypeOK

\* The exchange has made, or is about to make, an order under this identifier.
Placed(id) == exch[id] \in {"transit", "wait", "done", "cancel"}

\* One client_id never has two orders on the exchange, whatever is lost,
\* refused, looked up and submitted again (live_broker.py, head comment 3/4
\* and the comment on CRITICAL-1).
AtMostOneOrder ==
  \A c \in ClientIds : \A a, b \in 1..MaxAttempts :
    Placed(<<c, a>>) /\ Placed(<<c, b>>) => a = b

\* Once the exchange has the order, the client_id is closed to execute: either
\* it is in processed or the very call that placed the order is still deciding.
PlacedIsGuarded ==
  \A c \in ClientIds : \A a \in 1..MaxAttempts :
    Placed(<<c, a>>) => c \in processed \/ (cid = c /\ step = "confirm")

\* An order the exchange has can be found from the Order: the identifier kept
\* for the later resolve is the one the order was placed under.
OrderKeepsItsHandle ==
  \A c \in ClientIds : \A a \in 1..MaxAttempts :
    Placed(<<c, a>>) => a = attempt[c]

\* A fill reaches the portfolio at most once per client_id, although execute,
\* and any number of resolves after it, may each find it.
BookedOnce == \A c \in ClientIds : bookings[c] <= 1

\* The exchange has no order of c that is still to be decided.
ExchangeIsDone(c) == \A a \in 1..MaxAttempts : exch[<<c, a>>] \notin {"transit", "wait"}

\* A verdict that settles an Order can be relied on as far as the reading it rests
\* on: nothing is booked that was not executed; if that reading was final, the
\* exchange is done with the order and everything executed is booked.  Only
\* execute's REJECTED and FILLED may rest on a reading that was still open, after
\* a cancel that failed or was slow; CANCELLED and PARTIAL never do.
SettledIsTrue ==
  \A c \in ClientIds : status[c] \in Settled =>
    /\ booked[c] <= executed[Identifier(c)]
    /\ c \notin early => ExchangeIsDone(c) /\ booked[c] = executed[Identifier(c)]
    /\ c \in early => status[c] \in {"REJECTED", "FILLED"}

\* What the head of live_broker.py says: after the cancel the final state is read,
\* so a settled order is over.  It does not hold.
SettledIsFinal ==
  \A c \in ClientIds : status[c] \in Settled => ExchangeIsDone(c)

\* An order the exchange has is never without an Order that says so: it is
\* under way, UNKNOWN or settled, never dropped (orders.py, UNKNOWN).
PlacedIsOnRecord ==
  \A c \in ClientIds : \A a \in 1..MaxAttempts :
    Placed(<<c, a>>) /\ step = "idle" => status[c] \in Settled \cup {"UNKNOWN"}

\* What the engine is promised (OrderPromise), read off the state above.
PlacedAs(c) ==
  LET entries == {exch[<<c, a>>] : a \in 1..MaxAttempts}
  IN  IF entries \cap {"wait", "transit"} # {} THEN "live"
      ELSE IF entries \cap {"done", "cancel"} # {} THEN "closed" ELSE "absent"

ToldAs(c) ==
  CASE status[c] = "none"                      -> "nothing"
    [] status[c] \in {"NEW", "SUBMITTED"}      -> "asked"
    [] status[c] = "UNKNOWN"                   -> "unknown"
    [] status[c] \in Settled /\ c \in early    -> "early"
    [] status[c] \in {"FILLED", "PARTIAL"} /\ c \notin early     -> "filled"
    [] status[c] \in {"REJECTED", "CANCELLED"} /\ c \notin early -> "rejected"

Promise == INSTANCE OrderPromise WITH
  Requests <- ClientIds,
  placed   <- [c \in ClientIds |-> PlacedAs(c)],
  told     <- [c \in ClientIds |-> ToldAs(c)]

\* execute and resolve_order keep the promise: every step is a step of it or
\* does not concern it.
KeepsPromise == Promise!Spec

\* An order left UNKNOWN is settled in the end, unless the engine gives it up.
UnknownIsResolved ==
  \A c \in ClientIds : status[c] = "UNKNOWN" ~> status[c] \in Settled \/ c \in givenUp

=============================================================================
