------------------------------ MODULE RiskDay ------------------------------
(***************************************************************************)
(* app/risk/manager.py with app/risk/state_store.py: the state of the      *)
(* trading day that closes the account to new positions (daily loss,       *)
(* consecutive losses, emergency halt), the copy of it in the database,    *)
(* and how TradingEngine.run brings it back after a restart.               *)
(*                                                                         *)
(* RiskManager has no await: each of its methods is one step.  What comes  *)
(* between them is the engine: "main" and "price" hold on to the `now`     *)
(* they woke with while they wait for the exchange, the process may end    *)
(* between any two steps, and the dashboard records cash flows on its own. *)
(* Amounts count in units; the reasons of a lock, cooldowns, peaks and     *)
(* sizes are left out.                                                     *)
(***************************************************************************)
EXTENDS Integers, Sequences, FiniteSets

CONSTANTS
  Equities,       \* what the account may be worth
  DailyLossPct,   \* daily_loss_limit_pct
  MaxLosses,      \* max_consecutive_losses
  MaxDays,        \* bound: days
  MaxTrips,       \* bound: sales
  MaxFlows,       \* bound: cash flows the dashboard records, one unit each
  MaxCrashes,     \* bound: ends of the process
  Faults          \* which of FaultKinds the environment shows

\* stale_now    midnight may pass while a task holds on to its `now`
\* late_sale    an UNKNOWN sale may turn out to be filled during the restart
\*              that finds a halt or a lock of the same day in the database;
\*              without it, only a sale of an earlier, unhalted day does
\* torn_replay  the process may end while rebuild replays today's trades
\* no_price     the account's equity may be unknown at startup
FaultKinds == {"stale_now", "late_sale", "torn_replay", "no_price"}

ASSUME ConstantsAssumption ==
  /\ Equities \subseteq Nat \ {0} /\ Equities # {}
  /\ DailyLossPct \in 1..100
  /\ {MaxLosses, MaxDays} \subseteq Nat \ {0}
  /\ {MaxTrips, MaxFlows, MaxCrashes} \subseteq Nat
  /\ Faults \subseteq FaultKinds

VARIABLES
  today,    \* external: the KST date
  flows,    \* database: cash flows recorded
  trips,    \* database: the round trips, oldest first
  phase,    \* how far the process has come
  state,    \* RiskManager.state
  store,    \* database: the saved copy of it
  held,     \* the date of the `now` a task holds on to; 0 without one
  entering, \* main waits for the order of an entry it was allowed
  replay,   \* rebuild: the places of the trips still to be replayed
  kept,     \* rebuild: the lock to put back
  halting,  \* history: a halt was ordered and not lifted
  closed,   \* history: the days that were locked
  began,    \* history: the equity a day began with
  counted,  \* history: the days a cash flow was counted on
  crashes   \* bound: ends of the process so far

history  == <<halting, closed, began, counted>>
taskVars == <<held, entering>>
vars == <<today, flows, trips, phase, state, store, taskVars, replay, kept, history, crashes>>

Tasks == {"main", "price"}
Days  == 1..MaxDays
Locks == {"none", "daily", "consecutive"}

\* None is 0 for a date and an amount, -1 for the cursor.
Fresh == [day |-> 0, base |-> 0, last |-> 0, losses |-> 0, lock |-> "none",
          halted |-> FALSE, flow |-> 0, cursor |-> -1]

Init ==
  /\ today = 1 /\ flows = 0 /\ trips = <<>>
  /\ phase = "down" /\ state = Fresh /\ store = Fresh
  /\ held = [t \in Tasks |-> 0] /\ entering = FALSE /\ replay = {} /\ kept = "none"
  /\ halting = FALSE /\ closed = {} /\ began = [d \in Days |-> 0]
  /\ counted = [i \in 1..MaxFlows |-> {}]
  /\ crashes = 0

-----------------------------------------------------------------------------
(* The methods of RiskManager, as operators on its state s.                *)

\* start_day_if_needed: counters and locks of another day are dropped.
StartDay(s, day, equity) ==
  IF s.day = day THEN s
  ELSE [s EXCEPT !.day = day, !.base = equity, !.losses = 0, !.lock = "none", !.flow = 0]

\* daily_base_equity and the check of update_equity.
OverLimit(s, equity) ==
  /\ s.base # 0 /\ s.lock = "none"
  /\ (s.base + s.flow - equity) * 100 >= DailyLossPct * (s.base + s.flow)

\* update_equity: what it leaves in memory ...
Marked(s, equity, day) ==
  LET d == StartDay(s, day, equity)
      m == [d EXCEPT !.base = IF @ = 0 THEN equity ELSE @, !.last = equity]
  IN  IF OverLimit(m, equity) THEN [m EXCEPT !.lock = "daily"] ELSE m

\* ... and in the database: a new day and a new lock are saved, the rest is not.
MarkedStore(s, equity, day) ==
  IF Marked(s, equity, day).lock # StartDay(s, day, equity).lock THEN Marked(s, equity, day)
  ELSE IF s.day # day THEN StartDay(s, day, equity) ELSE store

\* record_trade
Traded(s, lost, day) ==
  LET d == StartDay(s, day, s.last)
      m == [d EXCEPT !.losses = IF lost THEN @ + 1 ELSE 0]
  IN  IF m.losses >= MaxLosses /\ m.lock = "none"
      THEN [m EXCEPT !.lock = "consecutive"] ELSE m

Blocked(s) == s.halted \/ s.lock # "none"

-----------------------------------------------------------------------------
(* Keeping the history.                                                    *)

\* The state becomes s.
Become(s) ==
  /\ state' = s
  /\ closed' = IF s.lock # "none" THEN closed \cup {s.day} ELSE closed
  /\ began' = IF s.base # 0 /\ began[s.day] = 0 THEN [began EXCEPT ![s.day] = s.base] ELSE began

-----------------------------------------------------------------------------
(* The engine at work.                                                     *)

\* check_exits of the price task; it may go on to a sale with its `now`.
Tick(equity) ==
  /\ phase = "run" /\ held["price"] = 0
  /\ Become(Marked(state, equity, today))
  /\ store' = MarkedStore(state, equity, today)
  /\ held' \in {held, [held EXCEPT !["price"] = today]}
  /\ UNCHANGED <<entering, today, flows, trips, phase, replay, kept, halting, counted, crashes>>

\* apply_cash_flows: without a cursor the recorded flows are part of the
\* equity already; otherwise every later one is counted.
CashFlows(s, day) ==
  IF s.cursor = -1 THEN [s EXCEPT !.cursor = flows]
  ELSE IF s.cursor = flows THEN s
  ELSE LET d == StartDay(s, day, s.last)
       IN  [d EXCEPT !.flow = @ + flows - s.cursor, !.cursor = flows]

\* History: the flows that CashFlows adds to s are counted on this day.
CountedFrom(s) ==
  [i \in 1..MaxFlows |-> IF s.cursor # -1 /\ i \in (s.cursor + 1)..flows
                          THEN counted[i] \cup {today} ELSE counted[i]]

\* run wakes: `now` is taken and the cash flows are applied.
Wake ==
  /\ phase = "run" /\ held["main"] = 0
  /\ held' = [held EXCEPT !["main"] = today]
  /\ Become(CashFlows(state, today))
  /\ store' = IF state' = state THEN store ELSE state'
  /\ counted' = CountedFrom(state)
  /\ UNCHANGED <<entering, today, flows, trips, phase, replay, kept, halting, crashes>>

\* The main task is in a round and waits for nothing.
MainAtWork == phase = "run" /\ held["main"] # 0 /\ ~entering

Sleep ==
  /\ MainAtWork
  /\ held' = [held EXCEPT !["main"] = 0]
  /\ UNCHANGED <<entering, today, flows, trips, phase, state, store, replay, kept, history, crashes>>

\* check_exits of the main task.
MainMarks(equity) ==
  /\ MainAtWork
  /\ Become(Marked(state, equity, held["main"]))
  /\ store' = MarkedStore(state, equity, held["main"])
  /\ UNCHANGED <<today, flows, trips, phase, taskVars, replay, kept, halting, counted, crashes>>

\* evaluate of a BUY signal; a SELL signal, and a BUY signal refused for want of
\* room or money, differ only in what is answered.
Evaluate(equity) ==
  LET s == StartDay(state, held["main"], equity)
  IN  /\ MainAtWork
      /\ Become(s)
      /\ store' = IF state.day # held["main"] THEN s ELSE store
      /\ UNCHANGED <<held, today, flows, trips, phase, replay, kept, halting, counted, crashes>>

EnterPosition(equity) ==
  /\ Evaluate(equity) /\ ~Blocked(state')
  /\ entering' = TRUE

RefuseEntry(equity) == Evaluate(equity) /\ UNCHANGED entering

\* The order of the entry is settled.
EntryEnds ==
  /\ entering
  /\ entering' = FALSE
  /\ UNCHANGED <<held, today, flows, trips, phase, state, store, replay, kept, history, crashes>>

\* A sale comes back: record_fill and then record_trade, dated by the `now`
\* the task has held on to.
Sell(t, lost) ==
  /\ phase = "run" /\ held[t] # 0 /\ Len(trips) < MaxTrips
  /\ t = "main" => MainAtWork
  /\ trips' = Append(trips, [day |-> held[t], lost |-> lost])
  /\ Become(Traded(state, lost, held[t]))
  /\ store' = state'
  /\ held' = [held EXCEPT ![t] = IF t = "price" THEN 0 ELSE @]
  /\ UNCHANGED <<entering, today, flows, phase, replay, kept, halting, counted, crashes>>

\* The commands halt and resume_risk.
Halt ==
  /\ phase = "run" /\ ~entering /\ ~halting
  /\ Become([state EXCEPT !.halted = TRUE])
  /\ store' = state'
  /\ halting' = TRUE
  /\ UNCHANGED <<today, flows, trips, phase, taskVars, replay, kept, counted, crashes>>

Resume ==
  /\ phase = "run" /\ ~entering /\ halting
  /\ Become([state EXCEPT !.halted = FALSE])
  /\ store' = state'
  /\ halting' = FALSE
  /\ UNCHANGED <<today, flows, trips, phase, taskVars, replay, kept, counted, crashes>>

-----------------------------------------------------------------------------
(* Startup: resolve_pending_orders, then rebuild_risk_state.               *)

Start ==
  /\ phase = "down"
  /\ phase' = "starting"
  /\ UNCHANGED <<today, flows, trips, state, store, taskVars, replay, kept, history, crashes>>

\* A sale left UNKNOWN by the last run is recorded before rebuild has loaded
\* the saved state.
SellAtStart(lost) ==
  /\ phase = "starting" /\ Len(trips) < MaxTrips /\ store.day # 0
  /\ "late_sale" \in Faults \/ (store.day < today /\ ~store.halted)
  /\ trips' = Append(trips, [day |-> today, lost |-> lost])
  /\ Become(Traded(state, lost, today))
  /\ store' = state'
  /\ UNCHANGED <<today, flows, phase, taskVars, replay, kept, halting, counted, crashes>>

\* A mutant of Restored: the halt is part of the day.
RestoredUnhalted(equity) ==
  [Fresh EXCEPT !.day = today, !.base = equity, !.halted = store.day = today /\ store.halted]

\* A mutant of Restored: the losses are taken over and replayed as well.
RestoredTwice(equity) ==
  [Fresh EXCEPT !.day = today, !.base = equity, !.halted = store.halted,
                !.losses = IF store.day = today THEN store.losses ELSE 0]

\* A mutant of Restored: the day begins with the equity of the restart.
RestoredAfresh(equity) ==
  [Fresh EXCEPT !.day = today, !.base = equity, !.halted = store.halted]

\* A mutant of Restored: the flow of the day is kept and the cursor is not.
RestoredWithoutCursor(equity) ==
  [Fresh EXCEPT !.day = today, !.base = equity, !.halted = store.halted, !.cursor = 0,
                !.flow = IF store.day = today THEN store.flow ELSE 0]

\* rebuild: what the saved state of today still says.
Restored(equity) ==
  LET same == store.day = today
  IN  [Fresh EXCEPT
         !.day    = today,
         !.base   = IF same /\ store.base # 0 THEN store.base ELSE equity,
         !.halted = store.halted,
         !.flow   = IF same THEN store.flow ELSE 0,
         !.cursor = IF same THEN store.cursor ELSE -1]

BeginRebuild(equity) ==
  /\ phase = "starting"
  /\ phase' = "rebuild"
  /\ Become(Restored(equity))
  /\ kept' = IF store.day = today /\ store.lock = "daily" THEN "daily" ELSE "none"
  /\ replay' = {i \in DOMAIN trips : trips[i].day = today}
  /\ UNCHANGED <<today, flows, trips, store, taskVars, halting, counted, crashes>>

ReplayTrip ==
  /\ phase = "rebuild"
  /\ \E i \in replay :
       /\ \A k \in replay : i <= k
       /\ Become(Traded(state, trips[i].lost, today))
       /\ replay' = replay \ {i}
  /\ store' = state'
  /\ UNCHANGED <<today, flows, trips, phase, taskVars, kept, halting, counted, crashes>>

\* Before a task can run: rebuild is over and the cash flows are applied.
Restarted(s) ==
  /\ phase = "rebuild" /\ replay = {}
  /\ phase' = "run"
  /\ Become(CashFlows(s, today))
  /\ store' = state'
  /\ kept' = "none"
  /\ counted' = CountedFrom(s)
  /\ UNCHANGED <<today, flows, trips, taskVars, replay, halting, crashes>>

\* A mutant of FinishRebuild: the daily lock is not put back.
FinishRebuildUnlocked(equity) == Restarted([state EXCEPT !.last = equity])

FinishRebuild(equity) ==
  Restarted([state EXCEPT !.lock = IF @ = "none" THEN kept ELSE @, !.last = equity])

\* The process ends.
Crash ==
  /\ phase # "down" /\ crashes < MaxCrashes
  /\ phase = "rebuild" => "torn_replay" \in Faults
  /\ crashes' = crashes + 1
  /\ phase' = "down"
  /\ state' = Fresh
  /\ held' = [t \in Tasks |-> 0] /\ entering' = FALSE /\ replay' = {} /\ kept' = "none"
  /\ UNCHANGED <<today, flows, trips, store, history>>

-----------------------------------------------------------------------------
(* The clock and the dashboard.                                            *)

\* rebuild is over within the second.
Midnight ==
  /\ today < MaxDays /\ phase # "rebuild"
  /\ "stale_now" \in Faults \/ \A t \in Tasks : held[t] = 0
  /\ today' = today + 1
  /\ UNCHANGED <<flows, trips, phase, state, store, taskVars, replay, kept, history, crashes>>

RecordFlow ==
  /\ flows < MaxFlows
  /\ flows' = flows + 1
  /\ UNCHANGED <<today, trips, phase, state, store, taskVars, replay, kept, history, crashes>>

-----------------------------------------------------------------------------
KnownOrNot == Equities \cup (IF "no_price" \in Faults THEN {0} ELSE {})

Work ==
  \/ \E e \in Equities : Tick(e) \/ MainMarks(e) \/ EnterPosition(e) \/ RefuseEntry(e)
  \/ \E t \in Tasks, lost \in BOOLEAN : Sell(t, lost)
  \/ Wake \/ Sleep \/ EntryEnds \/ Halt \/ Resume

Startup ==
  \/ Start \/ \E lost \in BOOLEAN : SellAtStart(lost)
  \/ \E e \in KnownOrNot : BeginRebuild(e) \/ FinishRebuild(e)
  \/ ReplayTrip

Next == Work \/ Startup \/ Crash \/ Midnight \/ RecordFlow

Spec == Init /\ [][Next]_vars

-----------------------------------------------------------------------------
(* Properties.                                                             *)

States == [day : 0..MaxDays, base : Nat, last : Nat, losses : Nat, lock : Locks,
           halted : BOOLEAN, flow : Nat, cursor : -1..MaxFlows]

TypeOK ==
  /\ today \in Days /\ flows \in 0..MaxFlows /\ crashes \in 0..MaxCrashes
  /\ trips \in Seq([day : Days, lost : BOOLEAN])
  /\ phase \in {"down", "starting", "rebuild", "run"}
  /\ state \in States /\ store \in States
  /\ held \in [Tasks -> 0..MaxDays] /\ entering \in BOOLEAN
  /\ replay \subseteq DOMAIN trips /\ (replay # {} => phase = "rebuild")
  /\ kept \in Locks
  /\ halting \in BOOLEAN /\ closed \subseteq Days
  /\ began \in [Days -> Nat] /\ counted \in [1..MaxFlows -> SUBSET Days]

\* A halt stays in force until it is lifted, over midnight and over restarts
\* (manager.py, rebuild).
HaltStays == phase = "run" /\ halting => state.halted

\* A day that was locked once lets no position in any more, whatever is sold,
\* measured, restarted or replayed after it.
NoEntryWhenClosed ==
  [][~entering /\ entering' => today \notin closed /\ ~halting]_vars

\* Of the trips of a day, those that lost since the last one that did not.
Trailing(day) ==
  LET mine == {i \in DOMAIN trips : trips[i].day = day}
  IN  Cardinality({i \in mine : \A k \in mine : i <= k => trips[k].lost})

\* The losses counted in memory are those the database has, so a restart
\* neither forgets one nor counts one twice.
LossesMatchTrips == phase = "run" => state.losses = Trailing(state.day)

\* The daily loss is measured against the equity the day began with, not
\* against that of a restart in the middle of it (state_store.py).
DayStartKept == phase = "run" /\ state.base # 0 => state.base = began[state.day]

\* A cash flow moves the base of the day once, however often the engine is
\* restarted around it.
FlowsCountedOnce ==
  /\ phase = "run" =>
       state.flow = Cardinality({i \in 1..MaxFlows : state.day \in counted[i]})
  /\ \A i \in 1..MaxFlows : Cardinality(counted[i]) <= 1

=============================================================================
