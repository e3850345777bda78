------------------------------ MODULE LiveGuard ------------------------------
(* How an engine comes to trade real money (app/trading/live_guard.py and its *)
(* callers).  Two switches stand in the .env file, TRADING_MODE and           *)
(* LIVE_TRADING_ENABLED; a phrase has to be typed for every start.  The file  *)
(* may be edited at any time: the dashboard read it when it was started, an   *)
(* engine process reads it for itself, once (get_settings is cached), with    *)
(* the environment of a dashboard's child winning over the file.              *)

CONSTANT Processes   \* engine processes

LIVE_CONFIRM_PHRASE == "REAL-MONEY"
Phrases == {LIVE_CONFIRM_PHRASE, "something else", ""}

Modes == {"BACKTEST", "PAPER", "LIVE"}
Settings == [mode : Modes, enabled : BOOLEAN, keys : BOOLEAN]

VARIABLES
  file,        \* the .env file
  dashboard,   \* the settings the dashboard read
  stage,       \* of a process: "none", "launched", "reading", "guarded", "running", "over"
  override,    \* TRADING_MODE in its environment, or "file"
  argument,    \* --confirm-live
  settings,    \* the settings it read
  broker,      \* "paper" or "live"
  armed,       \* allow_orders of its UpbitClient
  typed,       \* history: what the user typed for this start
  orders       \* history: the processes that made a real order

guardVars == <<file, dashboard, stage, override, argument, settings, broker, armed,
               typed, orders>>

(* is_live_trading_allowed                                                    *)
Allowed(s) == s.mode = "LIVE" /\ s.enabled

Default == [mode |-> "PAPER", enabled |-> FALSE, keys |-> FALSE]

GuardInit ==
  /\ file \in Settings /\ dashboard = file
  /\ stage = [p \in Processes |-> "none"]
  /\ override = [p \in Processes |-> "file"]
  /\ argument = [p \in Processes |-> ""]
  /\ settings = [p \in Processes |-> Default]
  /\ broker = [p \in Processes |-> "paper"]
  /\ armed = [p \in Processes |-> FALSE]
  /\ typed = argument
  /\ orders = {}

-----------------------------------------------------------------------------
EditFile ==
  /\ file' \in Settings
  /\ UNCHANGED <<dashboard, stage, override, argument, settings, broker, armed, typed, orders>>

DashboardRestarts ==
  /\ dashboard' = file
  /\ UNCHANGED <<file, stage, override, argument, settings, broker, armed, typed, orders>>

Launch(p, mode, phrase, given) ==
  /\ stage[p] = "none"
  /\ stage' = [stage EXCEPT ![p] = "launched"]
  /\ override' = [override EXCEPT ![p] = mode]
  /\ argument' = [argument EXCEPT ![p] = given]
  /\ typed' = [typed EXCEPT ![p] = phrase]
  /\ UNCHANGED <<file, dashboard, settings, broker, armed, orders>>

(* api_bot_start: the dashboard judges by what it read; PAPER may be started  *)
(* whatever the file says, and start_engine sets the mode of the child.       *)
StartLive(p, phrase) ==
  /\ Allowed(dashboard) /\ dashboard.keys
  /\ phrase = LIVE_CONFIRM_PHRASE
  /\ Launch(p, "LIVE", phrase, phrase)

StartPaper(p, phrase) == Launch(p, "PAPER", phrase, "")

(* python -m app.main run, from a shell.                                      *)
StartFromShell(p, phrase) == Launch(p, "file", phrase, phrase)

(* get_settings of the process.                                               *)
ReadSettings(p) ==
  /\ stage[p] = "launched"
  /\ stage' = [stage EXCEPT ![p] = "reading"]
  /\ settings' = [settings EXCEPT
       ![p] = [file EXCEPT !.mode = IF override[p] = "file" THEN file.mode ELSE override[p]]]
  /\ UNCHANGED <<file, dashboard, override, argument, broker, armed, typed, orders>>

(* cmd_run: what lets a run begin.                                            *)
MayRun(p) ==
  /\ settings[p].mode # "BACKTEST"
  /\ settings[p].mode = "LIVE" =>
       Allowed(settings[p]) /\ settings[p].keys /\ argument[p] = LIVE_CONFIRM_PHRASE

RunBegins(p) ==
  /\ stage[p] = "reading" /\ MayRun(p)
  /\ stage' = [stage EXCEPT ![p] = "guarded"]
  /\ broker' = [broker EXCEPT ![p] = IF settings[p].mode = "LIVE" THEN "live" ELSE "paper"]
  /\ armed' = [armed EXCEPT ![p] = Allowed(settings[p])]
  /\ UNCHANGED <<file, dashboard, override, argument, settings, typed, orders>>

RunRefused(p) ==
  /\ stage[p] = "reading" /\ ~MayRun(p)
  /\ stage' = [stage EXCEPT ![p] = "over"]
  /\ UNCHANGED <<file, dashboard, override, argument, settings, broker, armed, typed, orders>>

(* TradingEngine.__init__: the broker has to fit the mode.                    *)
EngineFits(p) ==
  \/ settings[p].mode = "PAPER" /\ broker[p] = "paper"
  \/ settings[p].mode = "LIVE" /\ Allowed(settings[p]) /\ broker[p] = "live" /\ settings[p].keys

EngineRuns(p) ==
  /\ stage[p] = "guarded" /\ EngineFits(p)
  /\ stage' = [stage EXCEPT ![p] = "running"]
  /\ UNCHANGED <<file, dashboard, override, argument, settings, broker, armed, typed, orders>>

(* _require_orders_allowed of its UpbitClient.                                *)
OrdersAllowed(p) == armed[p]

(* LiveBroker.execute: assert_live_order_allowed, then create_order of the    *)
(* client.  A PaperBroker asks nobody.                                        *)
RealOrder(p) ==
  /\ stage[p] = "running" /\ broker[p] = "live"
  /\ Allowed(settings[p])
  /\ OrdersAllowed(p)
  /\ orders' = orders \cup {p}
  /\ UNCHANGED <<file, dashboard, stage, override, argument, settings, broker, armed, typed>>

ProcessEnds(p) ==
  /\ stage[p] \notin {"none", "over"}
  /\ stage' = [stage EXCEPT ![p] = "over"]
  /\ UNCHANGED <<file, dashboard, override, argument, settings, broker, armed, typed, orders>>

GuardNext ==
  \/ EditFile \/ DashboardRestarts
  \/ \E p \in Processes :
       \/ \E phrase \in Phrases :
            StartLive(p, phrase) \/ StartPaper(p, phrase) \/ StartFromShell(p, phrase)
       \/ ReadSettings(p) \/ RunBegins(p) \/ RunRefused(p) \/ EngineRuns(p)
       \/ RealOrder(p) \/ ProcessEnds(p)

GuardSpec == GuardInit /\ [][GuardNext]_guardVars

-----------------------------------------------------------------------------
(* Real orders come only from a process that itself read both switches on,    *)
(* and for whose start the phrase was typed: not from one whose dashboard had *)
(* read an older file, nor from one that was started as PAPER while the file  *)
(* says LIVE.                                                                 *)
RealOrdersAskedFor ==
  \A p \in orders :
    /\ Allowed(settings[p])
    /\ typed[p] = LIVE_CONFIRM_PHRASE
    /\ override[p] # "PAPER"
=============================================================================
