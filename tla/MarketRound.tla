----------------------------- MODULE MarketRound -----------------------------
(* The candles of one market in the engine (app/trading/engine.py:            *)
(* process_closed_candles and the boundary of run; app/trading/market_state.py: *)
(* merge_candles and find_gaps; app/strategy/data.py: drop_unclosed).  A      *)
(* candle is named by the number of its interval, and exists when somebody    *)
(* traded in it; the exchange may show it late.  A round asks for the latest  *)
(* candles, merges the closed ones into the frame, fills holes, and executes  *)
(* the signal of the newest.  Time is in ticks and passes during the awaits.  *)
EXTENDS Naturals, Sequences, FiniteSets

CONSTANTS
  Interval, Grace,   \* ticks of a candle, and candle_grace_seconds
  Warmup,            \* warmup_candles
  Refresh,           \* refresh_candles of an ordinary round
  MaxRows,           \* rows a frame keeps
  MaxTime,           \* bound: ticks
  MaxLag,            \* bound: ticks that pass during one round
  MaxLate,           \* bound: intervals by which a candle is shown late
  MaxMissing,        \* bound: intervals without a candle, up to now
  MaxTroubles,       \* bound: failed or unreadable answers, failed saves
  MaxRestarts        \* bound

ASSUME RoundAssumption ==
  /\ {Interval, Warmup, Refresh, MaxRows} \subseteq Nat \ {0}
  /\ {Grace, MaxTime, MaxLag, MaxLate, MaxMissing, MaxTroubles, MaxRestarts} \subseteq Nat
  /\ Refresh <= MaxRows /\ Warmup < MaxRows

VARIABLES
  time,        \* the clock
  published,   \* candles the exchange shows, the one in progress included
  frame,       \* state.candles[market]: the closed candles merged so far
  phase,       \* where the round is
  now,         \* the clock as the round read it when it began
  target,      \* when the next round is due
  due,         \* new_times of the round
  patched,     \* what became of this round's refill
  seen,        \* history: what the exchange had when it answered last
  acted,       \* history: the candles whose signal was executed, in that order
  lag, troubles, restarts

roundVars == <<time, published, frame, phase, now, target, due, patched, seen, acted,
               lag, troubles, restarts>>

Newest(S) == CHOOSE s \in S : \A t \in S : t <= s
Oldest(S) == CHOOSE s \in S : \A t \in S : s <= t

(* The n latest members of S.                                                 *)
Latest(n, S) == {s \in S : Cardinality({t \in S : t > s}) < n}

NextBoundary(t) == (t \div Interval + 1) * Interval + Grace

(* drop_unclosed: only the last candle may still be in progress.              *)
Closed(S, at) == IF S # {} /\ (Newest(S) + 1) * Interval > at THEN S \ {Newest(S)} ELSE S

(* The frame once an answer is merged; without a closed candle it stays.      *)
Merged(answer, at) ==
  IF Closed(answer, at) = {} THEN frame ELSE Latest(MaxRows, frame \cup Closed(answer, at))

(* find_gaps: the candles after which at least one is missing.                *)
Gaps(F) == {s \in F : s + 1 \notin F /\ s # Newest(F)}

RoundInit ==
  /\ time = 0 /\ now = 0 /\ target = 0
  /\ published \in SUBSET {0}
  /\ frame = {} /\ due = {} /\ seen = {}
  /\ phase = "down"
  /\ patched = "not tried"
  /\ acted = <<>>
  /\ lag = 0 /\ troubles = 0 /\ restarts = 0

-----------------------------------------------------------------------------
(* The exchange and the clock *)

Missing(t) == {s \in 0..(t \div Interval - 1) : s \notin published}

Tick ==
  /\ time < MaxTime
  /\ Cardinality(Missing(time + 1)) <= MaxMissing
  /\ phase \in {"fetch", "refill", "act"} => lag < MaxLag
  /\ time' = time + 1
  /\ lag' = IF phase \in {"fetch", "refill", "act"} THEN lag + 1 ELSE lag
  /\ UNCHANGED <<published, frame, phase, now, target, due, patched, seen, acted,
                 troubles, restarts>>

(* A first trade opens the candle of the interval; an exchange that lags      *)
(* shows it up to MaxLate intervals later.                                    *)
Publish ==
  /\ \E s \in 0..(time \div Interval) \ published :
        /\ s + MaxLate >= time \div Interval
        /\ published' = published \cup {s}
  /\ UNCHANGED <<time, frame, phase, now, target, due, patched, seen, acted,
                 lag, troubles, restarts>>

-----------------------------------------------------------------------------
(* The engine *)

(* warmup: what is closed by now is merged and never acted on.                *)
WarmUp ==
  /\ phase = "down"
  /\ frame' = Merged(Latest(Warmup + 1, published), time)
  /\ phase' = "idle"
  /\ target' = NextBoundary(time)
  /\ UNCHANGED <<time, published, now, due, patched, seen, acted, lag, troubles, restarts>>

BeginRound ==
  /\ phase = "idle"
  /\ time >= target
  /\ now' = time
  /\ phase' = "fetch"
  /\ patched' = "not tried"
  /\ lag' = 0
  /\ UNCHANGED <<time, published, frame, target, due, seen, acted, troubles, restarts>>

(* Whatever the round did, the next one is due after the next boundary.       *)
EndRound ==
  /\ phase' = "idle"
  /\ due' = {}
  /\ target' = NextBoundary(time)

FetchAnswers ==
  LET answer == Latest(Refresh, published)
      new == Closed(answer, now) \ frame
  IN /\ phase = "fetch"
     /\ frame' = Merged(answer, now)
     /\ seen' = published
     /\ \/ /\ new = {} /\ EndRound
        \/ /\ new # {} /\ due' = new /\ target' = target
           /\ phase' = IF Gaps(frame') # {} THEN "refill" ELSE "act"
     /\ UNCHANGED <<time, published, now, patched, acted, lag, troubles, restarts>>

Trouble ==
  /\ troubles < MaxTroubles
  /\ troubles' = troubles + 1

(* A failed request, or candles that contradict themselves: the market waits  *)
(* for the next round.                                                        *)
FetchFails ==
  /\ phase = "fetch"
  /\ Trouble
  /\ EndRound
  /\ UNCHANGED <<time, published, frame, now, patched, seen, acted, lag, restarts>>

\* A mutant of RefillCount: nothing to spare.
RefillCountExact ==
  LET span == (now - Oldest(Gaps(frame)) * Interval) \div Interval
      wanted == IF span > Warmup + 1 THEN span ELSE Warmup + 1
  IN IF wanted > MaxRows THEN MaxRows ELSE wanted

(* _refill_gaps: from the candle before the first gap up to now, and two to   *)
(* spare for what appears meanwhile.                                          *)
RefillCount ==
  LET span == (now - Oldest(Gaps(frame)) * Interval) \div Interval + 2
      wanted == IF span > Warmup + 1 THEN span ELSE Warmup + 1
  IN IF wanted > MaxRows THEN MaxRows ELSE wanted

RefillAnswers ==
  LET answer == Latest(RefillCount, published)
  IN /\ phase = "refill"
     /\ frame' = Merged(answer, now)
     /\ due' = due \cup (Closed(answer, now) \ frame)
     /\ seen' = published
     /\ patched' = IF RefillCount = MaxRows THEN "cut short" ELSE "done"
     /\ phase' = "act"
     /\ UNCHANGED <<time, published, now, target, acted, lag, troubles, restarts>>

RefillFails ==
  /\ phase = "refill"
  /\ Trouble
  /\ patched' = "failed"
  /\ phase' = "act"
  /\ UNCHANGED <<time, published, frame, now, target, due, seen, acted, lag, restarts>>

(* Candles that contradict themselves in the refill, or a database that       *)
(* refuses to store: the exception ends the round, and its candles, already   *)
(* in the frame, are never new again.                                         *)
RoundRaises ==
  /\ phase \in {"refill", "act"}
  /\ Trouble
  /\ EndRound
  /\ UNCHANGED <<time, published, frame, now, patched, seen, acted, lag, restarts>>

\* A mutant of TooOld: a candle is never too old.
TooOldNever(s) == FALSE

(* The signal of the newest of the new candles is executed, unless the candle *)
(* was closed more than an interval ago.  The others are recorded only.  That *)
(* a signal already in the database is not executed again (save_signal) is    *)
(* left out: the candles alone have to see to it.                             *)
TooOld(s) == now > (s + 1) * Interval + Interval + Grace

Act ==
  /\ phase = "act"
  /\ ~TooOld(Newest(due))
  /\ acted' = Append(acted, Newest(due))
  /\ EndRound
  /\ UNCHANGED <<time, published, frame, now, patched, seen, lag, troubles, restarts>>

SkipOld ==
  /\ phase = "act"
  /\ TooOld(Newest(due))
  /\ EndRound
  /\ UNCHANGED <<time, published, frame, now, patched, seen, acted, lag, troubles, restarts>>

(* A close that jumped from the one before by more than candle_anomaly_pct.   *)
HoldJump ==
  /\ phase = "act"
  /\ Cardinality({s \in frame : s <= Newest(due)}) > 1
  /\ EndRound
  /\ UNCHANGED <<time, published, frame, now, patched, seen, acted, lag, troubles, restarts>>

Restart ==
  /\ restarts < MaxRestarts
  /\ phase # "down"
  /\ restarts' = restarts + 1
  /\ phase' = "down"
  /\ frame' = {} /\ due' = {}
  /\ UNCHANGED <<time, published, now, target, patched, seen, acted, lag, troubles>>

RoundNext ==
  \/ Tick \/ Publish
  \/ WarmUp \/ BeginRound
  \/ FetchAnswers \/ FetchFails
  \/ RefillAnswers \/ RefillFails \/ RoundRaises
  \/ Act \/ SkipOld \/ HoldJump
  \/ Restart

RoundSpec == RoundInit /\ [][RoundNext]_roundVars

-----------------------------------------------------------------------------
(* Whatever appears late, fails or is lost in a restart, every execution is   *)
(* of the newest candle of the frame, and of one newer than all that were     *)
(* executed before, in this process or an earlier one: no signal is executed  *)
(* twice and none out of order, even without the record of signals.  What     *)
(* keeps a late candle from being acted on after its successor is the age     *)
(* check of process_closed_candles.                                           *)
ActsOnTheLatest ==
  [][acted' # acted =>
        LET s == acted'[Len(acted')]
        IN /\ s = Newest(frame')
           /\ \A i \in DOMAIN acted : acted[i] < s]_roundVars

(* The strategy sees every candle the exchange had, between the oldest and    *)
(* the newest of its frame, when it answered the last request of the round,   *)
(* unless the refill of a gap failed or was cut short by the rows of a frame: *)
(* the candle in progress then takes the place of one that is missing.        *)
FrameWhole ==
  phase = "act" /\ patched \in {"not tried", "done"} =>
    \A s \in seen : Oldest(frame) <= s /\ s <= Newest(frame) => s \in frame
=============================================================================
