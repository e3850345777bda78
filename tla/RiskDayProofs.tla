--------------------------- MODULE RiskDayProofs ---------------------------
(***************************************************************************)
(* What the state of the day keeps over midnight, restarts and the replay  *)
(* of the day's trades, for every limit and any number of days, trades,    *)
(* cash flows and restarts.                                                *)
(*                                                                         *)
(* A halt is kept whatever else goes wrong, as long as no sale of the same *)
(* day turns up during the restart (the run halt_lost shows what happens   *)
(* then).  Inv: the halt that was ordered is the one in the database, at   *)
(* every moment; memory has it from rebuild on, and none before.  Nothing  *)
(* else of the state matters to it, not even the types: the provers only   *)
(* need to know that both records have the field.                          *)
(*                                                                         *)
(* The base of the day and its cash flows are kept when none of the faults *)
(* happens; each of the four breaks one of them.  DayInv: the base in      *)
(* memory is the one the day began with, and while the engine works, and   *)
(* again after it ended, the database has it.  FlowInv: the same of the    *)
(* flow; a flow beyond a cursor, in memory or in the database, has been    *)
(* counted on no day.                                                      *)
(*                                                                         *)
(* Neither is a closed day opened again, nor a loss forgotten or counted   *)
(* twice, without faults.  LossInv: the losses in memory are those of the  *)
(* day's trips, in rebuild of the trips replayed so far; a closed day is   *)
(* locked in memory and in the database, and while rebuild runs either the *)
(* kept lock or the trips still to be replayed will lock it again.  The    *)
(* last needs the reason of a lock: a lock for consecutive losses is not   *)
(* kept, since the trips of the day show the streak.                       *)
(***************************************************************************)
EXTENDS RiskDay, FiniteSetTheorems, SequenceTheorems, TLAPS

HasHalt(s) == "halted" \in DOMAIN s

HaltKept ==
  /\ halting \in BOOLEAN
  /\ store.halted = halting
  /\ phase \in {"rebuild", "run"} => state.halted = halting
  /\ phase \in {"down", "starting"} => state.halted = FALSE

Inv == HasHalt(state) /\ HasHalt(store) /\ HaltKept

NoLateSale == "late_sale" \notin Faults

\* What became of s still has the field, and has the same in it.
SameHalt(s, new) == HasHalt(s) => HasHalt(new) /\ new.halted = s.halted

-----------------------------------------------------------------------------
(* None of the methods of RiskManager but halt and resume touch the halt.  *)

\* Dropping the counters of another day does not (start_day_if_needed).
LEMMA StartDayKeeps ==
  ASSUME NEW s, NEW day, NEW equity
  PROVE  SameHalt(s, StartDay(s, day, equity))
BY DEF StartDay, SameHalt, HasHalt

\* A daily loss locks the day and nothing else (update_equity).
LEMMA MarkedKeeps ==
  ASSUME NEW s, NEW day, NEW equity
  PROVE  SameHalt(s, Marked(s, equity, day))
<1> DEFINE d == StartDay(s, day, equity)
           m == [d EXCEPT !.base = IF @ = 0 THEN equity ELSE @, !.last = equity]
<1>1. SameHalt(s, d)
  BY StartDayKeeps
<1>2. SameHalt(d, m)
  BY DEF SameHalt, HasHalt
<1>3. Marked(s, equity, day) = IF OverLimit(m, equity) THEN [m EXCEPT !.lock = "daily"] ELSE m
  BY DEF Marked, d
<1> HIDE DEF d, m
<1>4. QED
  BY <1>1, <1>2, <1>3 DEF SameHalt, HasHalt

\* What update_equity saves has the halt, too.
LEMMA MarkedStoreKeeps ==
  ASSUME NEW s, NEW day, NEW equity, HasHalt(s), HasHalt(store), store.halted = s.halted
  PROVE  SameHalt(s, MarkedStore(s, equity, day))
BY StartDayKeeps, MarkedKeeps DEF MarkedStore, SameHalt

\* A sale moves the losses and may lock the day (record_trade).
LEMMA TradedKeeps ==
  ASSUME NEW s, NEW lost, NEW day
  PROVE  SameHalt(s, Traded(s, lost, day))
<1> DEFINE d == StartDay(s, day, s.last)
           m == [d EXCEPT !.losses = IF lost THEN @ + 1 ELSE 0]
<1>1. SameHalt(s, d)
  BY StartDayKeeps
<1>2. SameHalt(d, m)
  BY DEF SameHalt, HasHalt
<1>3. Traded(s, lost, day) = IF m.losses >= MaxLosses /\ m.lock = "none"
                             THEN [m EXCEPT !.lock = "consecutive"] ELSE m
  BY DEF Traded, d
<1> HIDE DEF d, m
<1>4. QED
  BY <1>1, <1>2, <1>3 DEF SameHalt, HasHalt

\* Cash flows move the base of the day (apply_cash_flows).
LEMMA CashFlowsKeep ==
  ASSUME NEW s, NEW day
  PROVE  SameHalt(s, CashFlows(s, day))
<1> DEFINE d     == StartDay(s, day, s.last)
           first == [s EXCEPT !.cursor = flows]
           later == [d EXCEPT !.flow = @ + flows - s.cursor, !.cursor = flows]
<1>1. SameHalt(s, d)
  BY StartDayKeeps
<1>2. CashFlows(s, day) \in {first, s, later}
  BY DEF CashFlows
<1>3. SameHalt(s, first)
  BY DEF SameHalt, HasHalt
<1> HIDE DEF d
<1>4. SameHalt(d, later)
  BY DEF SameHalt, HasHalt
<1> HIDE DEF first, later
<1>5. QED
  BY <1>1, <1>2, <1>3, <1>4 DEF SameHalt

\* rebuild takes the halt over from the database, whatever day it is.
LEMMA RestoredKeeps ==
  ASSUME NEW equity
  PROVE  HasHalt(Restored(equity)) /\ Restored(equity).halted = store.halted
BY DEF Restored, Fresh, HasHalt

-----------------------------------------------------------------------------
(* The invariant.                                                          *)

\* The first start finds nothing saved and nothing halted.
LEMMA InvInit == Init => Inv
<1>1. HasHalt(Fresh)
  BY DEF HasHalt, Fresh
<1>2. Fresh.halted = FALSE
  BY DEF Fresh
<1>3. QED
  BY <1>1, <1>2 DEF Init, Inv, HaltKept

\* Every step keeps the invariant; a sale during the restart needs the
\* assumption, since it saves a state that rebuild has not filled yet.
LEMMA InvStep == ASSUME NoLateSale PROVE Inv /\ [Next]_vars => Inv'
<1> SUFFICES ASSUME Inv, [Next]_vars PROVE Inv'
  OBVIOUS
<1> USE DEF Inv
<1>1. ASSUME NEW e \in Equities, Tick(e) PROVE Inv'
  <2>1. state.halted = halting /\ state' = Marked(state, e, today)
        /\ store' = MarkedStore(state, e, today)
    BY <1>1 DEF HaltKept, Tick, Become
  <2>2. SameHalt(state, state') /\ SameHalt(state, store')
    BY <2>1, MarkedKeeps, MarkedStoreKeeps DEF HaltKept
  <2>3. QED
    BY <1>1, <2>1, <2>2 DEF Tick, HaltKept, SameHalt
<1>2. ASSUME NEW e \in Equities, MainMarks(e) PROVE Inv'
  <2>1. state.halted = halting /\ state' = Marked(state, e, held["main"])
        /\ store' = MarkedStore(state, e, held["main"])
    BY <1>2 DEF HaltKept, MainMarks, MainAtWork, Become
  <2>2. SameHalt(state, state') /\ SameHalt(state, store')
    BY <2>1, MarkedKeeps, MarkedStoreKeeps DEF HaltKept
  <2>3. QED
    BY <1>2, <2>1, <2>2 DEF MainMarks, MainAtWork, HaltKept, SameHalt
<1>3. ASSUME NEW e \in Equities, Evaluate(e) PROVE Inv'
  <2>1. state' = StartDay(state, held["main"], e) /\ store' \in {state', store}
    BY <1>3 DEF Evaluate, Become
  <2>2. SameHalt(state, state')
    BY <2>1, StartDayKeeps
  <2>3. QED
    BY <1>3, <2>1, <2>2 DEF Evaluate, MainAtWork, HaltKept, SameHalt
<1>4. ASSUME NEW t \in Tasks, NEW lost \in BOOLEAN, Sell(t, lost) PROVE Inv'
  <2>1. state' = Traded(state, lost, held[t]) /\ store' = state'
    BY <1>4 DEF Sell, Become
  <2>2. SameHalt(state, state')
    BY <2>1, TradedKeeps
  <2>3. QED
    BY <1>4, <2>1, <2>2 DEF Sell, HaltKept, SameHalt
<1>5. CASE Wake
  <2>1. state' = CashFlows(state, today) /\ store' \in {state', store}
    BY <1>5 DEF Wake, Become
  <2>2. SameHalt(state, state')
    BY <2>1, CashFlowsKeep
  <2>3. QED
    BY <1>5, <2>1, <2>2 DEF Wake, HaltKept, SameHalt
<1>6. CASE Sleep
  BY <1>6 DEF Sleep, history, HaltKept, HasHalt
<1>7. CASE Halt
  BY <1>7 DEF Halt, Become, HaltKept, HasHalt
<1>8. CASE Resume
  BY <1>8 DEF Resume, Become, HaltKept, HasHalt
<1>9. CASE Start
  BY <1>9 DEF Start, history, HaltKept, HasHalt
<1>10. ASSUME NEW lost \in BOOLEAN, SellAtStart(lost) PROVE Inv'
  <2>1. ~store.halted /\ state.halted = FALSE
    BY <1>10, NoLateSale DEF SellAtStart, NoLateSale, HaltKept
  <2>2. state' = Traded(state, lost, today) /\ store' = state'
    BY <1>10 DEF SellAtStart, Become
  <2>3. SameHalt(state, state')
    BY <2>2, TradedKeeps
  <2>4. halting' = halting /\ phase' = phase /\ phase = "starting"
    BY <1>10 DEF SellAtStart
  <2>5. QED
    BY <2>1, <2>2, <2>3, <2>4 DEF HaltKept, SameHalt
<1>11. ASSUME NEW e \in KnownOrNot, BeginRebuild(e) PROVE Inv'
  <2>1. state' = Restored(e)
    BY <1>11 DEF BeginRebuild, Become
  <2>2. HasHalt(state') /\ state'.halted = store.halted
    BY <2>1, RestoredKeeps
  <2>3. QED
    BY <1>11, <2>2 DEF BeginRebuild, HaltKept
<1>12. CASE ReplayTrip
  <2>1. PICK lost : state' = Traded(state, lost, today)
    BY <1>12 DEF ReplayTrip, Become
  <2>2. SameHalt(state, state')
    BY <2>1, TradedKeeps
  <2>3. QED
    BY <1>12, <2>2 DEF ReplayTrip, HaltKept, SameHalt
<1>13. ASSUME NEW e \in KnownOrNot, FinishRebuild(e) PROVE Inv'
  <2> DEFINE s == [state EXCEPT !.lock = IF @ = "none" THEN kept ELSE @, !.last = e]
  <2>1. Restarted(s)
    BY <1>13 DEF FinishRebuild
  <2>2. state' = CashFlows(s, today) /\ store' = state' /\ halting' = halting
        /\ phase = "rebuild" /\ phase' = "run"
    BY <2>1 DEF Restarted, Become
  <2>3. SameHalt(state, s)
    BY DEF SameHalt, HasHalt
  <2> HIDE DEF s
  <2>4. SameHalt(s, state')
    BY <2>2, CashFlowsKeep
  <2>5. QED
    BY <2>2, <2>3, <2>4 DEF HaltKept, SameHalt
<1>14. CASE Crash
  BY <1>14 DEF Crash, history, Fresh, HaltKept, HasHalt
<1>15. CASE Midnight
  BY <1>15 DEF Midnight, history, HaltKept, HasHalt
<1>16. CASE RecordFlow
  BY <1>16 DEF RecordFlow, history, HaltKept, HasHalt
<1>17. CASE EntryEnds \/ UNCHANGED vars
  BY <1>17 DEF EntryEnds, vars, history, HaltKept, HasHalt
<1>18. QED
  BY <1>1, <1>2, <1>3, <1>4, <1>5, <1>6, <1>7, <1>8, <1>9, <1>10, <1>11, <1>12, <1>13,
     <1>14, <1>15, <1>16, <1>17
     DEF Next, Work, Startup, EnterPosition, RefuseEntry

\* The halt in the database, and from rebuild on the one in memory, is the
\* halt that was ordered (manager.py, _persist after every change and rebuild).
THEOREM Invariance == ASSUME NoLateSale PROVE Spec => []Inv
<1>1. Inv /\ [Next]_vars => Inv'
  BY InvStep
<1>2. QED
  BY <1>1, InvInit, PTL DEF Spec

\* HaltStays: a halt is in force until it is lifted, over midnight and over
\* restarts (manager.py, rebuild), when no sale of a halted or locked day is
\* found during the restart.
THEOREM HaltSurvives == ASSUME NoLateSale PROVE Spec => []HaltStays
<1>1. Inv => HaltStays
  BY DEF Inv, HaltKept, HaltStays
<1>2. QED
  BY <1>1, Invariance, PTL

-----------------------------------------------------------------------------
(* The base of the day, without faults.                                    *)

NoFaults == Faults = {}

\* Enough of the type to compute with the records.
Records == [day : Nat, base : Nat, last : Nat, losses : Nat, lock : Locks,
            halted : BOOLEAN, flow : Int, cursor : Int]

TypesFit ==
  /\ today \in Days /\ flows \in Nat
  /\ state \in Records /\ store \in Records
  /\ kept \in Locks
  /\ began \in [Days -> Nat]

\* What memory says of the base in each phase.
BaseByPhase ==
  /\ phase \in {"down", "starting"} => state.base = 0 /\ state.last = 0
  /\ phase = "rebuild" => state.day = today /\ state.base # 0 /\ state.base = began[today]
  /\ phase = "run" =>
       /\ state.day \in 1..today /\ state.last # 0
       /\ state.base # 0 /\ state.base = began[state.day]
       /\ store.day = state.day /\ store.base = state.base

\* What the database says of it, but for the moments of rebuild.
BaseSaved ==
  phase # "rebuild" /\ began[today] # 0 => store.day = today /\ store.base = began[today]

NoDayAhead ==
  /\ \A d \in Days : d > today => began[d] = 0
  /\ held \in [Tasks -> {0, today}]

DayInv == TypesFit /\ BaseByPhase /\ BaseSaved /\ NoDayAhead

\* What became of s is of this day; a day that goes on keeps its base and its
\* flow, a new one begins with what is given and without a flow.
SameDay(s, new, day, equity) ==
  /\ new \in Records /\ new.day = day
  /\ new.base = IF s.day = day THEN s.base ELSE equity
  /\ new.flow = IF s.day = day THEN s.flow ELSE 0
  /\ new.cursor = s.cursor

\* The day rolls over, or nothing happens (start_day_if_needed).
LEMMA StartDayRolls ==
  ASSUME NEW s \in Records, NEW day \in Nat, NEW equity \in Nat
  PROVE  /\ SameDay(s, StartDay(s, day, equity), day, equity)
         /\ StartDay(s, day, equity).last = s.last
<1> DEFINE new == [s EXCEPT !.day = day, !.base = equity, !.losses = 0, !.lock = "none", !.flow = 0]
<1>1. new \in Records /\ new.day = day /\ new.base = equity /\ new.last = s.last
      /\ new.flow = 0 /\ new.cursor = s.cursor
  <2> DEFINE a == [s EXCEPT !.day = day, !.base = equity]
             b == [a EXCEPT !.losses = 0]
             c == [b EXCEPT !.lock = "none"]
  <2>1. a \in Records /\ a.day = day /\ a.base = equity /\ a.last = s.last /\ a.cursor = s.cursor
    BY DEF Records
  <2> HIDE DEF a
  <2>2. b \in Records /\ b.day = day /\ b.base = equity /\ b.last = s.last /\ b.cursor = s.cursor
    BY <2>1 DEF Records
  <2> HIDE DEF b
  <2>3. c \in Records /\ c.day = day /\ c.base = equity /\ c.last = s.last /\ c.cursor = s.cursor
    BY <2>2 DEF Records, Locks
  <2>4. new = [c EXCEPT !.flow = 0]
    BY DEF a, b, c, Records
  <2> HIDE DEF c, new
  <2>5. QED
    BY <2>3, <2>4 DEF Records
<1>2. StartDay(s, day, equity) = IF s.day = day THEN s ELSE new
  BY DEF StartDay
<1> HIDE DEF new
<1>3. QED
  BY <1>1, <1>2 DEF SameDay

\* A measurement sets a base only where there is none (update_equity).
LEMMA MarkedRolls ==
  ASSUME NEW s \in Records, NEW day \in Nat, NEW equity \in Nat \ {0}, s.base # 0
  PROVE  /\ SameDay(s, Marked(s, equity, day), day, equity)
         /\ Marked(s, equity, day).last = equity
<1> DEFINE d == StartDay(s, day, equity)
           m == [d EXCEPT !.base = IF @ = 0 THEN equity ELSE @, !.last = equity]
<1>1. SameDay(s, d, day, equity)
  BY StartDayRolls
<1>2. Marked(s, equity, day) = IF OverLimit(m, equity) THEN [m EXCEPT !.lock = "daily"] ELSE m
  BY DEF Marked, d
<1>3. d.base # 0
  BY <1>1 DEF SameDay
<1> HIDE DEF d
<1>4. m \in Records /\ m.day = d.day /\ m.base = d.base /\ m.last = equity
      /\ m.flow = d.flow /\ m.cursor = d.cursor
  BY <1>1, <1>3 DEF SameDay, Records, Locks
<1> HIDE DEF m
<1>5. [m EXCEPT !.lock = "daily"] \in Records
  BY <1>4 DEF Records, Locks
<1>6. QED
  BY <1>1, <1>2, <1>4, <1>5 DEF SameDay, Records

\* A new day, a new lock: what update_equity saves has the base of memory, and
\* what it does not save is in the database already.
LEMMA MarkedStoreRolls ==
  ASSUME NEW s \in Records, NEW day \in Nat, NEW equity \in Nat \ {0}, s.base # 0,
         store \in Records, store.day = s.day, store.base = s.base
  PROVE  /\ MarkedStore(s, equity, day) \in Records
         /\ MarkedStore(s, equity, day).day = day
         /\ MarkedStore(s, equity, day).base = Marked(s, equity, day).base
<1>1. SameDay(s, Marked(s, equity, day), day, equity)
  BY MarkedRolls
<1>2. SameDay(s, StartDay(s, day, equity), day, equity)
  BY StartDayRolls
<1>3. QED
  BY <1>1, <1>2 DEF MarkedStore, SameDay

\* A sale counts a loss and may lock the day (record_trade).
LEMMA TradedRolls ==
  ASSUME NEW s \in Records, NEW day \in Nat, NEW lost
  PROVE  SameDay(s, Traded(s, lost, day), day, s.last) /\ Traded(s, lost, day).last = s.last
<1> DEFINE d == StartDay(s, day, s.last)
           m == [d EXCEPT !.losses = IF lost THEN @ + 1 ELSE 0]
<1>1. s.last \in Nat
  BY DEF Records
<1>2. SameDay(s, d, day, s.last) /\ d.last = s.last
  BY <1>1, StartDayRolls
<1>3. Traded(s, lost, day) = IF m.losses >= MaxLosses /\ m.lock = "none"
                             THEN [m EXCEPT !.lock = "consecutive"] ELSE m
  BY DEF Traded, d
<1> HIDE DEF d
<1>4. m \in Records /\ m.day = d.day /\ m.base = d.base /\ m.last = d.last
      /\ m.flow = d.flow /\ m.cursor = d.cursor
  BY <1>2 DEF SameDay, Records
<1> HIDE DEF m
<1>5. QED
  BY <1>2, <1>3, <1>4 DEF SameDay, Records, Locks

\* Cash flows move the flow and the cursor; the day may roll over before
\* (apply_cash_flows).
LEMMA CashFlowsRoll ==
  ASSUME NEW s \in Records, NEW day \in Nat, flows \in Nat
  PROVE  LET c == CashFlows(s, day)
         IN  /\ c \in Records /\ c.last = s.last /\ c.cursor = flows
             /\ IF s.cursor \in {-1, flows}
                THEN c.day = s.day /\ c.base = s.base /\ c.flow = s.flow
                ELSE /\ c.day = day
                     /\ c.base = IF s.day = day THEN s.base ELSE s.last
                     /\ c.flow = (IF s.day = day THEN s.flow ELSE 0) + flows - s.cursor
<1> DEFINE d     == StartDay(s, day, s.last)
           first == [s EXCEPT !.cursor = flows]
           f     == d.flow + flows - s.cursor
           later == [d EXCEPT !.flow = f, !.cursor = flows]
<1>1. s.last \in Nat /\ s.cursor \in Int /\ flows \in Int
  BY DEF Records
<1>2. SameDay(s, d, day, s.last) /\ d.last = s.last
  BY <1>1, StartDayRolls
<1>3. CashFlows(s, day) = IF s.cursor = -1 THEN first ELSE IF s.cursor = flows THEN s ELSE later
  BY DEF CashFlows
<1>4. /\ first \in Records /\ first.day = s.day /\ first.base = s.base /\ first.last = s.last
      /\ first.flow = s.flow /\ first.cursor = flows
  BY <1>1 DEF Records
<1> HIDE DEF d, first
<1>5. d \in Records /\ f \in Int
  BY <1>1, <1>2 DEF SameDay, Records
<1> HIDE DEF f
<1>6. later \in Records
  BY <1>1, <1>5 DEF Records
<1>7. /\ later.day = d.day /\ later.base = d.base /\ later.last = d.last
      /\ later.flow = f /\ later.cursor = flows
  BY <1>5 DEF Records
<1> HIDE DEF later
<1>8. CASE s.cursor \in {-1, flows}
  BY <1>3, <1>4, <1>8
<1>9. CASE s.cursor \notin {-1, flows}
  <2>1. CashFlows(s, day) = later
    BY <1>3, <1>9
  <2>2. QED
    BY <1>2, <1>6, <1>7, <1>9, <2>1 DEF f, SameDay
<1>10. QED
  BY <1>8, <1>9

\* A step of the engine at work that goes on with the day of memory, or begins
\* today: the day's base is what the database has and what the day began with.
LEMMA WorkKeepsDay ==
  ASSUME DayInv, NEW s, s \in Records, Become(s), phase = "run", phase' = "run",
         today' = today, flows' \in Nat, kept' = kept,
         store' \in Records, store'.day = s.day, store'.base = s.base, s.last # 0,
         \/ s.day = state.day /\ s.base = state.base
         \/ s.day = today /\ s.day # state.day /\ s.base # 0,
         held' \in [Tasks -> {0, today}]
  PROVE  DayInv'
<1> USE DEF DayInv
<1>1. /\ state' = s /\ today \in Days /\ state.day \in 1..today /\ state.day \in Days
      /\ s.day \in Days /\ s.day \in 1..today
  BY ConstantsAssumption DEF Become, TypesFit, BaseByPhase, Days
<1>2. began' = IF s.base # 0 /\ began[s.day] = 0 THEN [began EXCEPT ![s.day] = s.base] ELSE began
  BY DEF Become
<1>3. TypesFit'
  BY <1>1, <1>2 DEF TypesFit, Records
<1>4. s.base # 0 /\ s.base = began'[s.day]
  <2>1. CASE s.day = state.day /\ s.base = state.base
    BY <2>1, <1>2 DEF BaseByPhase
  <2>2. CASE s.day = today /\ s.day # state.day /\ s.base # 0
    <3>1. began[s.day] = 0
      BY <2>2 DEF BaseByPhase, BaseSaved
    <3>2. QED
      BY <2>2, <3>1, <1>1, <1>2 DEF TypesFit
  <2>3. QED
    BY <2>1, <2>2
<1>5. BaseByPhase'
  BY <1>1, <1>4 DEF BaseByPhase
<1>6. BaseSaved'
  <2>1. ASSUME began'[today] # 0, s.day # today PROVE FALSE
    BY <2>1, <1>1, <1>2 DEF TypesFit, BaseByPhase, BaseSaved
  <2>2. QED
    BY <2>1, <1>4 DEF BaseSaved
<1>7. NoDayAhead'
  <2>1. \A d \in Days : d > today => began'[d] = began[d]
    BY <1>1, <1>2 DEF TypesFit, Days
  <2>2. QED
    BY <2>1 DEF NoDayAhead
<1>8. QED
  BY <1>3, <1>5, <1>6, <1>7

\* Steps that leave memory, the database and the days alone.
LEMMA RestKeepsDay ==
  ASSUME DayInv, flows' \in Nat, held' \in [Tasks -> {0, today}],
         UNCHANGED <<today, phase, state, store, kept, began>>
  PROVE  DayInv'
BY DEF DayInv, TypesFit, BaseByPhase, BaseSaved, NoDayAhead

\* Nothing has begun.
LEMMA DayInit == ASSUME NoFaults PROVE Init => DayInv
<1> SUFFICES ASSUME Init PROVE DayInv
  OBVIOUS
<1>1. Fresh \in Records /\ Fresh.base = 0 /\ Fresh.last = 0
  BY DEF Fresh, Records, Locks
<1>2. TypesFit
  BY <1>1, ConstantsAssumption DEF Init, TypesFit, Days, Locks
<1>3. QED
  BY <1>1, <1>2, ConstantsAssumption DEF Init, DayInv, BaseByPhase, BaseSaved, NoDayAhead, Days

\* Every step keeps the invariant.  A held `now` is of today since no fault lets
\* midnight pass meanwhile; a sale during the restart belongs to a day that has
\* not begun; rebuild runs to its end and knows the equity.
LEMMA DayStep == ASSUME NoFaults PROVE DayInv /\ [Next]_vars => DayInv'
<1> SUFFICES ASSUME DayInv, [Next]_vars PROVE DayInv'
  OBVIOUS
<1>0. /\ today \in Days /\ today \in Nat \ {0} /\ flows \in Nat
      /\ state \in Records /\ store \in Records /\ Equities \subseteq Nat \ {0}
      /\ KnownOrNot = Equities
      /\ held \in [Tasks -> {0, today}]
  BY ConstantsAssumption, NoFaults DEF DayInv, TypesFit, NoDayAhead, Days, KnownOrNot, NoFaults
<1>a. phase = "run" =>
        /\ state.day \in 1..today /\ state.last # 0 /\ state.last \in Nat
        /\ state.base # 0 /\ store.day = state.day /\ store.base = state.base
  BY <1>0 DEF DayInv, BaseByPhase, Records
<1>1. ASSUME NEW e \in Equities, Tick(e) PROVE DayInv'
  <2>1. SameDay(state, Marked(state, e, today), today, e) /\ Marked(state, e, today).last = e
    BY <1>0, <1>1, <1>a, MarkedRolls DEF Tick
  <2>2. /\ MarkedStore(state, e, today) \in Records
        /\ MarkedStore(state, e, today).day = today
        /\ MarkedStore(state, e, today).base = Marked(state, e, today).base
    BY <1>0, <1>1, <1>a, MarkedStoreRolls DEF Tick
  <2>3. held' \in [Tasks -> {0, today}]
    BY <1>0, <1>1 DEF Tick
  <2>4. QED
    BY <1>0, <1>1, <1>a, <2>1, <2>2, <2>3, WorkKeepsDay DEF Tick, SameDay
<1>2. ASSUME NEW e \in Equities, MainMarks(e) PROVE DayInv'
  <2>1. held["main"] = today
    BY <1>0, <1>2 DEF MainMarks, MainAtWork, Tasks
  <2>2. SameDay(state, Marked(state, e, today), today, e) /\ Marked(state, e, today).last = e
    BY <1>0, <1>2, <1>a, MarkedRolls DEF MainMarks, MainAtWork
  <2>3. /\ MarkedStore(state, e, today) \in Records
        /\ MarkedStore(state, e, today).day = today
        /\ MarkedStore(state, e, today).base = Marked(state, e, today).base
    BY <1>0, <1>2, <1>a, MarkedStoreRolls DEF MainMarks, MainAtWork
  <2>4. QED
    BY <1>0, <1>2, <1>a, <2>1, <2>2, <2>3, WorkKeepsDay
       DEF MainMarks, MainAtWork, taskVars, SameDay
<1>3. ASSUME NEW e \in Equities, Evaluate(e) PROVE DayInv'
  <2>1. held["main"] = today
    BY <1>0, <1>3 DEF Evaluate, MainAtWork, Tasks
  <2>2. SameDay(state, StartDay(state, today, e), today, e)
        /\ StartDay(state, today, e).last = state.last
    BY <1>0, <1>3, StartDayRolls
  <2>3. store' = IF state.day # today THEN StartDay(state, today, e) ELSE store
    BY <1>3, <2>1 DEF Evaluate
  <2>4. QED
    BY <1>0, <1>3, <1>a, <2>1, <2>2, <2>3, WorkKeepsDay DEF Evaluate, MainAtWork, SameDay
<1>4. ASSUME NEW t \in Tasks, NEW lost \in BOOLEAN, Sell(t, lost) PROVE DayInv'
  <2>1. held[t] = today
    BY <1>0, <1>4 DEF Sell
  <2>2. SameDay(state, Traded(state, lost, today), today, state.last)
        /\ Traded(state, lost, today).last = state.last
    BY <1>0, TradedRolls
  <2>3. held' \in [Tasks -> {0, today}]
    BY <1>0, <1>4 DEF Sell
  <2>4. QED
    BY <1>0, <1>4, <1>a, <2>1, <2>2, <2>3, WorkKeepsDay DEF Sell, SameDay, Become
<1>5. CASE Wake
  <2>1. /\ CashFlows(state, today) \in Records
        /\ CashFlows(state, today).last = state.last
        /\ \/ CashFlows(state, today).day = state.day /\ CashFlows(state, today).base = state.base
           \/ /\ CashFlows(state, today).day = today
              /\ CashFlows(state, today).base = IF state.day = today THEN state.base ELSE state.last
    BY <1>0, CashFlowsRoll
  <2>2. store' = IF state' = state THEN store ELSE state'
    BY <1>5 DEF Wake
  <2>3. held' \in [Tasks -> {0, today}]
    BY <1>0, <1>5 DEF Wake
  <2>4. QED
    BY <1>0, <1>5, <1>a, <2>1, <2>2, <2>3, WorkKeepsDay DEF Wake, Become
<1>6. CASE Sleep
  <2>1. held' \in [Tasks -> {0, today}]
    BY <1>0, <1>6 DEF Sleep
  <2>2. QED
    BY <1>0, <1>6, <2>1, RestKeepsDay DEF Sleep, history
<1>7. ASSUME NEW b \in BOOLEAN, phase = "run", Become([state EXCEPT !.halted = b]), store' = state',
             UNCHANGED <<today, flows, phase, taskVars, kept>>
      PROVE  DayInv'
  <2> DEFINE s == [state EXCEPT !.halted = b]
  <2>1. s \in Records /\ s.day = state.day /\ s.base = state.base /\ s.last = state.last
    BY <1>0 DEF Records
  <2>2. Become(s) /\ store' = s
    BY <1>7 DEF Become
  <2> HIDE DEF s
  <2>3. QED
    BY <1>0, <1>7, <1>a, <2>1, <2>2, WorkKeepsDay DEF taskVars
<1>8. CASE Halt \/ Resume
  BY <1>7, <1>8 DEF Halt, Resume
<1>9. CASE Start
  BY <1>9 DEF Start, history, taskVars, DayInv, TypesFit, BaseByPhase, BaseSaved, NoDayAhead
<1>10. ASSUME NEW lost \in BOOLEAN, SellAtStart(lost) PROVE DayInv'
  <2>1. store.day < today /\ phase = "starting"
    BY <1>10, NoFaults DEF SellAtStart, NoFaults
  <2>2. began[today] = 0 /\ state.base = 0 /\ state.last = 0
    BY <1>0, <2>1 DEF DayInv, BaseSaved, BaseByPhase, Records
  <2>3. SameDay(state, Traded(state, lost, today), today, state.last)
        /\ Traded(state, lost, today).last = state.last
    BY <1>0, TradedRolls
  <2>4. state'.base = 0 /\ state'.last = 0 /\ state' \in Records /\ began' = began
    BY <1>10, <2>2, <2>3 DEF SellAtStart, Become, SameDay
  <2>5. QED
    BY <1>10, <2>1, <2>2, <2>4
       DEF SellAtStart, taskVars, DayInv, TypesFit, BaseByPhase, BaseSaved, NoDayAhead
<1>11. ASSUME NEW e \in KnownOrNot, BeginRebuild(e) PROVE DayInv'
  <2>1. /\ Restored(e) \in Records /\ Restored(e).day = today
        /\ Restored(e).base = IF store.day = today /\ store.base # 0 THEN store.base ELSE e
    <3> DEFINE same == store.day = today
               b == IF same /\ store.base # 0 THEN store.base ELSE e
               f == IF same THEN store.flow ELSE 0
               c == IF same THEN store.cursor ELSE -1
    <3>1. e \in Nat /\ b \in Nat /\ f \in Int /\ c \in Int /\ store.halted \in BOOLEAN
      BY <1>0 DEF Records
    <3>2. Restored(e) = [Fresh EXCEPT !.day = today, !.base = b, !.halted = store.halted,
                                      !.flow = f, !.cursor = c]
      BY DEF Restored
    <3>3. Fresh \in Records
      BY DEF Fresh, Records, Locks
    <3> HIDE DEF b, f, c
    <3>4. Restored(e) \in Records /\ Restored(e).day = today /\ Restored(e).base = b
      BY <1>0, <3>1, <3>2, <3>3 DEF Records
    <3>5. QED
      BY <3>4 DEF b
  <2>2. /\ state' = Restored(e) /\ phase = "starting" /\ phase' = "rebuild"
        /\ began' = IF state'.base # 0 /\ began[today] = 0
                    THEN [began EXCEPT ![today] = state'.base] ELSE began
        /\ kept' \in Locks /\ UNCHANGED <<today, flows, store, held>>
    BY <1>11, <2>1 DEF BeginRebuild, Become, taskVars, Locks
  <2>3. state'.base \in Nat \ {0}
    BY <1>0, <2>1, <2>2 DEF Records
  <2>4. state'.base = began'[today]
    BY <1>0, <2>1, <2>2, <2>3 DEF DayInv, TypesFit, BaseSaved
  <2>5. began' \in [Days -> Nat] /\ \A d \in Days : d > today => began'[d] = 0
    BY <1>0, <2>2, <2>3 DEF DayInv, TypesFit, NoDayAhead
  <2>6. QED
    BY <1>0, <2>1, <2>2, <2>3, <2>4, <2>5 DEF DayInv, TypesFit, BaseByPhase, BaseSaved, NoDayAhead
<1>12. CASE ReplayTrip
  <2>1. PICK lost : Become(Traded(state, lost, today))
    BY <1>12 DEF ReplayTrip
  <2>2. phase = "rebuild" /\ state.day = today /\ state.base # 0 /\ state.base = began[today]
    BY <1>12 DEF ReplayTrip, DayInv, BaseByPhase
  <2>3. SameDay(state, Traded(state, lost, today), today, state.last)
    BY <1>0, TradedRolls
  <2>4. state' \in Records /\ state'.day = today /\ state'.base = state.base /\ began' = began
    BY <2>1, <2>2, <2>3 DEF Become, SameDay
  <2>5. QED
    BY <1>12, <2>2, <2>4
       DEF ReplayTrip, taskVars, DayInv, TypesFit, BaseByPhase, BaseSaved, NoDayAhead
<1>13. ASSUME NEW e \in KnownOrNot, FinishRebuild(e) PROVE DayInv'
  <2> DEFINE s == [state EXCEPT !.lock = IF @ = "none" THEN kept ELSE @, !.last = e]
  <2>1. Restarted(s)
    BY <1>13 DEF FinishRebuild
  <2>2. phase = "rebuild" /\ state.day = today /\ state.base # 0 /\ state.base = began[today]
    BY <2>1 DEF Restarted, DayInv, BaseByPhase
  <2>3. s \in Records /\ s.day = today /\ s.base = state.base /\ s.last # 0
    BY <1>0, <2>2 DEF DayInv, TypesFit, Records
  <2> HIDE DEF s
  <2>4. /\ CashFlows(s, today) \in Records /\ CashFlows(s, today).last # 0
        /\ CashFlows(s, today).day = today /\ CashFlows(s, today).base = state.base
    BY <1>0, <2>3, CashFlowsRoll
  <2>5. /\ state' = CashFlows(s, today) /\ store' = state' /\ phase' = "run" /\ kept' = "none"
        /\ began' = began /\ UNCHANGED <<today, flows, held>>
    BY <2>1, <2>2, <2>4 DEF Restarted, Become, taskVars
  <2>6. QED
    BY <1>0, <2>2, <2>4, <2>5
       DEF DayInv, TypesFit, BaseByPhase, BaseSaved, NoDayAhead, Locks
<1>14. CASE Crash
  <2>1. phase # "rebuild"
    BY <1>14, NoFaults DEF Crash, NoFaults
  <2>2. Fresh \in Records /\ Fresh.base = 0 /\ Fresh.last = 0
    BY DEF Fresh, Records, Locks
  <2>3. QED
    BY <1>14, <2>1, <2>2
       DEF Crash, history, DayInv, TypesFit, BaseByPhase, BaseSaved, NoDayAhead, Locks
<1>15. CASE Midnight
  <2>1. phase # "rebuild" /\ today < MaxDays /\ today' = today + 1 /\ \A t \in Tasks : held[t] = 0
    BY <1>15, NoFaults DEF Midnight, NoFaults
  <2>2. today' \in Days /\ began[today'] = 0
    BY <1>0, <2>1, ConstantsAssumption DEF Days, DayInv, NoDayAhead
  <2>3. UNCHANGED <<flows, phase, state, store, held, kept, began>>
    BY <1>15 DEF Midnight, taskVars, history
  <2>4. (TypesFit /\ BaseByPhase)'
    BY <1>0, <2>1, <2>2, <2>3 DEF DayInv, TypesFit, BaseByPhase
  <2>5. (BaseSaved /\ NoDayAhead)'
    BY <1>0, <2>1, <2>2, <2>3 DEF DayInv, BaseSaved, NoDayAhead, Days
  <2>6. QED
    BY <2>4, <2>5 DEF DayInv
<1>16. CASE RecordFlow
  BY <1>0, <1>16, RestKeepsDay DEF RecordFlow, taskVars, history
<1>17. CASE EntryEnds \/ UNCHANGED vars
  BY <1>0, <1>17, RestKeepsDay DEF EntryEnds, vars, taskVars, history
<1>18. QED
  BY <1>1, <1>2, <1>3, <1>4, <1>5, <1>6, <1>8, <1>9, <1>10, <1>11, <1>12, <1>13,
     <1>14, <1>15, <1>16, <1>17
     DEF Next, Work, Startup, EnterPosition, RefuseEntry

\* DayStartKept: the daily loss is measured against the equity the day began
\* with, over any number of restarts, replays and midnights (risk/manager.py,
\* rebuild and _persist; state_store.py), when none of the faults happens.
THEOREM BaseOfTheDayKept == ASSUME NoFaults PROVE Spec => []DayStartKept
<1>1. DayInv /\ [Next]_vars => DayInv'
  BY DayStep
<1>2. Spec => []DayInv
  BY <1>1, DayInit, PTL DEF Spec
<1>3. DayInv => DayStartKept
  BY DEF DayInv, BaseByPhase, DayStartKept
<1>4. QED
  BY <1>2, <1>3, PTL

-----------------------------------------------------------------------------
(* The cash flows of the day, without faults.                              *)

FlowsOf(day) == {i \in 1..MaxFlows : day \in counted[i]}

\* A flow beyond the cursor is counted on no day.
CursorFits(s) ==
  /\ s.cursor \in -1..flows
  /\ s.cursor # -1 => \A i \in 1..MaxFlows : i > s.cursor => counted[i] = {}

\* A flow is counted on one day at most, which is no later than today.
CountedFits ==
  /\ counted \in [1..MaxFlows -> SUBSET Days]
  /\ flows \in 0..MaxFlows
  /\ \A i \in 1..MaxFlows : i > flows => counted[i] = {}
  /\ \A i \in 1..MaxFlows : counted[i] = {} \/ \E d \in Days : counted[i] = {d}
  /\ \A i \in 1..MaxFlows : \A d \in counted[i] : d <= today

\* The database knows the flow of today.
FlowSaved ==
  /\ store.day <= today
  /\ store.day = today => store.flow = Cardinality(FlowsOf(today))
  /\ store.day # today /\ phase # "rebuild" => FlowsOf(today) = {}

FlowByPhase ==
  /\ phase \in {"down", "starting"} => state.flow = 0 /\ state.cursor = -1
  /\ phase \in {"rebuild", "run"} => state.flow = Cardinality(FlowsOf(state.day))
  /\ phase = "run" =>
       state.cursor # -1 /\ store.flow = state.flow /\ store.cursor = state.cursor

FlowInv ==
  CursorFits(state) /\ CursorFits(store) /\ CountedFits /\ FlowSaved /\ FlowByPhase

\* The flows counted on a day are finitely many.
LEMMA FlowsFinite ==
  ASSUME NEW day PROVE IsFiniteSet(FlowsOf(day)) /\ Cardinality(FlowsOf(day)) \in Nat
<1>1. IsFiniteSet(1..MaxFlows) /\ FlowsOf(day) \in SUBSET (1..MaxFlows)
  BY ConstantsAssumption, FS_Interval DEF FlowsOf
<1>2. QED
  BY <1>1, FS_Subset, FS_CardinalityType

\* apply_cash_flows counts each flow behind the cursor on today, and the flows of
\* today grow by as many.
LEMMA CountAddsFlows ==
  ASSUME today \in Days, CountedFits, NEW s, CursorFits(s),
         today' = today, flows' = flows, counted' = CountedFrom(s)
  PROVE  /\ CountedFits'
         /\ s.cursor \in {-1, flows} => counted' = counted
         /\ \A d \in Days : d # today => FlowsOf(d)' = FlowsOf(d)
         /\ s.cursor # -1 => Cardinality(FlowsOf(today)') = Cardinality(FlowsOf(today)) + flows - s.cursor
<1> DEFINE new == IF s.cursor = -1 THEN {} ELSE (s.cursor + 1)..flows
<1>1. /\ flows \in Nat /\ flows <= MaxFlows /\ MaxFlows \in Nat /\ s.cursor \in -1..flows
      /\ counted \in [1..MaxFlows -> SUBSET Days]
  BY ConstantsAssumption DEF CountedFits, CursorFits
<1>2. new \in SUBSET (1..MaxFlows) /\ \A i \in new : i <= flows /\ counted[i] = {}
  BY <1>1 DEF CursorFits
<1>3. \A i \in 1..MaxFlows : counted'[i] = IF i \in new THEN counted[i] \cup {today} ELSE counted[i]
  BY <1>1 DEF CountedFrom
<1>4. counted' \in [1..MaxFlows -> SUBSET Days]
  <2>1. counted' = [i \in 1..MaxFlows |-> IF i \in new THEN counted[i] \cup {today} ELSE counted[i]]
    BY <1>1 DEF CountedFrom
  <2> HIDE DEF new
  <2>2. QED
    BY <1>1, <2>1
<1> HIDE DEF new
<1>5. \A i \in new : counted'[i] = {today}
  BY <1>2, <1>3
<1>6. \A i \in 1..MaxFlows : i \notin new => counted'[i] = counted[i]
  BY <1>3
<1>7. CountedFits'
  <2>1. \A i \in 1..MaxFlows : i > flows => counted'[i] = {}
    BY <1>1, <1>2, <1>6 DEF CountedFits
  <2>2. \A i \in 1..MaxFlows : counted'[i] = {} \/ \E d \in Days : counted'[i] = {d}
    BY <1>5, <1>6 DEF CountedFits
  <2>3. \A i \in 1..MaxFlows : \A d \in counted'[i] : d <= today
    <3>1. today <= today
      BY ConstantsAssumption DEF Days
    <3>2. QED
      BY <1>5, <1>6, <3>1 DEF CountedFits
  <2>4. flows' \in 0..MaxFlows
    BY DEF CountedFits
  <2>5. QED
    BY <1>4, <2>1, <2>2, <2>3, <2>4 DEF CountedFits
<1>8. s.cursor \in {-1, flows} => counted' = counted
  <2>1. s.cursor \in {-1, flows} => new = {}
    BY <1>1 DEF new
  <2>2. QED
    BY <1>1, <1>4, <1>6, <2>1
<1>9. \A d \in Days : d # today => FlowsOf(d)' = FlowsOf(d)
  <2>1. \A d \in Days : d # today => \A i \in 1..MaxFlows : d \in counted'[i] <=> d \in counted[i]
    BY <1>3
  <2>2. QED
    BY <2>1 DEF FlowsOf
<1>10. FlowsOf(today)' = FlowsOf(today) \cup new /\ FlowsOf(today) \cap new = {}
  BY <1>2, <1>3 DEF FlowsOf
<1>11. ASSUME s.cursor # -1
       PROVE  Cardinality(FlowsOf(today)') = Cardinality(FlowsOf(today)) + flows - s.cursor
  <2>1. s.cursor \in Nat /\ s.cursor <= flows /\ new = (s.cursor + 1)..flows
    BY <1>1, <1>11 DEF new
  <2>2. IsFiniteSet(new) /\ Cardinality(new) = flows - s.cursor
    <3> DEFINE first == s.cursor + 1
    <3>1. first \in Int /\ flows \in Int
      BY <1>1, <2>1
    <3> HIDE DEF first
    <3>2. /\ IsFiniteSet(first..flows)
          /\ Cardinality(first..flows) = IF first > flows THEN 0 ELSE flows - first + 1
      BY <3>1, FS_Interval
    <3>3. QED
      BY <1>1, <2>1, <3>1, <3>2 DEF first
  <2>3. Cardinality(FlowsOf(today) \cup new)
          = Cardinality(FlowsOf(today)) + Cardinality(new) - Cardinality({})
    BY <1>10, <2>2, FlowsFinite, FS_Union
  <2>4. Cardinality({}) = 0 /\ Cardinality(FlowsOf(today)) \in Nat
    BY FS_EmptySet, FlowsFinite
  <2>5. QED
    BY <1>1, <1>10, <2>1, <2>2, <2>3, <2>4
<1>12. QED
  BY <1>7, <1>8, <1>9, <1>11

\* A step of the engine at work that counts nothing.
LEMMA WorkKeepsFlow ==
  ASSUME DayInv, FlowInv, NEW s \in Records, state' = s, phase = "run", phase' = "run",
         today' = today, flows' = flows, counted' = counted,
         store' \in Records, store'.day = s.day, store'.flow = s.flow, store'.cursor = s.cursor,
         s.cursor = state.cursor,
         \/ s.day = state.day /\ s.flow = state.flow
         \/ s.day = today /\ s.day # state.day /\ s.flow = 0
  PROVE  FlowInv'
<1>1. /\ state.day \in 1..today /\ store.day = state.day /\ today \in Nat /\ state.cursor # -1
      /\ state.flow = Cardinality(FlowsOf(state.day))
  BY ConstantsAssumption DEF DayInv, TypesFit, BaseByPhase, Days, FlowInv, FlowByPhase
<1>2. \A d : FlowsOf(d)' = FlowsOf(d)
  BY DEF FlowsOf
<1>3. s.flow = Cardinality(FlowsOf(s.day))
  <2>1. CASE s.day = today /\ s.day # state.day /\ s.flow = 0
    BY <1>1, <2>1, FS_EmptySet DEF FlowInv, FlowSaved
  <2>2. QED
    BY <1>1, <2>1
<1>4. s.day # today => FlowsOf(today) = {}
  BY <1>1 DEF FlowInv, FlowSaved
<1>5. CursorFits(state)' /\ CursorFits(store)' /\ CountedFits'
  BY DEF FlowInv, CursorFits, CountedFits
<1>6. FlowSaved'
  BY <1>1, <1>2, <1>3, <1>4 DEF FlowSaved
<1>7. FlowByPhase'
  BY <1>1, <1>2, <1>3 DEF FlowByPhase
<1>8. QED
  BY <1>5, <1>6, <1>7 DEF FlowInv

\* Steps that leave memory, the database, the days and the flows alone.
LEMMA RestKeepsFlow ==
  ASSUME FlowInv, UNCHANGED <<today, flows, phase, state, store, counted>>
  PROVE  FlowInv'
<1>1. \A d : FlowsOf(d)' = FlowsOf(d)
  BY DEF FlowsOf
<1>2. QED
  BY <1>1 DEF FlowInv, CursorFits, CountedFits, FlowSaved, FlowByPhase

\* What update_equity saves has the flow and the cursor of memory.
LEMMA MarkedStoreFlow ==
  ASSUME NEW s \in Records, NEW day \in Nat, NEW equity \in Nat \ {0}, s.base # 0,
         store.day = s.day, store.flow = s.flow, store.cursor = s.cursor
  PROVE  /\ MarkedStore(s, equity, day).flow = Marked(s, equity, day).flow
         /\ MarkedStore(s, equity, day).cursor = Marked(s, equity, day).cursor
<1>1. SameDay(s, Marked(s, equity, day), day, equity)
  BY MarkedRolls
<1>2. SameDay(s, StartDay(s, day, equity), day, equity)
  BY StartDayRolls
<1>3. QED
  BY <1>1, <1>2 DEF MarkedStore, SameDay

\* No flow is counted before the first start.
LEMMA FlowInit == Init => FlowInv
<1> SUFFICES ASSUME Init PROVE FlowInv
  OBVIOUS
<1>1. Fresh.cursor = -1 /\ Fresh.flow = 0 /\ Fresh.day = 0
  BY DEF Fresh
<1>2. today = 1 /\ flows = 0 /\ state = Fresh /\ store = Fresh /\ phase = "down"
      /\ counted = [i \in 1..MaxFlows |-> {}] /\ MaxFlows \in Nat
  BY ConstantsAssumption DEF Init
<1>3. CountedFits
  BY <1>2 DEF CountedFits
<1>4. \A d : FlowsOf(d) = {}
  BY <1>2 DEF FlowsOf
<1>5. CursorFits(state) /\ CursorFits(store)
  BY <1>1, <1>2 DEF CursorFits
<1>6. FlowSaved /\ FlowByPhase
  BY <1>1, <1>2, <1>4 DEF FlowSaved, FlowByPhase
<1>7. QED
  BY <1>3, <1>5, <1>6 DEF FlowInv

\* Every step keeps the invariant.
LEMMA FlowStep == ASSUME NoFaults PROVE DayInv /\ FlowInv /\ [Next]_vars => FlowInv'
<1> SUFFICES ASSUME DayInv, FlowInv, [Next]_vars PROVE FlowInv'
  OBVIOUS
<1>0. /\ today \in Days /\ today \in Nat \ {0} /\ flows \in Nat
      /\ state \in Records /\ store \in Records /\ Equities \subseteq Nat \ {0}
      /\ KnownOrNot = Equities
      /\ held \in [Tasks -> {0, today}]
  BY ConstantsAssumption, NoFaults DEF DayInv, TypesFit, NoDayAhead, Days, KnownOrNot, NoFaults
<1>a. phase = "run" =>
        /\ state.day \in 1..today /\ state.last \in Nat /\ state.base # 0
        /\ store.day = state.day /\ store.base = state.base
        /\ store.flow = state.flow /\ store.cursor = state.cursor
        /\ state.cursor \in 0..flows /\ state.flow = Cardinality(FlowsOf(state.day))
  BY <1>0 DEF DayInv, BaseByPhase, Records, FlowInv, FlowByPhase, CursorFits
<1>b. \A s \in Records : \A day, equity : SameDay(state, s, day, equity) =>
        \/ s.day = state.day /\ s.flow = state.flow
        \/ s.day = day /\ s.day # state.day /\ s.flow = 0
  BY DEF SameDay
<1>1. ASSUME NEW e \in Equities, Tick(e) \/ MainMarks(e) PROVE FlowInv'
  <2>1. phase = "run" /\ phase' = "run" /\ e \in Nat \ {0}
    BY <1>0, <1>1 DEF Tick, MainMarks, MainAtWork
  <2>2. /\ state' = Marked(state, e, today) /\ store' = MarkedStore(state, e, today)
        /\ UNCHANGED <<today, flows, counted>>
    BY <1>0, <1>1 DEF Tick, MainMarks, MainAtWork, Become, taskVars, Tasks
  <2>3. SameDay(state, Marked(state, e, today), today, e)
    BY <1>0, <1>a, <2>1, MarkedRolls
  <2>4. MarkedStore(state, e, today) \in Records /\ MarkedStore(state, e, today).day = today
    BY <1>0, <1>a, <2>1, MarkedStoreRolls
  <2>5. /\ MarkedStore(state, e, today).flow = Marked(state, e, today).flow
        /\ MarkedStore(state, e, today).cursor = Marked(state, e, today).cursor
    BY <1>0, <1>a, <2>1, MarkedStoreFlow
  <2>6. state' \in Records /\ state'.day = today /\ state'.cursor = state.cursor
    BY <2>2, <2>3 DEF SameDay
  <2>7. QED
    BY <1>b, <2>1, <2>2, <2>3, <2>4, <2>5, <2>6, WorkKeepsFlow
<1>2. ASSUME NEW e \in Equities, Evaluate(e) PROVE FlowInv'
  <2>1. /\ phase = "run" /\ phase' = "run" /\ held["main"] = today
        /\ state' = StartDay(state, today, e)
        /\ store' = IF state.day # today THEN state' ELSE store
        /\ UNCHANGED <<today, flows, counted>>
    BY <1>0, <1>2 DEF Evaluate, MainAtWork, Become, Tasks
  <2>2. SameDay(state, StartDay(state, today, e), today, e)
    BY <1>0, StartDayRolls
  <2>3. state' \in Records /\ store' \in Records /\ store'.day = state'.day
        /\ store'.flow = state'.flow /\ store'.cursor = state'.cursor
    BY <1>0, <1>a, <2>1, <2>2 DEF SameDay
  <2>4. QED
    BY <1>b, <2>1, <2>2, <2>3, WorkKeepsFlow DEF SameDay
<1>3. ASSUME NEW t \in Tasks, NEW lost \in BOOLEAN, Sell(t, lost) PROVE FlowInv'
  <2>1. /\ phase = "run" /\ phase' = "run" /\ held[t] = today
        /\ state' = Traded(state, lost, today) /\ store' = state'
        /\ UNCHANGED <<today, flows, counted>>
    BY <1>0, <1>3 DEF Sell, Become
  <2>2. SameDay(state, state', today, state.last)
    BY <1>0, <2>1, TradedRolls
  <2>3. QED
    BY <1>b, <2>1, <2>2, WorkKeepsFlow DEF SameDay
<1>4. ASSUME NEW b \in BOOLEAN, phase = "run", state' = [state EXCEPT !.halted = b],
             store' = state', UNCHANGED <<today, flows, phase, counted>>
      PROVE  FlowInv'
  <2>1. /\ state' \in Records /\ state'.day = state.day
        /\ state'.flow = state.flow /\ state'.cursor = state.cursor
    BY <1>0, <1>4 DEF Records
  <2>2. QED
    BY <1>4, <2>1, WorkKeepsFlow
<1>5. CASE Halt \/ Resume
  BY <1>4, <1>5 DEF Halt, Resume, Become
<1>6. CASE Wake
  <2>0. PICK c : c = CashFlows(state, today)
    OBVIOUS
  <2>1. /\ phase = "run" /\ phase' = "run" /\ state' = c /\ counted' = CountedFrom(state)
        /\ store' = IF c = state THEN store ELSE c
        /\ UNCHANGED <<today, flows>>
    BY <1>6, <2>0 DEF Wake, Become
  <2>2. /\ c \in Records /\ c.cursor = flows
        /\ IF state.cursor \in {-1, flows}
           THEN c.day = state.day /\ c.flow = state.flow
           ELSE /\ c.day = today
                /\ c.flow = (IF state.day = today THEN state.flow ELSE 0) + flows - state.cursor
    BY <1>0, <2>0, CashFlowsRoll
  <2>3. /\ CountedFits'
        /\ state.cursor \in {-1, flows} => counted' = counted
        /\ state.cursor # -1 =>
             Cardinality(FlowsOf(today)') = Cardinality(FlowsOf(today)) + flows - state.cursor
    BY <1>0, <2>1, CountAddsFlows DEF FlowInv
  <2>4. store' \in Records /\ store'.day = c.day /\ store'.flow = c.flow /\ store'.cursor = flows
    BY <1>0, <1>a, <2>1, <2>2
  <2>5. c.flow = Cardinality(FlowsOf(c.day)')
    <3>1. CASE state.cursor = flows
      <4>1. FlowsOf(c.day)' = FlowsOf(c.day)
        BY <2>1, <2>3, <3>1 DEF FlowsOf
      <4>2. QED
        BY <1>a, <2>1, <2>2, <3>1, <4>1
    <3>2. CASE state.cursor # flows
      <4>1. c.day = today /\ c.flow = (IF state.day = today THEN state.flow ELSE 0) + flows - state.cursor
            /\ state.cursor # -1
        BY <1>a, <2>1, <2>2, <3>2
      <4>2. (IF state.day = today THEN state.flow ELSE 0) = Cardinality(FlowsOf(today))
        BY <1>a, <2>1, FS_EmptySet DEF FlowInv, FlowSaved
      <4>3. QED
        BY <2>1, <2>3, <4>1, <4>2
    <3>3. QED
      BY <3>1, <3>2
  <2>6. c.day # today => FlowsOf(today)' = {}
    <3>1. c.day # today => state.cursor = flows /\ c.day = state.day
      BY <1>a, <2>1, <2>2
    <3>2. c.day # today => FlowsOf(today)' = FlowsOf(today)
      BY <2>1, <2>3, <3>1 DEF FlowsOf
    <3>3. QED
      BY <1>a, <2>1, <3>1, <3>2 DEF FlowInv, FlowSaved
  <2>7. c.day <= today /\ flows # -1
    BY <1>0, <1>a, <2>1, <2>2
  <2>8. CursorFits(state)' /\ CursorFits(store)'
    BY <1>0, <2>1, <2>2, <2>3, <2>4 DEF CursorFits, CountedFits
  <2>9. FlowSaved'
    BY <2>1, <2>4, <2>5, <2>6, <2>7 DEF FlowSaved
  <2>10. FlowByPhase'
    BY <2>1, <2>2, <2>4, <2>5, <2>7 DEF FlowByPhase
  <2>11. QED
    BY <2>3, <2>8, <2>9, <2>10 DEF FlowInv
<1>7. CASE Sleep \/ EntryEnds \/ UNCHANGED vars
  BY <1>7, RestKeepsFlow DEF Sleep, EntryEnds, vars, history, taskVars
<1>8. CASE Start
  <2>1. \A d : FlowsOf(d)' = FlowsOf(d)
    BY <1>8 DEF Start, history, FlowsOf
  <2>2. QED
    BY <1>8, <2>1
       DEF Start, history, FlowInv, CursorFits, CountedFits, FlowSaved, FlowByPhase
<1>9. ASSUME NEW lost \in BOOLEAN, SellAtStart(lost) PROVE FlowInv'
  <2>1. /\ store.day < today /\ phase = "starting" /\ phase' = phase
        /\ state' = Traded(state, lost, today) /\ store' = state'
        /\ UNCHANGED <<today, flows, counted>>
    BY <1>9, NoFaults DEF SellAtStart, NoFaults, Become
  <2>2. SameDay(state, state', today, state.last)
    BY <1>0, <2>1, TradedRolls
  <2>3. state'.flow = 0 /\ state'.cursor = -1 /\ state'.day = today
    BY <2>1, <2>2 DEF SameDay, FlowInv, FlowByPhase
  <2>4. FlowsOf(today) = {} /\ FlowsOf(today)' = FlowsOf(today)
    BY <1>0, <2>1 DEF FlowInv, FlowSaved, FlowsOf, Records
  <2>5. CursorFits(state)' /\ CursorFits(store)' /\ CountedFits'
    BY <1>0, <2>1, <2>3 DEF CursorFits, CountedFits, FlowInv
  <2>6. FlowSaved' /\ FlowByPhase'
    BY <1>0, <2>1, <2>3, <2>4, FS_EmptySet DEF FlowSaved, FlowByPhase
  <2>7. QED
    BY <2>5, <2>6 DEF FlowInv
<1>10. ASSUME NEW e \in KnownOrNot, BeginRebuild(e) PROVE FlowInv'
  <2>1. /\ phase = "starting" /\ phase' = "rebuild" /\ state' = Restored(e)
        /\ UNCHANGED <<today, flows, store, counted>>
    BY <1>10 DEF BeginRebuild, Become
  <2>2. /\ state'.day = today
        /\ state'.flow = IF store.day = today THEN store.flow ELSE 0
        /\ state'.cursor = IF store.day = today THEN store.cursor ELSE -1
    BY <2>1 DEF Restored, Fresh
  <2>3. \A d : FlowsOf(d)' = FlowsOf(d)
    BY <2>1 DEF FlowsOf
  <2>4. state'.flow = Cardinality(FlowsOf(today))
    BY <2>1, <2>2, FS_EmptySet DEF FlowInv, FlowSaved
  <2>5. CursorFits(state)' /\ CursorFits(store)' /\ CountedFits'
    BY <1>0, <2>1, <2>2 DEF FlowInv, CursorFits, CountedFits
  <2>6. FlowSaved' /\ FlowByPhase'
    BY <2>1, <2>2, <2>3, <2>4 DEF FlowInv, FlowSaved, FlowByPhase
  <2>7. QED
    BY <2>5, <2>6 DEF FlowInv
<1>11. CASE ReplayTrip
  <2>1. PICK lost : state' = Traded(state, lost, today)
    BY <1>11 DEF ReplayTrip, Become
  <2>2. phase = "rebuild" /\ phase' = phase /\ state.day = today /\ store' = state'
        /\ UNCHANGED <<today, flows, counted>>
    BY <1>11 DEF ReplayTrip, DayInv, BaseByPhase
  <2>3. SameDay(state, state', today, state.last)
    BY <1>0, <2>1, TradedRolls
  <2>4. state'.day = today /\ state'.flow = Cardinality(FlowsOf(today)) /\ state'.cursor = state.cursor
    BY <2>2, <2>3 DEF SameDay, FlowInv, FlowByPhase
  <2>5. FlowsOf(today)' = FlowsOf(today)
    BY <2>2 DEF FlowsOf
  <2>6. CursorFits(state)' /\ CursorFits(store)' /\ CountedFits'
    BY <2>2, <2>4 DEF FlowInv, CursorFits, CountedFits
  <2>7. FlowSaved' /\ FlowByPhase'
    BY <1>0, <2>2, <2>4, <2>5 DEF FlowSaved, FlowByPhase
  <2>8. QED
    BY <2>6, <2>7 DEF FlowInv
<1>12. ASSUME NEW e \in KnownOrNot, FinishRebuild(e) PROVE FlowInv'
  <2> DEFINE s == [state EXCEPT !.lock = IF @ = "none" THEN kept ELSE @, !.last = e]
             c == CashFlows(s, today)
  <2>1. Restarted(s)
    BY <1>12 DEF FinishRebuild
  <2>2. /\ phase = "rebuild" /\ phase' = "run" /\ state' = c /\ store' = c
        /\ counted' = CountedFrom(s) /\ state.day = today
        /\ UNCHANGED <<today, flows>>
    BY <2>1 DEF Restarted, Become, DayInv, BaseByPhase
  <2>3. s \in Records /\ s.day = today /\ s.flow = state.flow /\ s.cursor = state.cursor
    BY <1>0, <2>2 DEF DayInv, TypesFit, Records
  <2>4. /\ c \in Records /\ c.cursor = flows /\ c.day = today
        /\ c.flow = IF s.cursor \in {-1, flows} THEN s.flow ELSE s.flow + flows - s.cursor
    <3> HIDE DEF s
    <3>1. QED
      BY <1>0, <2>3, CashFlowsRoll
  <2>5. CursorFits(s) /\ CountedFits /\ s.flow = Cardinality(FlowsOf(today))
    BY <2>2, <2>3 DEF FlowInv, CursorFits, FlowByPhase
  <2> HIDE DEF s
  <2>6. /\ CountedFits'
        /\ s.cursor \in {-1, flows} => counted' = counted
        /\ s.cursor # -1 => Cardinality(FlowsOf(today)') = Cardinality(FlowsOf(today)) + flows - s.cursor
    BY <1>0, <2>2, <2>5, CountAddsFlows
  <2>7. c.flow = Cardinality(FlowsOf(today)')
    <3>1. s.cursor \in {-1, flows} => FlowsOf(today)' = FlowsOf(today)
      BY <2>2, <2>6 DEF FlowsOf
    <3>2. QED
      BY <2>4, <2>5, <2>6, <3>1
  <2> HIDE DEF c
  <2>8. CursorFits(state)' /\ CursorFits(store)'
    BY <1>0, <2>2, <2>4, <2>6 DEF CursorFits, CountedFits
  <2>9. FlowSaved' /\ FlowByPhase'
    BY <1>0, <2>2, <2>4, <2>7 DEF FlowSaved, FlowByPhase
  <2>10. QED
    BY <2>6, <2>8, <2>9 DEF FlowInv
<1>13. CASE Crash
  <2>1. /\ phase # "rebuild" /\ phase' = "down" /\ state' = Fresh
        /\ UNCHANGED <<today, flows, store, counted>>
    BY <1>13, NoFaults DEF Crash, NoFaults, history
  <2>2. Fresh.flow = 0 /\ Fresh.cursor = -1
    BY DEF Fresh
  <2>3. \A d : FlowsOf(d)' = FlowsOf(d)
    BY <2>1 DEF FlowsOf
  <2>4. QED
    BY <1>0, <2>1, <2>2, <2>3
       DEF FlowInv, CursorFits, CountedFits, FlowSaved, FlowByPhase
<1>14. CASE Midnight
  <2>1. /\ phase # "rebuild" /\ today' = today + 1 /\ today' \in Days
        /\ UNCHANGED <<flows, phase, state, store, counted>>
    BY <1>0, <1>14, ConstantsAssumption DEF Midnight, history, Days
  <2>2. \A d : FlowsOf(d)' = FlowsOf(d)
    BY <2>1 DEF FlowsOf
  <2>3. FlowsOf(today + 1) = {}
    BY <1>0 DEF FlowInv, CountedFits, FlowsOf
  <2>4. CountedFits'
    <3>1. \A i \in 1..MaxFlows : \A d \in counted[i] : d <= today + 1
      BY <1>0 DEF FlowInv, CountedFits, Days
    <3>2. QED
      BY <2>1, <3>1 DEF FlowInv, CountedFits
  <2>5. store.day <= today /\ store.day \in Nat
    BY <1>0 DEF FlowInv, FlowSaved, Records
  <2>6. FlowSaved'
    BY <1>0, <2>1, <2>2, <2>3, <2>5 DEF FlowSaved
  <2>7. CursorFits(state)' /\ CursorFits(store)' /\ FlowByPhase'
    BY <2>1, <2>2 DEF FlowInv, CursorFits, FlowByPhase
  <2>8. QED
    BY <2>4, <2>6, <2>7 DEF FlowInv
<1>15. CASE RecordFlow
  <2>1. /\ flows' = flows + 1 /\ flows' \in 0..MaxFlows
        /\ UNCHANGED <<today, phase, state, store, counted>>
    BY <1>0, <1>15, ConstantsAssumption DEF RecordFlow, history
  <2>2. \A d : FlowsOf(d)' = FlowsOf(d)
    BY <2>1 DEF FlowsOf
  <2>3. CountedFits'
    BY <1>0, <2>1 DEF FlowInv, CountedFits
  <2>4. CursorFits(state)' /\ CursorFits(store)'
    BY <1>0, <2>1 DEF FlowInv, CursorFits
  <2>5. FlowSaved' /\ FlowByPhase'
    BY <2>1, <2>2 DEF FlowInv, FlowSaved, FlowByPhase
  <2>6. QED
    BY <2>3, <2>4, <2>5 DEF FlowInv
<1>16. QED
  BY <1>1, <1>2, <1>3, <1>5, <1>6, <1>7, <1>8, <1>9, <1>10, <1>11, <1>12, <1>13, <1>14, <1>15
     DEF Next, Work, Startup, EnterPosition, RefuseEntry

\* FlowsCountedOnce: the flow of the day is the flows counted on it, and a flow is
\* counted on one day at most, over any number of restarts and midnights
\* (engine.py, apply_cash_flows; risk/manager.py, rebuild), without faults.
THEOREM FlowsCounted == ASSUME NoFaults PROVE Spec => []FlowsCountedOnce
<1>1. DayInv /\ FlowInv /\ [Next]_vars => DayInv' /\ FlowInv'
  BY DayStep, FlowStep
<1>2. Spec => [](DayInv /\ FlowInv)
  BY <1>1, DayInit, FlowInit, PTL DEF Spec
<1>3. ASSUME FlowInv PROVE FlowsCountedOnce
  <2>1. phase = "run" => state.flow = Cardinality({i \in 1..MaxFlows : state.day \in counted[i]})
    BY <1>3 DEF FlowInv, FlowByPhase, FlowsOf
  <2>2. \A i \in 1..MaxFlows : Cardinality(counted[i]) <= 1
    <3>1. SUFFICES ASSUME NEW i \in 1..MaxFlows PROVE Cardinality(counted[i]) <= 1
      OBVIOUS
    <3>2. counted[i] = {} \/ \E d \in Days : counted[i] = {d}
      BY <1>3 DEF FlowInv, CountedFits
    <3>3. Cardinality(counted[i]) \in {0, 1}
      BY <3>2, FS_EmptySet, FS_Singleton
    <3>4. QED
      BY <3>3
  <2>3. QED
    BY <2>1, <2>2 DEF FlowsCountedOnce
<1>4. QED
  BY <1>2, <1>3, PTL

-----------------------------------------------------------------------------
(* The losses of the day and the days that are closed, without faults.     *)

\* What is known of a round trip.
Sales == [day : Nat, lost : BOOLEAN]

\* The trips of a day, and of some trips those that lost since the last one
\* that did not; some trips hold a streak if the limit was reached at one of them.
MineOf(ts, day) == {i \in DOMAIN ts : ts[i].day = day}
TrailOf(ts, done) == {i \in done : \A k \in done : i <= k => ts[k].lost}
LossesOf(ts, done) == Cardinality(TrailOf(ts, done))
UpTo(ts, day, n) == {i \in MineOf(ts, day) : i <= n}
StreakIn(ts, day, done) == \E n \in done : LossesOf(ts, UpTo(ts, day, n)) >= MaxLosses

\* No trip lies ahead of the stored day; what is still to be replayed are the
\* later ones of today's trips.
TripsFit ==
  /\ trips \in Seq(Sales)
  /\ \A i \in DOMAIN trips : trips[i].day <= today
  /\ phase # "rebuild" =>
       /\ store.day <= today
       /\ \A i \in DOMAIN trips : trips[i].day <= store.day
  /\ phase = "rebuild" =>
       /\ replay \subseteq MineOf(trips, today)
       /\ \A r \in replay, k \in MineOf(trips, today) : r <= k => k \in replay

Replayed == MineOf(trips, today) \ replay

\* What memory says of the losses in each phase.
LossByPhase ==
  /\ phase = "run" => state.losses = LossesOf(trips, MineOf(trips, state.day))
  /\ phase = "rebuild" => state.losses = LossesOf(trips, Replayed)
  /\ phase \in {"down", "starting"} => state.day <= store.day

\* A closed day is locked in the database, and in memory while the engine
\* works; what rebuild does not put back it finds in the trips again.
LocksKept ==
  /\ \A d \in closed : d \in Nat /\ d <= today
  /\ phase # "rebuild" =>
       /\ today \in closed => store.day = today /\ store.lock # "none"
       /\ store.day = today /\ store.lock = "consecutive"
          => StreakIn(trips, today, MineOf(trips, today))
  /\ phase = "run" => store.lock = state.lock
  /\ phase = "rebuild" =>
       /\ kept \in {"none", "daily"} /\ state.lock \in {"none", "consecutive"}
       /\ today \in closed =>
            \/ kept = "daily" \/ state.lock # "none"
            \/ StreakIn(trips, today, MineOf(trips, today))
       /\ state.lock = "consecutive" => StreakIn(trips, today, MineOf(trips, today))
       /\ StreakIn(trips, today, Replayed) => state.lock # "none"

LossInv == TripsFit /\ LossByPhase /\ LocksKept

-----------------------------------------------------------------------------
(* What the methods of RiskManager make of the losses and the lock.        *)

LossesOn(s, day) == IF s.day = day THEN s.losses ELSE 0
LockOn(s, day) == IF s.day = day THEN s.lock ELSE "none"

\* A new day begins without a loss and without a lock (start_day_if_needed).
LEMMA StartDayCounts ==
  ASSUME NEW s \in Records, NEW day \in Nat, NEW equity \in Nat
  PROVE  LET d == StartDay(s, day, equity)
         IN  d.losses = LossesOn(s, day) /\ d.lock = LockOn(s, day)
<1> DEFINE new == [s EXCEPT !.day = day, !.base = equity, !.losses = 0, !.lock = "none", !.flow = 0]
<1>1. new.losses = 0 /\ new.lock = "none"
  BY DEF Records
<1> HIDE DEF new
<1>2. StartDay(s, day, equity) = IF s.day = day THEN s ELSE new
  BY DEF StartDay, new
<1> QED
  BY <1>1, <1>2 DEF LossesOn, LockOn

\* A measurement counts no loss, and may lock the day if nothing does (update_equity).
LEMMA MarkedCounts ==
  ASSUME NEW s \in Records, NEW day \in Nat, NEW equity \in Nat \ {0}
  PROVE  LET m == Marked(s, equity, day)
         IN  /\ m.losses = LossesOn(s, day)
             /\ m.lock = LockOn(s, day) \/ (LockOn(s, day) = "none" /\ m.lock = "daily")
<1> DEFINE d == StartDay(s, day, equity)
           m == [d EXCEPT !.base = IF @ = 0 THEN equity ELSE @, !.last = equity]
<1>1. d \in Records /\ d.losses = LossesOn(s, day) /\ d.lock = LockOn(s, day)
  BY StartDayCounts, StartDayRolls DEF SameDay
<1>2. Marked(s, equity, day) = IF OverLimit(m, equity) THEN [m EXCEPT !.lock = "daily"] ELSE m
  BY DEF Marked, d
<1> HIDE DEF d
<1>3. m.losses = d.losses /\ m.lock = d.lock /\ "lock" \in DOMAIN m
  BY <1>1 DEF Records
<1>4. OverLimit(m, equity) => m.lock = "none"
  BY DEF OverLimit
<1> HIDE DEF m
<1>5. [m EXCEPT !.lock = "daily"].lock = "daily" /\ [m EXCEPT !.lock = "daily"].losses = m.losses
  BY <1>3
<1>6. CASE OverLimit(m, equity)
  <2>1. Marked(s, equity, day) = [m EXCEPT !.lock = "daily"]
    BY <1>2, <1>6
  <2>2. LockOn(s, day) = "none" /\ m.losses = LossesOn(s, day)
    BY <1>1, <1>3, <1>4, <1>6
  <2>3. Marked(s, equity, day).lock = "daily" /\ Marked(s, equity, day).losses = LossesOn(s, day)
    BY <1>5, <2>1, <2>2
  <2> QED
    BY <2>2, <2>3
<1>7. CASE ~OverLimit(m, equity)
  BY <1>1, <1>2, <1>3, <1>7
<1> QED
  BY <1>6, <1>7

\* What is not saved is in the database already (update_equity).
LEMMA MarkedStoreCounts ==
  ASSUME NEW s \in Records, NEW day \in Nat, NEW equity \in Nat \ {0}, store.lock = s.lock
  PROVE  MarkedStore(s, equity, day).lock = Marked(s, equity, day).lock
<1>1. StartDay(s, day, equity).lock = LockOn(s, day)
  BY StartDayCounts
<1> QED
  BY <1>1 DEF MarkedStore, LockOn

\* A loss is added to those of the day, a gain ends them; the limit locks the day
\* unless something else does (record_trade).
LEMMA TradedCounts ==
  ASSUME NEW s \in Records, NEW day \in Nat, NEW lost
  PROVE  LET t == Traded(s, lost, day)
         IN  /\ t.losses = IF lost THEN LossesOn(s, day) + 1 ELSE 0
             /\ t.lock = IF LockOn(s, day) = "none" /\ t.losses >= MaxLosses
                         THEN "consecutive" ELSE LockOn(s, day)
<1> DEFINE d == StartDay(s, day, s.last)
           m == [d EXCEPT !.losses = IF lost THEN @ + 1 ELSE 0]
<1>0. s.last \in Nat
  BY DEF Records
<1>a. SameDay(s, d, day, s.last)
  BY <1>0, StartDayRolls
<1>1. d \in Records /\ d.losses = LossesOn(s, day) /\ d.lock = LockOn(s, day)
  BY <1>0, <1>a, StartDayCounts DEF SameDay
<1>2. Traded(s, lost, day) = IF m.losses >= MaxLosses /\ m.lock = "none"
                             THEN [m EXCEPT !.lock = "consecutive"] ELSE m
  BY DEF Traded, d
<1> HIDE DEF d
<1>3. m.losses = (IF lost THEN d.losses + 1 ELSE 0) /\ m.lock = d.lock /\ "lock" \in DOMAIN m
  BY <1>1 DEF Records
<1> HIDE DEF m
<1>4. /\ [m EXCEPT !.lock = "consecutive"].lock = "consecutive"
      /\ [m EXCEPT !.lock = "consecutive"].losses = m.losses
  BY <1>3
<1> QED
  BY <1>1, <1>2, <1>3, <1>4

\* Cash flows touch neither losses nor lock, but for a day that rolls over
\* (apply_cash_flows).
LEMMA CashFlowsCount ==
  ASSUME NEW s \in Records, NEW day \in Nat
  PROVE  LET c == CashFlows(s, day)
         IN  IF s.cursor \in {-1, flows} THEN c.losses = s.losses /\ c.lock = s.lock
             ELSE c.losses = LossesOn(s, day) /\ c.lock = LockOn(s, day)
<1> DEFINE d == StartDay(s, day, s.last)
           f == d.flow + flows - s.cursor
           first == [s EXCEPT !.cursor = flows]
           later == [d EXCEPT !.flow = f, !.cursor = flows]
<1>0. s.last \in Nat
  BY DEF Records
<1>a. SameDay(s, d, day, s.last)
  BY <1>0, StartDayRolls
<1>1. d \in Records /\ d.losses = LossesOn(s, day) /\ d.lock = LockOn(s, day)
  BY <1>0, <1>a, StartDayCounts DEF SameDay
<1>2. CashFlows(s, day) = IF s.cursor = -1 THEN first ELSE IF s.cursor = flows THEN s ELSE later
  BY DEF CashFlows
<1>3. first.losses = s.losses /\ first.lock = s.lock
  BY DEF Records
<1> HIDE DEF d
<1> HIDE DEF f
<1>4. later.losses = d.losses /\ later.lock = d.lock
  BY <1>1 DEF Records
<1> HIDE DEF first
<1> HIDE DEF later
<1> QED
  BY <1>1, <1>2, <1>3, <1>4

-----------------------------------------------------------------------------
(* Counting losses.                                                        *)

\* The trips are numbered and finitely many.
LEMMA TripsAreSales ==
  ASSUME NEW ts \in Seq(Sales)
  PROVE  /\ Len(ts) \in Nat /\ DOMAIN ts = 1..Len(ts) /\ IsFiniteSet(DOMAIN ts)
         /\ \A i \in DOMAIN ts : ts[i] \in Sales /\ ts[i].day \in Nat /\ ts[i].lost \in BOOLEAN /\ i \in Nat
<1>1. Len(ts) \in Nat /\ DOMAIN ts = 1..Len(ts) /\ \A i \in 1..Len(ts) : ts[i] \in Sales
  BY LenProperties, ElementOfSeq
<1>2. 1 \in Int /\ Len(ts) \in Int
  BY <1>1
<1>3. IsFiniteSet(1..Len(ts))
  BY <1>2, FS_Interval, Zenon
<1> QED
  BY <1>1, <1>3 DEF Sales

\* Among no trips none has lost.
LEMMA NoLosses == ASSUME NEW ts PROVE LossesOf(ts, {}) = 0
<1>1. TrailOf(ts, {}) = {}
  BY DEF TrailOf
<1> QED
  BY <1>1, FS_EmptySet DEF LossesOf

\* One more trip, later than the others: one more loss, or none at all.
LEMMA OneMoreTrip ==
  ASSUME NEW ts \in Seq(Sales), NEW done \in SUBSET DOMAIN ts, NEW n \in DOMAIN ts,
         \A i \in done : i < n
  PROVE  /\ LossesOf(ts, done) \in Nat
         /\ LossesOf(ts, done \cup {n}) = IF ts[n].lost THEN LossesOf(ts, done) + 1 ELSE 0
<1>1. /\ IsFiniteSet(DOMAIN ts) /\ \A i \in DOMAIN ts : i \in Nat /\ ts[i].lost \in BOOLEAN
  BY TripsAreSales
<1>2. IsFiniteSet(TrailOf(ts, done)) /\ LossesOf(ts, done) \in Nat
  <2>1. TrailOf(ts, done) \subseteq DOMAIN ts
    BY DEF TrailOf
  <2>2. IsFiniteSet(TrailOf(ts, done))
    BY <1>1, <2>1, FS_Subset, Zenon
  <2> QED
    BY <2>2, FS_CardinalityType DEF LossesOf
<1>3. n \notin TrailOf(ts, done)
  BY <1>1 DEF TrailOf
<1>4. CASE ts[n].lost
  <2>1. TrailOf(ts, done \cup {n}) = TrailOf(ts, done) \cup {n}
    <3>1. ASSUME NEW i \in TrailOf(ts, done \cup {n}) PROVE i \in TrailOf(ts, done) \cup {n}
      BY <3>1 DEF TrailOf
    <3>2. ASSUME NEW i \in TrailOf(ts, done) \cup {n} PROVE i \in TrailOf(ts, done \cup {n})
      <4>1. CASE i \in TrailOf(ts, done)
        BY <1>4, <4>1 DEF TrailOf
      <4>2. CASE i = n
        <5>1. \A k \in done \cup {n} : n <= k => k = n
          BY <1>1
        <5> QED
          BY <1>4, <4>2, <5>1 DEF TrailOf
      <4> QED
        BY <3>2, <4>1, <4>2
    <3> QED
      BY <3>1, <3>2
  <2>2. Cardinality(TrailOf(ts, done) \cup {n}) = Cardinality(TrailOf(ts, done)) + 1
    BY <1>2, <1>3, FS_AddElement, Zenon
  <2> QED
    BY <1>2, <1>4, <2>1, <2>2 DEF LossesOf
<1>5. CASE ~ts[n].lost
  <2>1. TrailOf(ts, done \cup {n}) = {}
    <3> SUFFICES ASSUME NEW i \in TrailOf(ts, done \cup {n}) PROVE FALSE
      OBVIOUS
    <3>1. i <= n
      BY <1>1 DEF TrailOf
    <3> QED
      BY <1>5, <3>1 DEF TrailOf
  <2> QED
    BY <1>2, <1>5, <2>1, FS_EmptySet DEF LossesOf
<1> QED
  BY <1>4, <1>5

\* A trip at the end leaves those before it as they were.
LEMMA AppendTrip ==
  ASSUME NEW ts \in Seq(Sales), NEW t \in Sales
  PROVE  LET us == Append(ts, t)
             n == Len(ts) + 1
         IN /\ us \in Seq(Sales) /\ n \in DOMAIN us /\ us[n] = t /\ n \notin DOMAIN ts
            /\ DOMAIN us = DOMAIN ts \cup {n}
            /\ \A i \in DOMAIN ts : us[i] = ts[i] /\ i < n
            /\ MineOf(us, t.day) = MineOf(ts, t.day) \cup {n}
            /\ \A d : d # t.day => MineOf(us, d) = MineOf(ts, d)
            /\ \A done \in SUBSET DOMAIN ts : LossesOf(us, done) = LossesOf(ts, done)
            /\ \A d : StreakIn(ts, d, MineOf(ts, d)) => StreakIn(us, d, MineOf(us, d))
<1> DEFINE us == Append(ts, t)
           n == Len(ts) + 1
<1>1. Len(ts) \in Nat /\ DOMAIN ts = 1..Len(ts)
  BY TripsAreSales
<1>2. us \in Seq(Sales) /\ Len(us) = n /\ us[n] = t /\ \A i \in 1..Len(ts) : us[i] = ts[i]
  BY <1>1, AppendProperties
<1>3. DOMAIN us = 1..n
  BY <1>2, LenProperties
<1>4. 1..n = 1..Len(ts) \cup {n} /\ n \notin 1..Len(ts) /\ \A i \in 1..Len(ts) : i < n
  BY <1>1
<1> HIDE DEF us
<1> HIDE DEF n
<1>5. /\ DOMAIN us = DOMAIN ts \cup {n} /\ n \notin DOMAIN ts /\ n \in DOMAIN us
      /\ \A i \in DOMAIN ts : us[i] = ts[i] /\ i < n
  BY <1>1, <1>2, <1>3, <1>4
<1>6. /\ MineOf(us, t.day) = MineOf(ts, t.day) \cup {n}
      /\ \A d : d # t.day => MineOf(us, d) = MineOf(ts, d)
  BY <1>2, <1>5 DEF MineOf
<1>7. \A done \in SUBSET DOMAIN ts : LossesOf(us, done) = LossesOf(ts, done)
  <2> SUFFICES ASSUME NEW done \in SUBSET DOMAIN ts PROVE TrailOf(us, done) = TrailOf(ts, done)
    BY DEF LossesOf
  <2> QED
    BY <1>5 DEF TrailOf
<1>8. ASSUME NEW d, StreakIn(ts, d, MineOf(ts, d)) PROVE StreakIn(us, d, MineOf(us, d))
  <2>1. PICK m \in MineOf(ts, d) : LossesOf(ts, UpTo(ts, d, m)) >= MaxLosses
    BY <1>8 DEF StreakIn
  <2>2. m \in DOMAIN ts /\ m \in MineOf(us, d)
    BY <1>6, <2>1 DEF MineOf
  <2>3. m < n /\ m \in Nat /\ n \in Nat
    BY <1>1, <1>5, <2>2 DEF n
  <2>4. UpTo(us, d, m) = UpTo(ts, d, m) /\ UpTo(ts, d, m) \subseteq DOMAIN ts
    <3>1. ~ (n <= m)
      BY <2>3
    <3>2. MineOf(us, d) = MineOf(ts, d) \/ MineOf(us, d) = MineOf(ts, d) \cup {n}
      BY <1>6, Zenon
    <3>3. UpTo(us, d, m) = UpTo(ts, d, m)
      BY <3>1, <3>2 DEF UpTo
    <3> QED
      BY <3>3 DEF UpTo, MineOf
  <2> QED
    BY <1>7, <2>1, <2>2, <2>4 DEF StreakIn
<1> QED
  BY <1>2, <1>5, <1>6, <1>7, <1>8 DEF us, n

-----------------------------------------------------------------------------
(* The invariant.                                                          *)

\* There is no trip and no lock at first.
LEMMA LossInit == Init => LossInv
<1> SUFFICES ASSUME Init PROVE LossInv
  OBVIOUS
<1>1. /\ today = 1 /\ trips = <<>> /\ phase = "down" /\ state = Fresh /\ store = Fresh
      /\ closed = {}
  BY DEF Init
<1>2. Fresh.day = 0 /\ Fresh.lock = "none"
  BY DEF Fresh
<1>3. trips \in Seq(Sales) /\ DOMAIN trips = {}
  BY <1>1, EmptySeq
<1>4. TripsFit
  BY <1>1, <1>2, <1>3 DEF TripsFit
<1> QED
  BY <1>1, <1>2, <1>4 DEF LossInv, LossByPhase, LocksKept

\* The day of memory goes on with its losses, and a lock is kept or added; or
\* today begins, without either.
GoesOn(s) == s.day = state.day /\ s.losses = state.losses
             /\ (s.lock = state.lock \/ (state.lock = "none" /\ s.lock = "daily"))
BeginsToday(s) == s.day = today /\ s.day # state.day /\ s.losses = 0 /\ s.lock \in {"none", "daily"}

\* A step of the engine at work that sells nothing.
LEMMA WorkKeepsLosses ==
  ASSUME DayInv, LossInv, NEW s \in Records, Become(s), phase = "run", phase' = "run",
         UNCHANGED <<today, trips, replay>>,
         store' \in Records, store'.day = s.day, store'.lock = s.lock,
         GoesOn(s) \/ BeginsToday(s)
  PROVE  LossInv'
<1>1. /\ state' = s /\ closed' = IF s.lock # "none" THEN closed \cup {s.day} ELSE closed
      /\ today \in Days /\ today \in Nat /\ state.day \in 1..today /\ store.day = state.day
  BY ConstantsAssumption DEF Become, DayInv, TypesFit, BaseByPhase, Days
<1>2. /\ trips \in Seq(Sales) /\ \A i \in DOMAIN trips : trips[i].day <= today
      /\ \A i \in DOMAIN trips : trips[i].day <= store.day
  BY DEF LossInv, TripsFit
<1>3. \A i \in DOMAIN trips : trips[i].day \in Nat
  BY <1>2, TripsAreSales
<1>4. s.day \in Nat /\ s.day <= today /\ state.day <= s.day
  BY <1>1 DEF GoesOn, BeginsToday
<1>5. TripsFit'
  <2>1. \A i \in DOMAIN trips : trips[i].day <= s.day
    BY <1>1, <1>2, <1>3, <1>4
  <2> QED
    BY <1>2, <1>4, <2>1 DEF TripsFit
<1>6. s.losses = LossesOf(trips, MineOf(trips, s.day))
  <2>1. CASE GoesOn(s)
    BY <2>1 DEF GoesOn, LossInv, LossByPhase
  <2>2. CASE BeginsToday(s)
    <3>1. MineOf(trips, s.day) = {}
      BY <1>1, <1>2, <1>3, <2>2 DEF BeginsToday, MineOf
    <3> QED
      BY <2>2, <3>1, NoLosses DEF BeginsToday
  <2> QED
    BY <2>1, <2>2
<1>7. LossByPhase'
  BY <1>1, <1>6 DEF LossByPhase
<1>8. \A d \in closed' : d \in Nat /\ d <= today
  BY <1>1, <1>4 DEF LossInv, LocksKept
<1>9. today \in closed' => s.day = today /\ s.lock # "none"
  <2>1. CASE today \in closed
    <3>1. state.day = today /\ state.lock # "none"
      BY <1>1, <2>1 DEF LossInv, LocksKept
    <3> QED
      BY <3>1 DEF GoesOn, BeginsToday
  <2>2. CASE today \notin closed
    BY <1>1, <2>2
  <2> QED
    BY <2>1, <2>2
<1>10. s.day = today /\ s.lock = "consecutive" => StreakIn(trips, today, MineOf(trips, today))
  BY <1>1 DEF LossInv, LocksKept, GoesOn, BeginsToday
<1>11. LocksKept'
  BY <1>1, <1>8, <1>9, <1>10 DEF LocksKept
<1> QED
  BY <1>5, <1>7, <1>11 DEF LossInv

\* Steps that leave the state, the trips and the phase alone.
LEMMA RestKeepsLosses ==
  ASSUME LossInv, UNCHANGED <<today, trips, phase, state, store, replay, kept, closed>>
  PROVE  LossInv'
BY DEF LossInv, TripsFit, LossByPhase, LocksKept, Replayed

\* A sale of today: what was counted of the day so far and one more.
LEMMA SaleCounts ==
  ASSUME LossInv, NEW lost \in BOOLEAN, today \in Nat, state \in Records,
         trips' = Append(trips, [day |-> today, lost |-> lost]),
         state' = Traded(state, lost, today), today' = today, closed' \in {closed, closed \cup {today}},
         LossesOn(state, today) = LossesOf(trips, MineOf(trips, today)),
         LockOn(state, today) = "consecutive" => StreakIn(trips, today, MineOf(trips, today))
  PROVE  /\ trips' \in Seq(Sales) /\ \A i \in DOMAIN trips' : trips'[i].day <= today
         /\ state'.day = today /\ state' \in Records
         /\ state'.losses = LossesOf(trips', MineOf(trips', today))
         /\ state'.lock = "consecutive" => StreakIn(trips', today, MineOf(trips', today))
         /\ LockOn(state, today) # "none" => state'.lock = LockOn(state, today)
<1> DEFINE t == [day |-> today, lost |-> lost]
           n == Len(trips) + 1
           mine == MineOf(trips, today)
<1>1. t \in Sales /\ t.day = today /\ t.lost = lost /\ trips \in Seq(Sales) /\ trips' = Append(trips, t)
  BY DEF Sales, LossInv, TripsFit
<1> HIDE DEF t
<1>2. /\ trips' \in Seq(Sales) /\ n \in DOMAIN trips' /\ trips'[n] = t /\ n \notin DOMAIN trips
      /\ DOMAIN trips' = DOMAIN trips \cup {n}
      /\ \A i \in DOMAIN trips : trips'[i] = trips[i] /\ i < n
      /\ MineOf(trips', today) = mine \cup {n}
      /\ \A done \in SUBSET DOMAIN trips : LossesOf(trips', done) = LossesOf(trips, done)
      /\ \A d : StreakIn(trips, d, MineOf(trips, d)) => StreakIn(trips', d, MineOf(trips', d))
  <2> DEFINE us == Append(trips, t)
  <2>1. /\ us \in Seq(Sales) /\ n \in DOMAIN us /\ us[n] = t /\ n \notin DOMAIN trips
        /\ DOMAIN us = DOMAIN trips \cup {n}
        /\ \A i \in DOMAIN trips : us[i] = trips[i] /\ i < n
        /\ MineOf(us, t.day) = MineOf(trips, t.day) \cup {n}
        /\ \A done \in SUBSET DOMAIN trips : LossesOf(us, done) = LossesOf(trips, done)
        /\ \A d : StreakIn(trips, d, MineOf(trips, d)) => StreakIn(us, d, MineOf(us, d))
    BY <1>1, AppendTrip, Zenon
  <2>2. trips' = us
    BY <1>1
  <2> HIDE DEF us
  <2> HIDE DEF n
  <2>3. MineOf(us, today) = mine \cup {n}
    BY <1>1, <2>1, Zenon
  <2> HIDE DEF mine
  <2>4. trips' \in Seq(Sales) /\ n \in DOMAIN trips' /\ trips'[n] = t /\ n \notin DOMAIN trips
    BY <2>1, <2>2, Zenon
  <2>5. DOMAIN trips' = DOMAIN trips \cup {n} /\ \A i \in DOMAIN trips : trips'[i] = trips[i] /\ i < n
    BY <2>1, <2>2, Zenon
  <2>6. MineOf(trips', today) = mine \cup {n}
    BY <2>2, <2>3, Zenon
  <2>7. \A done \in SUBSET DOMAIN trips : LossesOf(trips', done) = LossesOf(trips, done)
    BY <2>1, <2>2, Zenon
  <2>8. \A d : StreakIn(trips, d, MineOf(trips, d)) => StreakIn(trips', d, MineOf(trips', d))
    BY <2>1, <2>2, Zenon
  <2> QED
    BY <2>4, <2>5, <2>6, <2>7, <2>8, Zenon
<1>3. mine \subseteq DOMAIN trips
  BY DEF MineOf
<1>4. mine \in SUBSET DOMAIN trips' /\ \A i \in mine : i < n
  BY <1>2, <1>3
<1> HIDE DEF n
<1> HIDE DEF mine
<1>5. LossesOf(trips', mine \cup {n}) = IF lost THEN LossesOf(trips, mine) + 1 ELSE 0
  <2>1. LossesOf(trips', mine \cup {n}) = IF trips'[n].lost THEN LossesOf(trips', mine) + 1 ELSE 0
    <3>1. trips' \in Seq(Sales) /\ n \in DOMAIN trips'
      BY <1>2, Zenon
    <3> QED
      BY <1>4, <3>1, OneMoreTrip
  <2>2. trips'[n].lost = lost
    BY <1>1, <1>2
  <2>3. LossesOf(trips', mine) = LossesOf(trips, mine)
    BY <1>2, <1>3
  <2> QED
    BY <2>1, <2>2, <2>3, Zenon
<1>6. /\ state'.losses = (IF lost THEN LossesOn(state, today) + 1 ELSE 0)
      /\ state'.lock = IF LockOn(state, today) = "none" /\ state'.losses >= MaxLosses
                       THEN "consecutive" ELSE LockOn(state, today)
  BY TradedCounts
<1>7. state'.losses = LossesOf(trips', MineOf(trips', today))
  BY <1>2, <1>5, <1>6 DEF mine
<1>8. state' \in Records /\ state'.day = today
  BY TradedRolls DEF SameDay
<1>9. ASSUME state'.lock = "consecutive" PROVE StreakIn(trips', today, MineOf(trips', today))
  <2>1. CASE LockOn(state, today) = "consecutive"
    BY <1>2, <2>1
  <2>2. CASE LockOn(state, today) # "consecutive"
    <3>1. state'.losses >= MaxLosses
      BY <1>6, <1>9, <2>2
    <3>2. UpTo(trips', today, n) = MineOf(trips', today)
      <4>1. \A i \in MineOf(trips', today) : i <= n
        <5> SUFFICES ASSUME NEW i \in MineOf(trips', today) PROVE i <= n
          OBVIOUS
        <5>1. i \in Nat /\ n \in Nat /\ (i \in DOMAIN trips \/ i = n)
          BY <1>2, TripsAreSales DEF MineOf
        <5> QED
          BY <1>2, <5>1
      <4> QED
        BY <4>1 DEF UpTo
    <3>3. n \in MineOf(trips', today)
      BY <1>2
    <3> QED
      BY <1>7, <3>1, <3>2, <3>3 DEF StreakIn
  <2> QED
    BY <2>1, <2>2
<1>10. \A i \in DOMAIN trips' : trips'[i].day <= today
  <2>1. \A i \in DOMAIN trips : trips[i].day <= today
    BY DEF LossInv, TripsFit
  <2> QED
    BY <1>1, <1>2, <2>1
<1> QED
  BY <1>2, <1>6, <1>7, <1>8, <1>9, <1>10

\* A sale, of the engine at work or of an earlier day found during the restart.
LEMMA SaleKeepsLosses ==
  ASSUME DayInv, LossInv, NEW lost \in BOOLEAN, phase \in {"run", "starting"}, phase' = phase,
         UNCHANGED <<today, replay>>, Become(Traded(state, lost, today)), store' = state',
         trips' = Append(trips, [day |-> today, lost |-> lost]),
         phase = "starting" => store.day < today
  PROVE  LossInv'
<1>1. /\ today \in Nat /\ state \in Records /\ store \in Records /\ state' = Traded(state, lost, today)
      /\ closed' = IF state'.lock # "none" THEN closed \cup {state'.day} ELSE closed
      /\ phase = "run" => state.day \in 1..today /\ store.day = state.day
  BY ConstantsAssumption DEF Become, DayInv, TypesFit, BaseByPhase, Days
<1>a. /\ trips \in Seq(Sales)
      /\ store.day <= today /\ \A i \in DOMAIN trips : trips[i].day <= store.day
  BY DEF LossInv, TripsFit
<1>2. /\ trips \in Seq(Sales)
      /\ store.day <= today /\ \A i \in DOMAIN trips : trips[i].day <= store.day
      /\ \A i \in DOMAIN trips : trips[i].day \in Nat
  BY <1>a, TripsAreSales
<1>3. store.day \in Nat /\ state.day \in Nat
  BY <1>1 DEF Records
<1>4. CASE state.day = today
  <2>1. phase = "run"
    BY <1>1, <1>3, <1>4 DEF LossInv, LossByPhase
  <2>2. /\ LossesOn(state, today) = LossesOf(trips, MineOf(trips, today))
        /\ LockOn(state, today) = state.lock
    BY <1>4, <2>1 DEF LossesOn, LockOn, LossInv, LossByPhase
  <2>3. /\ store.lock = state.lock
        /\ state.lock = "consecutive" => StreakIn(trips, today, MineOf(trips, today))
        /\ today \in closed => state.lock # "none"
    BY <1>1, <1>4, <2>1 DEF LossInv, LocksKept
  <2> QED
    <3>1. closed' \in {closed, closed \cup {today}}
      BY <1>1, TradedRolls DEF SameDay
    <3>2. /\ trips' \in Seq(Sales) /\ \A i \in DOMAIN trips' : trips'[i].day <= today
          /\ state'.day = today /\ state' \in Records
          /\ state'.losses = LossesOf(trips', MineOf(trips', today))
          /\ state'.lock = "consecutive" => StreakIn(trips', today, MineOf(trips', today))
          /\ LockOn(state, today) # "none" => state'.lock = LockOn(state, today)
      BY <1>1, <2>2, <2>3, <3>1, SaleCounts
    <3>3. TripsFit' /\ LossByPhase'
      BY <1>1, <1>2, <2>1, <3>2 DEF TripsFit, LossByPhase
    <3>4. \A d \in closed' : d \in Nat /\ d <= today
      BY <1>1, <3>2 DEF LossInv, LocksKept
    <3>5. today \in closed' => state'.lock # "none"
      BY <1>1, <2>2, <2>3, <3>2
    <3>6. LocksKept'
      BY <1>1, <2>1, <3>2, <3>4, <3>5 DEF LocksKept
    <3> QED
      BY <3>3, <3>6 DEF LossInv
<1>5. CASE state.day # today
  <2>1. store.day < today
    BY <1>1, <1>2, <1>3, <1>5
  <2>2. MineOf(trips, today) = {}
    BY <1>1, <1>2, <1>3, <2>1 DEF MineOf
  <2>3. LossesOn(state, today) = LossesOf(trips, MineOf(trips, today)) /\ LockOn(state, today) = "none"
    BY <1>5, <2>2, NoLosses DEF LossesOn, LockOn
  <2>4. today \notin closed
    BY <1>1, <1>3, <2>1 DEF LossInv, LocksKept
  <2> QED
    <3>1. closed' \in {closed, closed \cup {today}}
      BY <1>1, TradedRolls DEF SameDay
    <3>2. /\ trips' \in Seq(Sales) /\ \A i \in DOMAIN trips' : trips'[i].day <= today
          /\ state'.day = today /\ state' \in Records
          /\ state'.losses = LossesOf(trips', MineOf(trips', today))
          /\ state'.lock = "consecutive" => StreakIn(trips', today, MineOf(trips', today))
      BY <1>1, <2>3, <3>1, SaleCounts
    <3>3. TripsFit' /\ LossByPhase'
      BY <1>1, <1>2, <3>2 DEF TripsFit, LossByPhase
    <3>4. \A d \in closed' : d \in Nat /\ d <= today
      BY <1>1, <3>2 DEF LossInv, LocksKept
    <3>5. today \in closed' => state'.lock # "none"
      BY <1>1, <2>4, <3>2
    <3>6. LocksKept'
      BY <1>1, <3>2, <3>4, <3>5 DEF LocksKept
    <3> QED
      BY <3>3, <3>6 DEF LossInv
<1> QED
  BY <1>4, <1>5

\* rebuild begins with no loss and no lock, and with all of today's trips.
LEMMA BeginKeepsLosses ==
  ASSUME DayInv, LossInv, NEW e, BeginRebuild(e)
  PROVE  LossInv'
<1>1. /\ phase = "starting" /\ phase' = "rebuild" /\ state' = Restored(e)
      /\ kept' = (IF store.day = today /\ store.lock = "daily" THEN "daily" ELSE "none")
      /\ replay' = MineOf(trips, today) /\ UNCHANGED <<today, trips, store>>
      /\ closed' = IF state'.lock # "none" THEN closed \cup {state'.day} ELSE closed
  BY DEF BeginRebuild, Become, MineOf
<1>2. state'.lock = "none" /\ state'.losses = 0 /\ state'.day = today
  BY <1>1 DEF Restored, Fresh
<1>3. Replayed' = {}
  BY <1>1 DEF Replayed
<1>4. state'.losses = LossesOf(trips', Replayed')
  BY <1>2, <1>3, NoLosses
<1>5. TripsFit'
  BY <1>1 DEF LossInv, TripsFit
<1>6. LossByPhase'
  BY <1>1, <1>4 DEF LossByPhase
<1>7. ~StreakIn(trips', today', Replayed')
  BY <1>3 DEF StreakIn
<1>8. today \in closed => kept' = "daily" \/ StreakIn(trips, today, MineOf(trips, today))
  BY <1>1 DEF LossInv, LocksKept, DayInv, TypesFit, Records, Locks
<1>9. closed' = closed /\ kept' \in {"none", "daily"} /\ \A d \in closed : d \in Nat /\ d <= today
  BY <1>1, <1>2 DEF LossInv, LocksKept
<1>10. LocksKept'
  BY <1>1, <1>2, <1>7, <1>8, <1>9 DEF LocksKept
<1> QED
  BY <1>5, <1>6, <1>10 DEF LossInv

\* rebuild counts the next trip.
LEMMA ReplayKeepsLosses ==
  ASSUME DayInv, LossInv, ReplayTrip
  PROVE  LossInv'
<1>1. PICK i \in replay :
        /\ \A k \in replay : i <= k
        /\ Become(Traded(state, trips[i].lost, today))
        /\ replay' = replay \ {i}
  BY DEF ReplayTrip
<1>2. /\ phase = "rebuild" /\ UNCHANGED <<today, trips, phase, kept>> /\ store' = state'
      /\ state.day = today /\ state \in Records /\ today \in Nat
      /\ state' = Traded(state, trips[i].lost, today)
      /\ closed' = IF state'.lock # "none" THEN closed \cup {state'.day} ELSE closed
  BY <1>1, ConstantsAssumption DEF ReplayTrip, Become, DayInv, TypesFit, BaseByPhase, Days
<1> DEFINE mine == MineOf(trips, today)
<1>3. /\ trips \in Seq(Sales) /\ replay \subseteq mine /\ mine \subseteq DOMAIN trips
      /\ \A r \in replay, k \in mine : r <= k => k \in replay
  BY <1>2 DEF LossInv, TripsFit, MineOf
<1>4. \A k \in DOMAIN trips : k \in Nat /\ trips[k].lost \in BOOLEAN
  BY <1>3, TripsAreSales
<1>5. i \in mine /\ i \in DOMAIN trips /\ i \in Nat /\ trips[i].lost \in BOOLEAN
  BY <1>3, <1>4
<1>6. Replayed = mine \ replay /\ Replayed' = Replayed \cup {i} /\ Replayed \subseteq DOMAIN trips
  BY <1>1, <1>2, <1>3, <1>5 DEF Replayed
<1>7. \A k \in Replayed : k < i
  BY <1>3, <1>4, <1>5, <1>6
<1>8. UpTo(trips, today, i) = Replayed'
  <2>1. ASSUME NEW k \in Replayed' PROVE k \in UpTo(trips, today, i)
    BY <1>4, <1>5, <1>6, <1>7, <2>1 DEF UpTo
  <2>2. ASSUME NEW k \in UpTo(trips, today, i), k \notin Replayed' PROVE FALSE
    <3>1. k \in mine /\ k <= i /\ k \in replay /\ k # i /\ k \in Nat
      BY <1>3, <1>4, <1>6, <2>2 DEF UpTo
    <3> QED
      BY <1>1, <1>5, <3>1
  <2> QED
    BY <2>1, <2>2
<1> HIDE DEF mine
<1>9. LossesOf(trips, Replayed') = IF trips[i].lost THEN LossesOf(trips, Replayed) + 1 ELSE 0
  BY <1>3, <1>5, <1>6, <1>7, OneMoreTrip
<1>10. /\ state'.losses = LossesOf(trips, Replayed')
       /\ state'.lock = IF state.lock = "none" /\ state'.losses >= MaxLosses
                        THEN "consecutive" ELSE state.lock
  <2>1. state.losses = LossesOf(trips, Replayed)
    BY <1>2 DEF LossInv, LossByPhase
  <2>2. LossesOn(state, today) = state.losses /\ LockOn(state, today) = state.lock
    BY <1>2 DEF LossesOn, LockOn
  <2>3. /\ state'.losses = IF trips[i].lost THEN state.losses + 1 ELSE 0
        /\ state'.lock = IF state.lock = "none" /\ state'.losses >= MaxLosses
                         THEN "consecutive" ELSE state.lock
    BY <1>2, <2>2, TradedCounts
  <2> QED
    BY <1>9, <2>1, <2>3
<1>11. state'.day = today
  BY <1>2, TradedRolls DEF SameDay
<1>12. TripsFit'
  <2>1. replay' \subseteq mine /\ \A r \in replay', k \in mine : r <= k => k \in replay'
    <3>1. ASSUME NEW r \in replay', NEW k \in mine, r <= k PROVE k \in replay'
      <4>1. r \in replay /\ r # i /\ k \in replay
        BY <1>1, <1>3, <3>1
      <4>2. k # i
        <5>1. i <= r /\ r \in Nat /\ k \in Nat
          BY <1>1, <1>3, <1>4, <4>1
        <5> QED
          BY <1>5, <3>1, <4>1, <5>1
      <4> QED
        BY <1>1, <4>1, <4>2
    <3> QED
      BY <1>1, <1>3, <3>1
  <2> QED
    BY <1>2, <2>1 DEF LossInv, TripsFit, mine
<1>13. LossByPhase'
  BY <1>2, <1>10 DEF LossByPhase
<1>14. i \in Replayed' /\ i \in MineOf(trips, today) /\ StreakIn(trips, today, Replayed')
          => StreakIn(trips, today, MineOf(trips, today))
  <2>1. Replayed' \subseteq MineOf(trips, today)
    BY <1>3, <1>5, <1>6 DEF mine
  <2> QED
    BY <1>5, <1>6, <2>1 DEF StreakIn, mine
<1>15. /\ state.lock \in {"none", "consecutive"} /\ kept \in {"none", "daily"}
       /\ \A d \in closed : d \in Nat /\ d <= today
       /\ today \in closed =>
            \/ kept = "daily" \/ state.lock # "none"
            \/ StreakIn(trips, today, MineOf(trips, today))
       /\ state.lock = "consecutive" => StreakIn(trips, today, MineOf(trips, today))
       /\ StreakIn(trips, today, Replayed) => state.lock # "none"
  BY <1>2 DEF LossInv, LocksKept
<1>16. state'.losses >= MaxLosses => StreakIn(trips, today, Replayed')
  BY <1>6, <1>8, <1>10 DEF StreakIn
<1>17. StreakIn(trips, today, Replayed') => state'.lock # "none"
  <2> SUFFICES ASSUME NEW n \in Replayed', LossesOf(trips, UpTo(trips, today, n)) >= MaxLosses
               PROVE  state'.lock # "none"
    BY DEF StreakIn
  <2>1. CASE n = i
    BY <1>8, <1>10, <1>15, <2>1
  <2>2. CASE n # i
    <3>1. StreakIn(trips, today, Replayed)
      BY <1>6, <2>2 DEF StreakIn
    <3> QED
      BY <1>10, <1>15, <3>1
  <2> QED
    BY <2>1, <2>2
<1>18. state'.lock = "consecutive" => StreakIn(trips, today, MineOf(trips, today))
  <2>1. i \in MineOf(trips, today) /\ i \in Replayed'
    BY <1>5, <1>6 DEF mine
  <2> QED
    BY <1>10, <1>14, <1>15, <1>16, <2>1
<1>19. LocksKept'
  <2>1. \A d \in closed' : d \in Nat /\ d <= today
    BY <1>2, <1>11, <1>15
  <2>2. today \in closed' =>
            \/ kept = "daily" \/ state'.lock # "none"
            \/ StreakIn(trips, today, MineOf(trips, today))
    BY <1>2, <1>10, <1>15
  <2>3. state'.lock \in {"none", "consecutive"}
    BY <1>10, <1>15
  <2> QED
    BY <1>2, <1>15, <1>17, <1>18, <2>1, <2>2, <2>3 DEF LocksKept
<1> QED
  BY <1>12, <1>13, <1>19 DEF LossInv

\* rebuild is over: the kept lock is put back, unless the trips gave one.
LEMMA FinishKeepsLosses ==
  ASSUME DayInv, LossInv, NEW e \in Nat \ {0}, FinishRebuild(e)
  PROVE  LossInv'
<1> DEFINE s == [state EXCEPT !.lock = IF @ = "none" THEN kept ELSE @, !.last = e]
           c == CashFlows(s, today)
<1>1. /\ phase = "rebuild" /\ phase' = "run" /\ replay = {} /\ Become(c)
      /\ store' = state' /\ UNCHANGED <<today, trips, replay>>
  BY DEF FinishRebuild, Restarted
<1>2. /\ state' = c /\ closed' = IF c.lock # "none" THEN closed \cup {c.day} ELSE closed
      /\ state.day = today /\ state \in Records /\ kept \in Locks /\ today \in Nat /\ flows \in Nat
  BY <1>1, ConstantsAssumption DEF Become, DayInv, TypesFit, BaseByPhase, Days
<1>3. /\ s \in Records /\ s.day = today /\ s.losses = state.losses
      /\ s.lock = IF state.lock = "none" THEN kept ELSE state.lock
  BY <1>2 DEF Records
<1> HIDE DEF s
<1>4. c.day = today /\ c.losses = s.losses /\ c.lock = s.lock
  <2>1. LossesOn(s, today) = s.losses /\ LockOn(s, today) = s.lock
    BY <1>3 DEF LossesOn, LockOn
  <2>2. c.losses = s.losses /\ c.lock = s.lock
    BY <1>2, <1>3, <2>1, CashFlowsCount
  <2>3. c.day = today
    BY <1>2, <1>3, CashFlowsRoll
  <2> QED
    BY <2>2, <2>3
<1> HIDE DEF c
<1>5. Replayed = MineOf(trips, today)
  BY <1>1 DEF Replayed
<1>6. state'.losses = LossesOf(trips, MineOf(trips, today))
  BY <1>1, <1>2, <1>3, <1>4, <1>5 DEF LossInv, LossByPhase
<1>7. TripsFit'
  BY <1>1, <1>2, <1>4 DEF LossInv, TripsFit
<1>8. LossByPhase'
  BY <1>1, <1>2, <1>4, <1>6 DEF LossByPhase
<1>9. /\ kept \in {"none", "daily"} /\ state.lock \in {"none", "consecutive"}
      /\ \A d \in closed : d \in Nat /\ d <= today
      /\ today \in closed => kept = "daily" \/ state.lock # "none"
      /\ state.lock = "consecutive" => StreakIn(trips, today, MineOf(trips, today))
  BY <1>1, <1>5 DEF LossInv, LocksKept
<1>10. /\ today \in closed => c.lock # "none"
       /\ c.lock = "consecutive" => StreakIn(trips, today, MineOf(trips, today))
  BY <1>3, <1>4, <1>9
<1>11. LocksKept'
  BY <1>1, <1>2, <1>4, <1>9, <1>10 DEF LocksKept
<1> QED
  BY <1>7, <1>8, <1>11 DEF LossInv

\* Every step keeps the invariant.
LEMMA LossStep == ASSUME NoFaults PROVE DayInv /\ LossInv /\ [Next]_vars => LossInv'
<1> SUFFICES ASSUME DayInv, LossInv, [Next]_vars PROVE LossInv'
  OBVIOUS
<1>0. /\ today \in Days /\ today \in Nat \ {0} /\ flows \in Nat
      /\ state \in Records /\ store \in Records /\ Equities \subseteq Nat \ {0}
      /\ KnownOrNot = Equities
      /\ held \in [Tasks -> {0, today}]
  BY ConstantsAssumption, NoFaults DEF DayInv, TypesFit, NoDayAhead, Days, KnownOrNot, NoFaults
<1>a. phase = "run" =>
        /\ state.day \in 1..today /\ state.last \in Nat /\ state.base # 0
        /\ store.day = state.day /\ store.base = state.base /\ store.lock = state.lock
  BY <1>0 DEF DayInv, BaseByPhase, Records, LossInv, LocksKept
<1>b. ASSUME NEW s \in Records, s.day = today, s.losses = LossesOn(state, today),
             \/ s.lock = LockOn(state, today)
             \/ LockOn(state, today) = "none" /\ s.lock = "daily"
      PROVE  GoesOn(s) \/ BeginsToday(s)
  BY <1>b DEF LossesOn, LockOn, GoesOn, BeginsToday
<1>1. ASSUME NEW e \in Equities, Tick(e) \/ MainMarks(e) PROVE LossInv'
  <2> DEFINE m == Marked(state, e, today)
             k == MarkedStore(state, e, today)
  <2>1. /\ phase = "run" /\ phase' = "run" /\ e \in Nat \ {0}
        /\ Become(m) /\ store' = k /\ UNCHANGED <<today, trips, replay>>
    BY <1>0, <1>1 DEF Tick, MainMarks, MainAtWork, taskVars, Tasks
  <2>2. SameDay(state, m, today, e)
    BY <1>0, <1>a, <2>1, MarkedRolls
  <2>3. k \in Records /\ k.day = today
    BY <1>0, <1>a, <2>1, MarkedStoreRolls
  <2>4. k.lock = m.lock
    BY <1>0, <1>a, <2>1, MarkedStoreCounts
  <2>5. /\ m.losses = LossesOn(state, today)
        /\ m.lock = LockOn(state, today) \/ (LockOn(state, today) = "none" /\ m.lock = "daily")
    BY <1>0, <2>1, MarkedCounts
  <2>6. m \in Records /\ m.day = today
    BY <2>2 DEF SameDay
  <2> HIDE DEF m, k
  <2>7. GoesOn(m) \/ BeginsToday(m)
    BY <1>b, <2>5, <2>6
  <2> QED
    BY <2>1, <2>3, <2>4, <2>6, <2>7, WorkKeepsLosses
<1>2. ASSUME NEW e \in Equities, Evaluate(e) PROVE LossInv'
  <2> DEFINE d == StartDay(state, today, e)
  <2>1. /\ phase = "run" /\ phase' = "run" /\ e \in Nat
        /\ Become(d) /\ store' = (IF state.day # today THEN d ELSE store)
        /\ UNCHANGED <<today, trips, replay>>
    BY <1>0, <1>2 DEF Evaluate, MainAtWork, Tasks
  <2>2. SameDay(state, d, today, e)
    BY <1>0, <2>1, StartDayRolls
  <2>3. d.losses = LossesOn(state, today) /\ d.lock = LockOn(state, today)
    BY <1>0, <2>1, StartDayCounts
  <2>4. d \in Records /\ d.day = today
    BY <2>2 DEF SameDay
  <2> HIDE DEF d
  <2>5. GoesOn(d) \/ BeginsToday(d)
    BY <1>b, <2>3, <2>4
  <2>6. store' \in Records /\ store'.day = d.day /\ store'.lock = d.lock
    BY <1>0, <1>a, <2>1, <2>3, <2>4 DEF LockOn
  <2> QED
    BY <2>1, <2>4, <2>5, <2>6, WorkKeepsLosses
<1>3. ASSUME NEW t \in Tasks, NEW lost \in BOOLEAN, Sell(t, lost) PROVE LossInv'
  <2>1. held[t] = today
    BY <1>0, <1>3 DEF Sell
  <2>2. /\ phase = "run" /\ phase' = phase /\ Become(Traded(state, lost, today)) /\ store' = state'
        /\ trips' = Append(trips, [day |-> today, lost |-> lost])
        /\ UNCHANGED <<today, replay>>
    BY <1>3, <2>1 DEF Sell
  <2> QED
    BY <2>2, SaleKeepsLosses
<1>4. ASSUME NEW b \in BOOLEAN, phase = "run", Become([state EXCEPT !.halted = b]), store' = state',
             UNCHANGED <<today, trips, phase, replay>>
      PROVE  LossInv'
  <2> DEFINE s == [state EXCEPT !.halted = b]
  <2>1. s \in Records /\ s.day = state.day /\ s.losses = state.losses /\ s.lock = state.lock
    BY <1>0 DEF Records
  <2>2. Become(s) /\ store' = s
    BY <1>4 DEF Become
  <2> HIDE DEF s
  <2>3. GoesOn(s)
    BY <2>1 DEF GoesOn
  <2> QED
    BY <1>4, <2>1, <2>2, <2>3, WorkKeepsLosses
<1>5. CASE Halt \/ Resume
  BY <1>4, <1>5 DEF Halt, Resume
<1>6. CASE Wake
  <2> DEFINE c == CashFlows(state, today)
  <2>1. /\ phase = "run" /\ phase' = "run" /\ Become(c) /\ state' = c
        /\ store' = (IF c = state THEN store ELSE c)
        /\ UNCHANGED <<today, trips, replay>>
    BY <1>6 DEF Wake, Become
  <2>2. /\ c \in Records
        /\ IF state.cursor \in {-1, flows} THEN c.day = state.day ELSE c.day = today
    BY <1>0, CashFlowsRoll
  <2>3. IF state.cursor \in {-1, flows} THEN c.losses = state.losses /\ c.lock = state.lock
        ELSE c.losses = LossesOn(state, today) /\ c.lock = LockOn(state, today)
    BY <1>0, CashFlowsCount
  <2> HIDE DEF c
  <2>4. GoesOn(c) \/ BeginsToday(c)
    <3>1. CASE state.cursor \in {-1, flows}
      BY <2>2, <2>3, <3>1 DEF GoesOn
    <3>2. CASE state.cursor \notin {-1, flows}
      BY <1>b, <2>2, <2>3, <3>2
    <3> QED
      BY <3>1, <3>2
  <2>5. store' \in Records /\ store'.day = c.day /\ store'.lock = c.lock
    BY <1>0, <1>a, <2>1, <2>2
  <2> QED
    BY <2>1, <2>2, <2>4, <2>5, WorkKeepsLosses
<1>7. CASE Sleep \/ EntryEnds \/ RecordFlow \/ UNCHANGED vars
  BY <1>7, RestKeepsLosses DEF Sleep, EntryEnds, RecordFlow, vars, history, taskVars
<1>8. CASE Start
  <2>1. phase = "down" /\ phase' = "starting" /\ UNCHANGED <<today, trips, state, store, closed>>
    BY <1>8 DEF Start, history
  <2> QED
    BY <2>1 DEF LossInv, TripsFit, LossByPhase, LocksKept
<1>9. ASSUME NEW lost \in BOOLEAN, SellAtStart(lost) PROVE LossInv'
  <2>1. /\ phase = "starting" /\ phase' = phase /\ Become(Traded(state, lost, today)) /\ store' = state'
        /\ trips' = Append(trips, [day |-> today, lost |-> lost])
        /\ UNCHANGED <<today, replay>> /\ store.day < today
    BY <1>9, NoFaults DEF SellAtStart, NoFaults
  <2> QED
    BY <2>1, SaleKeepsLosses
<1>10. ASSUME NEW e \in KnownOrNot, BeginRebuild(e) PROVE LossInv'
  BY <1>10, BeginKeepsLosses
<1>11. CASE ReplayTrip
  BY <1>11, ReplayKeepsLosses
<1>12. ASSUME NEW e \in KnownOrNot, FinishRebuild(e) PROVE LossInv'
  <2>1. e \in Nat \ {0}
    BY <1>0
  <2> QED
    BY <1>12, <2>1, FinishKeepsLosses
<1>13. CASE Crash
  <2>1. /\ phase # "rebuild" /\ phase' = "down" /\ state' = Fresh
        /\ UNCHANGED <<today, trips, store, closed>>
    BY <1>13, NoFaults DEF Crash, NoFaults, history
  <2>2. Fresh.day = 0 /\ store.day \in Nat
    BY <1>0 DEF Fresh, Records
  <2>3. TripsFit' /\ LossByPhase'
    BY <2>1, <2>2 DEF LossInv, TripsFit, LossByPhase
  <2>4. LocksKept'
    BY <2>1 DEF LossInv, LocksKept
  <2> QED
    BY <2>3, <2>4 DEF LossInv
<1>14. CASE Midnight
  <2>1. /\ phase # "rebuild" /\ today' = today + 1 /\ today \in Nat
        /\ UNCHANGED <<trips, phase, state, store, closed>>
    BY <1>0, <1>14 DEF Midnight, history
  <2>2. /\ trips \in Seq(Sales) /\ store.day <= today
        /\ \A i \in DOMAIN trips : trips[i].day <= today
        /\ \A i \in DOMAIN trips : trips[i].day <= store.day
    BY <2>1 DEF LossInv, TripsFit
  <2>3. \A i \in DOMAIN trips : trips[i].day \in Nat
    BY <2>2, TripsAreSales
  <2>4. store.day \in Nat
    BY <1>0 DEF Records
  <2>5. /\ store.day <= today + 1 /\ store.day # today + 1
        /\ \A i \in DOMAIN trips : trips[i].day <= today + 1
    BY <2>1, <2>2, <2>3, <2>4
  <2>6. TripsFit'
    BY <2>1, <2>2, <2>5 DEF TripsFit
  <2>7. LossByPhase'
    BY <2>1 DEF LossInv, LossByPhase
  <2>8. \A d \in closed : d \in Nat /\ d <= today
    BY <1>0, ConstantsAssumption DEF LossInv, LocksKept
  <2>9. LocksKept'
    BY <2>1, <2>5, <2>8 DEF LossInv, LocksKept
  <2> QED
    BY <2>6, <2>7, <2>9 DEF LossInv
<1> QED
  BY <1>1, <1>2, <1>3, <1>5, <1>6, <1>7, <1>8, <1>9, <1>10, <1>11, <1>12, <1>13, <1>14
     DEF Next, Work, Startup, EnterPosition, RefuseEntry

\* LossesMatchTrips: the losses in memory are those of the day's trips in the
\* database, over any number of restarts, replays and midnights (risk/manager.py,
\* record_trade and rebuild), without faults.
THEOREM LossesMatch == ASSUME NoFaults PROVE Spec => []LossesMatchTrips
<1>1. DayInv /\ LossInv /\ [Next]_vars => DayInv' /\ LossInv'
  BY DayStep, LossStep
<1>2. Spec => [](DayInv /\ LossInv)
  BY <1>1, DayInit, LossInit, PTL DEF Spec
<1>3. LossInv => LossesMatchTrips
  BY DEF LossInv, LossByPhase, LossesMatchTrips, Trailing, LossesOf, TrailOf, MineOf
<1> QED
  BY <1>2, <1>3, PTL

\* NoEntryWhenClosed: no position is entered on a day that was locked once, nor
\* while a halt is in force (risk/manager.py, evaluate, _lock and rebuild), without
\* faults.
THEOREM ClosedDayStaysClosed == ASSUME NoFaults PROVE Spec => NoEntryWhenClosed
<1>0. NoLateSale
  BY NoFaults DEF NoFaults, NoLateSale
<1>1. DayInv /\ LossInv /\ [Next]_vars => DayInv' /\ LossInv'
  BY DayStep, LossStep
<1>2. Spec => [](DayInv /\ LossInv)
  BY <1>1, DayInit, LossInit, PTL DEF Spec
<1>3. Spec => []Inv
  BY <1>0, Invariance
<1>4. ASSUME DayInv, LossInv, Inv, [Next]_vars
      PROVE  [~entering /\ entering' => today \notin closed /\ ~halting]_vars
  <2> SUFFICES ASSUME Next, ~entering, entering' PROVE today \notin closed /\ ~halting
    BY <1>4
  <2>1. PICK e \in Equities : EnterPosition(e)
    BY DEF Next, Work, Startup, Tick, MainMarks, RefuseEntry, Evaluate, Sell, Wake, Sleep, EntryEnds,
           Halt, Resume, Start, SellAtStart, BeginRebuild, FinishRebuild, Restarted, ReplayTrip, Crash,
           Midnight, RecordFlow, taskVars, MainAtWork
  <2> DEFINE d == StartDay(state, today, e)
  <2>2. held["main"] = today /\ phase = "run" /\ state' = d /\ ~Blocked(d) /\ e \in Nat
        /\ today \in Nat /\ state \in Records
    BY <1>4, <2>1, ConstantsAssumption
       DEF EnterPosition, Evaluate, MainAtWork, Become, DayInv, TypesFit, NoDayAhead, Tasks, Days
  <2>3. d.lock = LockOn(state, today) /\ SameHalt(state, d)
    BY <2>2, StartDayCounts, StartDayKeeps
  <2> HIDE DEF d
  <2>4. state.halted = halting /\ HasHalt(state)
    BY <1>4, <2>2 DEF Inv, HaltKept
  <2>5. ~halting
    BY <2>2, <2>3, <2>4 DEF Blocked, SameHalt
  <2>6. today \in closed => state.day = today /\ state.lock # "none"
    BY <1>4, <2>2 DEF LossInv, LocksKept, DayInv, BaseByPhase
  <2>7. today \notin closed
    BY <2>2, <2>3, <2>6 DEF Blocked, LockOn
  <2> QED
    BY <2>5, <2>7
<1> QED
  BY <1>2, <1>3, <1>4, PTL DEF Spec, NoEntryWhenClosed
=============================================================================
