------------------------- MODULE LiveTradingProofs -------------------------
(***************************************************************************)
(* Proofs about LiveTrading for every set of markets and every bound.      *)
(*                                                                         *)
(* Inv is the inductive strengthening behind all of them: OrdersOK says    *)
(* what the orders made so far look like, HandsOK ties what a task has in  *)
(* hand to the orders and to the lock, QueuesOK ties the pending orders    *)
(* (and main's copy of them) to the records in the database.  BooksInv,    *)
(* further down, says what the books of a market may show at each moment   *)
(* of an order's life; it needs Inv and a run without failures of the      *)
(* database and of the process.                                            *)
(***************************************************************************)
EXTENDS LiveTrading, FiniteSetTheorems, WellFoundedInduction, TLAPS

Exchs == {"unsent", "absent", "open", "filled", "cancelled"}
Recs  == {"none", "UNKNOWN", "FILLED", "REJECTED", "EARLY"}
Pcs   == {"idle", "exits", "want", "wait", "resolve", "sync", "giveup"}

\* An order of whatever size and signal.
IsOrder(o) ==
  o \in [market : Markets, side : {"BUY", "SELL"}, signal : {o.signal}, size : {o.size},
         exch : Exchs, rec : Recs]

SignalsSaved ==
  \A i \in Made : order[i].signal # 0 => <<order[i].market, order[i].signal>> \in signals

UnknownWasSent == \A i \in Made : order[i].rec = "UNKNOWN" => order[i].exch # "unsent"

OrdersOK ==
  /\ made \in 0..MaxOrders
  /\ order = [i \in OrderIds |-> order[i]]
  /\ \A i \in Made : IsOrder(order[i])
  /\ SignalsSaved
  /\ UnknownWasSent
  /\ OneOrderPerSignal

\* What a task has in hand is an order of its own that is not yet recorded,
\* sent exactly when the task waits for it under the lock.
HandsOK ==
  /\ pc \in [Tasks -> Pcs]
  /\ req \in [Tasks -> 0..made]
  /\ lock \in Tasks \cup {Free}
  /\ OneCallAtATime
  /\ \A t \in Tasks : req[t] # 0 <=> pc[t] \in {"want", "wait"}
  /\ \A t \in Tasks : req[t] # 0 =>
       /\ order[req[t]].rec = "none"
       /\ order[req[t]].exch = "unsent" <=> pc[t] = "want"
  /\ \A t, u \in Tasks : req[t] = req[u] /\ req[t] # 0 => t = u
  /\ phase # "run" => \A t \in Tasks : pc[t] \in {"idle", "resolve", "giveup"}

Recorded(q) ==
  /\ q \in [Markets -> 0..made]
  /\ \A m \in Markets : q[m] # 0 => order[q[m]].market = m /\ order[q[m]].rec = "UNKNOWN"

QueuesOK == Recorded(pending) /\ Recorded(todo)

Inv == OrdersOK /\ HandsOK /\ QueuesOK

(***************************************************************************)
(* Lemmas about the operators the actions are built from.                  *)
(***************************************************************************)

\* Orders are made in the order of their numbers.
LEMMA MadeNat == OrdersOK => made \in Nat /\ Made \subseteq OrderIds /\ MaxOrders \in Nat
BY ConstantsAssumption DEF OrdersOK, Made, OrderIds

\* Min of a non-empty set of numbers is one of them.
LEMMA MinIsMember ==
  ASSUME NEW S \in SUBSET Nat, S # {}
  PROVE  Min(S) \in S
<1>1. PICK x \in S : \A y \in S : ~ (<<y, x>> \in OpToRel(<, Nat))
  BY WFMin, NatLessThanWellFounded, Zenon
<1>2. ASSUME NEW y \in S PROVE x =< y
  <2>1. ~ (y < x)
    BY <1>1, <1>2 DEF OpToRel
  <2>2. QED
    BY <2>1
<1>3. \E z \in S : \A y \in S : z =< y
  BY <1>2
<1>4. QED
  BY <1>3, Zenon DEF Min

\* A new record for an order changes nothing else about any order.
LEMMA NewRecord ==
  ASSUME OrdersOK, NEW i \in Made, NEW r \in Recs,
         order' = [order EXCEPT ![i].rec = r], made' = made, signals' = signals
  PROVE  /\ \A j \in Made : /\ order'[j].market = order[j].market
                            /\ order'[j].signal = order[j].signal
                            /\ order'[j].exch   = order[j].exch
                            /\ order'[j].rec    = IF j = i THEN r ELSE order[j].rec
         /\ order[i].exch # "unsent" \/ r # "UNKNOWN" => OrdersOK'
<1> USE MadeNat
<1>1. \A j \in Made : j # i => order'[j] = order[j]
  BY DEF OrdersOK
<1>2. order'[i] = [order[i] EXCEPT !.rec = r]
  BY DEF OrdersOK
<1>3. /\ IsOrder(order'[i]) /\ order'[i].rec = r /\ order'[i].exch = order[i].exch
      /\ order'[i].market = order[i].market /\ order'[i].signal = order[i].signal
  BY <1>2 DEF OrdersOK, IsOrder
<1>4. \A j \in Made : IsOrder(order'[j])
  BY <1>1, <1>3 DEF OrdersOK
<1>5. \A j \in Made : /\ order'[j].market = order[j].market
                      /\ order'[j].signal = order[j].signal
                      /\ order'[j].exch   = order[j].exch
                      /\ order'[j].rec    = IF j = i THEN r ELSE order[j].rec
  BY <1>1, <1>3
<1>6. order' = [j \in OrderIds |-> order'[j]]
  BY DEF OrdersOK
<1>7. Made' = Made
  BY DEF Made
<1>8. ASSUME order[i].exch # "unsent" \/ r # "UNKNOWN" PROVE OrdersOK'
  <2>1. SignalsSaved'
    BY <1>5, <1>7 DEF OrdersOK, SignalsSaved
  <2>4. OneOrderPerSignal'
    <3>1. \A j, k \in Made :
            /\ order'[j].signal # 0 /\ order'[j].signal = order'[k].signal
            /\ order'[j].market = order'[k].market
            => j = k
      BY <1>5 DEF OrdersOK, OneOrderPerSignal
    <3>2. QED
      BY <3>1, <1>7 DEF OneOrderPerSignal
  <2>2. UnknownWasSent'
    BY <1>5, <1>7, <1>8 DEF OrdersOK, UnknownWasSent
  <2>3. QED
    BY <1>4, <1>6, <1>7, <2>1, <2>2, <2>4 DEF OrdersOK, OrderIds
<1>9. QED
  BY <1>5, <1>8

\* Neither does news from the exchange about an order.
LEMMA NewExchange ==
  ASSUME OrdersOK, NEW i \in Made, NEW e \in Exchs \ {"unsent"},
         \/ order' = [order EXCEPT ![i].exch = e]
         \/ \E n : order' = [order EXCEPT ![i].exch = e, ![i].size = n],
         made' = made, signals' = signals
  PROVE  /\ \A j \in Made : /\ order'[j].market = order[j].market
                            /\ order'[j].signal = order[j].signal
                            /\ order'[j].rec    = order[j].rec
                            /\ order'[j].exch   = IF j = i THEN e ELSE order[j].exch
         /\ OrdersOK'
<1> USE MadeNat
<1>1. \A j \in Made : j # i => order'[j] = order[j]
  BY DEF OrdersOK
<1>3. /\ IsOrder(order'[i]) /\ order'[i].exch = e /\ order'[i].rec = order[i].rec
      /\ order'[i].market = order[i].market /\ order'[i].signal = order[i].signal
  <2>1. CASE order' = [order EXCEPT ![i].exch = e]
    <3>1. order'[i] = [order[i] EXCEPT !.exch = e]
      BY <2>1 DEF OrdersOK
    <3>2. QED
      BY <3>1 DEF OrdersOK, IsOrder
  <2>2. ASSUME NEW n, order' = [order EXCEPT ![i].exch = e, ![i].size = n]
        PROVE  <1>3!1
    <3>1. order'[i] = [order[i] EXCEPT !.exch = e, !.size = n]
      BY <2>2 DEF OrdersOK
    <3>2. QED
      BY <3>1 DEF OrdersOK, IsOrder
  <2>3. QED
    BY <2>1, <2>2
<1>4. \A j \in Made : IsOrder(order'[j])
  BY <1>1, <1>3 DEF OrdersOK
<1>5. \A j \in Made : /\ order'[j].market = order[j].market
                      /\ order'[j].signal = order[j].signal
                      /\ order'[j].rec    = order[j].rec
                      /\ order'[j].exch   = IF j = i THEN e ELSE order[j].exch
  BY <1>1, <1>3
<1>6. order' = [j \in OrderIds |-> order'[j]]
  BY DEF OrdersOK
<1>7. Made' = Made
  BY DEF Made
<1>8. SignalsSaved' /\ UnknownWasSent'
  BY <1>5, <1>7 DEF OrdersOK, SignalsSaved, UnknownWasSent
<1>10. \A j, k \in Made :
         /\ order'[j].signal # 0 /\ order'[j].signal = order'[k].signal
         /\ order'[j].market = order'[k].market
         => j = k
  BY <1>5 DEF OrdersOK, OneOrderPerSignal
<1>11. OneOrderPerSignal'
  BY <1>7, <1>10 DEF OneOrderPerSignal
<1>9. QED
  BY <1>4, <1>5, <1>6, <1>7, <1>8, <1>11 DEF OrdersOK, OrderIds

\* A new order joins the others; the signal it stands for is new and saved.
LEMMA NewOrder ==
  ASSUME OrdersOK, NEW t \in Tasks, NEW m \in Markets, NEW side \in {"BUY", "SELL"},
         NEW signal, MakeOrder(t, m, side, signal), signals \subseteq signals',
         signal # 0 => <<m, signal>> \notin signals /\ <<m, signal>> \in signals'
  PROVE  /\ made' = made + 1 /\ Made' = Made \cup {made + 1} /\ made + 1 \notin Made
         /\ made + 1 \in OrderIds
         /\ \A j \in Made : order'[j] = order[j]
         /\ order'[made + 1].rec = "none" /\ order'[made + 1].exch = "unsent"
         /\ OrdersOK'
<1> DEFINE new == [market |-> m, side |-> side, signal |-> signal, size |-> 0,
                   exch |-> "unsent", rec |-> "none"]
<1> USE MadeNat
<1>1. made' = made + 1 /\ Made' = Made \cup {made + 1} /\ made + 1 \notin Made
      /\ made + 1 \in OrderIds /\ made' \in 0..MaxOrders
  BY DEF MakeOrder, Made, OrderIds
<1>2. order' = [order EXCEPT ![made + 1] = new]
  BY DEF MakeOrder
<1>3. order'[made + 1] = new /\ \A j \in Made : order'[j] = order[j]
  BY <1>1, <1>2 DEF OrdersOK
<1>4. order' = [j \in OrderIds |-> order'[j]]
  BY <1>2 DEF OrdersOK
<1>5. \A j \in Made' : IsOrder(order'[j])
  <2>1. IsOrder(new)
    BY DEF IsOrder, Exchs, Recs
  <2>2. QED
    BY <2>1, <1>1, <1>3 DEF OrdersOK
<1>6. SignalsSaved'
  BY <1>1, <1>3 DEF OrdersOK, SignalsSaved
<1>7. UnknownWasSent'
  BY <1>1, <1>3 DEF OrdersOK, UnknownWasSent
<1>8. OneOrderPerSignal'
  <2>1. \A j \in Made : order[j].signal = signal /\ order[j].market = m => signal = 0
    BY DEF OrdersOK, SignalsSaved
  <2> HIDE DEF new
  <2>2. new.signal = signal /\ new.market = m
    BY DEF new
  <2>3. \A j, k \in Made \cup {made + 1} :
          /\ order'[j].signal # 0 /\ order'[j].signal = order'[k].signal
          /\ order'[j].market = order'[k].market
          => j = k
    BY ZenonT(60), <1>1, <1>3, <2>1, <2>2 DEF OrdersOK, OneOrderPerSignal
  <2>4. QED
    BY <2>3, <1>1 DEF OneOrderPerSignal
<1>9. order'[made + 1].rec = "none" /\ order'[made + 1].exch = "unsent"
  BY <1>3
<1>10. QED
  BY <1>1, <1>3, <1>4, <1>5, <1>6, <1>7, <1>8, <1>9 DEF OrdersOK

\* What is queued stays queued rightly while its orders keep market and record.
LEMMA SameQueues ==
  ASSUME QueuesOK, made' = made \/ made' = made + 1, made \in Nat,
         \A j \in Made : order'[j].market = order[j].market /\ order'[j].rec = order[j].rec,
         pending' = pending, todo' = todo \/ todo' = pending
  PROVE  QueuesOK'
BY DEF QueuesOK, Recorded, Made

(***************************************************************************)
(* Inv is inductive: one step per action.                                  *)
(***************************************************************************)

\* No order is made yet.
LEMMA InvInit == Init => Inv
<1> SUFFICES ASSUME Init PROVE Inv
  OBVIOUS
<1> USE DEF Init, Made
<1>1. OrdersOK
  BY ConstantsAssumption DEF OrdersOK, SignalsSaved, UnknownWasSent, OneOrderPerSignal
<1>2. HandsOK
  BY DEF HandsOK, OneCallAtATime, Tasks, Pcs, Free
<1>3. QueuesOK
  BY DEF QueuesOK, Recorded, NoOrders
<1>4. QED
  BY <1>1, <1>2, <1>3 DEF Inv

\* Steps that leave the orders and the signals alone.
LEMMA SameOrders ==
  ASSUME OrdersOK, UNCHANGED <<orderVars, signals>>
  PROVE  OrdersOK'
BY DEF orderVars, OrdersOK, SignalsSaved, UnknownWasSent, OneOrderPerSignal, Made

\* Steps that leave the tasks' hands alone too.
LEMMA SameHands ==
  ASSUME OrdersOK, HandsOK, UNCHANGED <<made, req, lock>>,
         pc' \in [Tasks -> Pcs],
         \A t \in Tasks : pc'[t] = pc[t] \/ {pc[t], pc'[t]} \cap {"want", "wait"} = {},
         \A j \in Made : order[j].rec = "none" =>
           /\ order'[j].rec = "none"
           /\ order'[j].exch = "unsent" <=> order[j].exch = "unsent",
         phase' # "run" => \A t \in Tasks : pc'[t] \in {"idle", "resolve", "giveup"}
  PROVE  HandsOK'
<1> USE MadeNat
<1>1. \A t \in Tasks : /\ pc'[t] = "wait" <=> pc[t] = "wait"
                       /\ pc'[t] = "want" <=> pc[t] = "want"
  OBVIOUS
<1>2. OneCallAtATime'
  BY <1>1 DEF HandsOK, OneCallAtATime
<1>3. \A t \in Tasks : req[t] # 0 => req[t] \in Made
  BY DEF HandsOK, Made
<1>4. \A t \in Tasks : req'[t] # 0 => /\ order'[req'[t]].rec = "none"
                                      /\ order'[req'[t]].exch = "unsent" <=> pc'[t] = "want"
  BY <1>1, <1>3 DEF HandsOK
<1>5. QED
  BY <1>1, <1>2, <1>4 DEF HandsOK

\* Every step of the tasks, of the exchange and of a restart keeps the invariant.
LEMMA InvStep == Inv /\ [Next]_vars => Inv'
<1> SUFFICES ASSUME Inv, [Next]_vars PROVE Inv'
  OBVIOUS
<1> USE MadeNat DEF Inv
<1> USE DEF orderVars, exchangeVars, bookVars, taskVars
<1>1. CASE UNCHANGED vars
  BY <1>1, SameOrders
     DEF vars, HandsOK, QueuesOK, Recorded, OneCallAtATime
<1>2. ASSUME NEW m \in Markets, SignalWithoutOrder(m) PROVE Inv'
  <2>1. OrdersOK'
    BY <1>2 DEF SignalWithoutOrder, OrdersOK, SignalsSaved, UnknownWasSent,
                OneOrderPerSignal, Made
  <2>2. HandsOK' /\ QueuesOK'
    BY <1>2 DEF SignalWithoutOrder, HandsOK, QueuesOK, Recorded, OneCallAtATime
  <2>3. QED
    BY <2>1, <2>2
<1>3. ASSUME NEW m \in Markets, NEW s \in {"BUY", "SELL"}, SignalOrder(m, s) PROVE Inv'
  <2>1. /\ made' = made + 1 /\ Made' = Made \cup {made + 1} /\ made + 1 \notin Made
        /\ \A j \in Made : order'[j] = order[j]
        /\ order'[made + 1].rec = "none" /\ order'[made + 1].exch = "unsent"
        /\ OrdersOK'
    BY <1>3, NewOrder DEF SignalOrder, Tasks
  <2>2. HandsOK'
    <3>1. /\ req' = [req EXCEPT !["main"] = made + 1]
          /\ pc' = [pc EXCEPT !["main"] = "want"] /\ pc["main"] = "idle"
          /\ lock' = lock /\ phase' = "run"
      BY <1>3 DEF SignalOrder, MakeOrder, MainIdle
    <3>2. QED
      BY <2>1, <3>1 DEF HandsOK, OneCallAtATime, Tasks, Pcs, Free, Made
  <2>3. QueuesOK'
    BY <1>3, <2>1, SameQueues DEF SignalOrder
  <2>4. QED
    BY <2>1, <2>2, <2>3
<1>4. ASSUME NEW t \in Tasks, BeginExits(t) PROVE Inv'
  <2>1. OrdersOK'
    BY <1>4, SameOrders DEF BeginExits
  <2>2. HandsOK'
    BY <1>4 DEF BeginExits, HandsOK, OneCallAtATime, Tasks, Pcs
  <2>3. QueuesOK'
    BY <1>4 DEF BeginExits, QueuesOK, Recorded
  <2>4. QED
    BY <2>1, <2>2, <2>3
<1>5. ASSUME NEW t \in Tasks, NEW m \in Markets, SkipExit(t, m) PROVE Inv'
  <2>1. OrdersOK'
    BY <1>5, SameOrders DEF SkipExit
  <2>2. HandsOK'
    BY <1>5 DEF SkipExit, After, HandsOK, OneCallAtATime, Tasks, Pcs
  <2>3. QueuesOK'
    BY <1>5 DEF SkipExit, QueuesOK, Recorded
  <2>4. QED
    BY <2>1, <2>2, <2>3
<1>6. ASSUME NEW t \in Tasks, NEW m \in Markets, ExitOrder(t, m) PROVE Inv'
  <2>1. /\ made' = made + 1 /\ Made' = Made \cup {made + 1} /\ made + 1 \notin Made
        /\ \A j \in Made : order'[j] = order[j]
        /\ order'[made + 1].rec = "none" /\ order'[made + 1].exch = "unsent"
        /\ OrdersOK'
    BY <1>6, NewOrder DEF ExitOrder
  <2>2. HandsOK'
    <3>1. /\ req' = [req EXCEPT ![t] = made + 1]
          /\ pc' = [pc EXCEPT ![t] = "want"] /\ pc[t] = "exits"
          /\ lock' = lock /\ phase' = phase
      BY <1>6 DEF ExitOrder, MakeOrder
    <3>2. QED
      BY <2>1, <3>1 DEF HandsOK, OneCallAtATime, Tasks, Pcs, Free, Made
  <2>3. QueuesOK'
    BY <1>6, <2>1, SameQueues DEF ExitOrder
  <2>4. QED
    BY <2>1, <2>2, <2>3
<1>7. ASSUME NEW t \in Tasks, RefuseOrder(t) PROVE Inv'
  <2>1. req[t] \in Made /\ order[req[t]].rec = "none"
    BY <1>7 DEF RefuseOrder, HandsOK, Made
  <2>2. OrdersOK' /\ \A j \in Made : /\ order'[j].market = order[j].market
                                     /\ order'[j].exch = order[j].exch
                                     /\ order'[j].rec = IF j = req[t] THEN "REJECTED" ELSE order[j].rec
    BY ZenonT(60), <1>7, <2>1, NewRecord DEF RefuseOrder, Recs
  <2>3. HandsOK'
    BY <1>7, <2>2 DEF RefuseOrder, Resume, After, HandsOK, OneCallAtATime, Tasks, Pcs, Free, Made
  <2>4. QueuesOK'
    BY <1>7, <2>1, <2>2 DEF RefuseOrder, QueuesOK, Recorded, Made
  <2>5. QED
    BY <2>2, <2>3, <2>4
<1>8. ASSUME NEW t \in Tasks, Send(t) PROVE Inv'
  <2>1. req[t] \in Made /\ order[req[t]].rec = "none"
    BY <1>8 DEF Send, HandsOK, Made
  <2>2. PICK e \in {"open", "absent"} :
          order' = [order EXCEPT ![req[t]].exch = e, ![req[t]].size = AskedSize(req[t])]
    BY <1>8 DEF Send
  <2>3. OrdersOK' /\ \A j \in Made : /\ order'[j].market = order[j].market
                                     /\ order'[j].rec = order[j].rec
                                     /\ order'[j].exch = IF j = req[t] THEN e ELSE order[j].exch
    <3>1. made' = made /\ signals' = signals /\ e \in Exchs \ {"unsent"}
      BY <1>8 DEF Send, Exchs
    <3>2. QED
      BY ZenonT(60), <2>1, <2>2, <3>1, NewExchange
  <2>4. HandsOK'
    <3>1. /\ lock = Free /\ lock' = t /\ pc[t] = "want" /\ pc' = [pc EXCEPT ![t] = "wait"]
          /\ req' = req /\ made' = made /\ phase' = phase
      BY <1>8 DEF Send
    <3>2. \A u \in Tasks : u # t => pc[u] # "wait"
      BY <3>1 DEF HandsOK, OneCallAtATime, Tasks, Free
    <3>3. OneCallAtATime'
      BY <3>1, <3>2 DEF HandsOK, OneCallAtATime
    <3>4. \A u \in Tasks : req[u] # 0 => req[u] \in Made
      BY DEF HandsOK, Made
    <3>5. \A u \in Tasks : req'[u] # 0 =>
            /\ order'[req'[u]].rec = "none"
            /\ order'[req'[u]].exch = "unsent" <=> pc'[u] = "want"
      BY <2>3, <3>1, <3>4 DEF HandsOK
    <3>6. QED
      BY <3>1, <3>3, <3>5 DEF HandsOK, Pcs
  <2>5. QueuesOK'
    BY <1>8, <2>3, SameQueues DEF Send
  <2>6. QED
    BY <2>3, <2>4, <2>5
<1>9. ASSUME NEW t \in Tasks, ConcludeSettled(t) PROVE Inv'
  <2>1. req[t] \in Made /\ order[req[t]].rec = "none"
    BY <1>9 DEF ConcludeSettled, HandsOK, Made
  <2>2. PICK r \in {"FILLED", "REJECTED"} : order' = [order EXCEPT ![req[t]].rec = r]
    BY <1>9 DEF ConcludeSettled, Settle
  <2>3. OrdersOK' /\ \A j \in Made : /\ order'[j].market = order[j].market
                                     /\ order'[j].exch = order[j].exch
                                     /\ order'[j].rec = IF j = req[t] THEN r ELSE order[j].rec
    <3>1. made' = made /\ signals' = signals /\ r \in Recs /\ r # "UNKNOWN"
      BY <1>9 DEF ConcludeSettled, Recs
    <3>2. QED
      BY ZenonT(60), <2>1, <2>2, <3>1, NewRecord
  <2>4. HandsOK'
    BY <1>9, <2>3 DEF ConcludeSettled, Resume, After, HandsOK, OneCallAtATime, Tasks, Pcs,
                      Free, Made
  <2>5. QueuesOK'
    BY <1>9, <2>1, <2>3 DEF ConcludeSettled, QueuesOK, Recorded, Made
  <2>6. QED
    BY <2>3, <2>4, <2>5
<1>26. ASSUME NEW t \in Tasks, ConcludeEarly(t) PROVE Inv'
  <2>1. req[t] \in Made /\ order[req[t]].rec = "none"
    BY <1>26 DEF ConcludeEarly, HandsOK, Made
  <2>2. OrdersOK' /\ \A j \in Made : /\ order'[j].market = order[j].market
                                     /\ order'[j].exch = order[j].exch
                                     /\ order'[j].rec = IF j = req[t] THEN "EARLY" ELSE order[j].rec
    <3>1. /\ order' = [order EXCEPT ![req[t]].rec = "EARLY"]
          /\ made' = made /\ signals' = signals /\ "EARLY" \in Recs /\ "EARLY" # "UNKNOWN"
      BY <1>26 DEF ConcludeEarly, Recs
    <3>2. QED
      BY ZenonT(60), <2>1, <3>1, NewRecord
  <2>3. HandsOK'
    BY <1>26, <2>2 DEF ConcludeEarly, Resume, After, HandsOK, OneCallAtATime, Tasks, Pcs,
                       Free, Made
  <2>4. QueuesOK'
    BY <1>26, <2>1, <2>2 DEF ConcludeEarly, QueuesOK, Recorded, Made
  <2>5. QED
    BY <2>2, <2>3, <2>4
<1>10. ASSUME NEW t \in Tasks, ConcludeUnknown(t) PROVE Inv'
  <2>1. req[t] \in Made /\ order[req[t]].rec = "none" /\ order[req[t]].exch # "unsent"
    BY <1>10 DEF ConcludeUnknown, HandsOK, Made
  <2>2. OrdersOK' /\ \A j \in Made : /\ order'[j].market = order[j].market
                                     /\ order'[j].exch = order[j].exch
                                     /\ order'[j].rec = IF j = req[t] THEN "UNKNOWN" ELSE order[j].rec
    BY ZenonT(60), <1>10, <2>1, NewRecord DEF ConcludeUnknown, Recs
  <2>3. HandsOK'
    BY <1>10, <2>2 DEF ConcludeUnknown, Resume, After, HandsOK, OneCallAtATime, Tasks, Pcs,
                       Free, Made
  <2>4. QueuesOK'
    <3>1. /\ pending' = [pending EXCEPT ![order[req[t]].market] = req[t]]
          /\ todo' = todo /\ made' = made
      BY <1>10 DEF ConcludeUnknown
    <3>2. \A q \in {pending, todo} : \A m \in Markets : q[m] # 0 => q[m] \in Made
      BY DEF QueuesOK, Recorded, Made
    <3>3. Recorded(todo)'
      BY <2>2, <3>1, <3>2 DEF QueuesOK, Recorded
    <3>4. ASSUME NEW m \in Markets, pending'[m] # 0
          PROVE  order'[pending'[m]].market = m /\ order'[pending'[m]].rec = "UNKNOWN"
      <4>1. CASE m = order[req[t]].market
        BY <2>1, <2>2, <3>1, <4>1 DEF QueuesOK, Recorded
      <4>2. CASE m # order[req[t]].market
        <5>1. pending'[m] = pending[m]
          BY <3>1, <4>2 DEF QueuesOK, Recorded
        <5>2. QED
          BY <2>2, <3>2, <3>4, <5>1 DEF QueuesOK, Recorded
      <4>3. QED
        BY <4>1, <4>2
    <3>6. pending' \in [Markets -> 0..made']
      <4>1. pending \in [Markets -> 0..made] /\ req[t] \in 0..made
        BY DEF QueuesOK, Recorded, HandsOK
      <4>2. pending' \in [Markets -> 0..made]
        BY <3>1, <4>1
      <4>3. QED
        BY <3>1, <4>2
    <3>5. QED
      BY <3>3, <3>4, <3>6 DEF QueuesOK, Recorded
  <2>5. QED
    BY <2>2, <2>3, <2>4
<1>11. ASSUME NEW t \in Tasks, ConcludeUnrecorded(t) PROVE Inv'
  <2>1. OrdersOK'
    BY <1>11, SameOrders DEF ConcludeUnrecorded
  <2>2. HandsOK'
    BY <1>11 DEF ConcludeUnrecorded, Abandon, HandsOK, OneCallAtATime, Tasks, Pcs, Free
  <2>3. QueuesOK'
    BY <1>11 DEF ConcludeUnrecorded, QueuesOK, Recorded
  <2>4. QED
    BY <2>1, <2>2, <2>3
<1>12. CASE BeginResolve
  <2>1. OrdersOK'
    BY <1>12, SameOrders DEF BeginResolve
  <2>2. HandsOK'
    BY <1>12 DEF BeginResolve, MainIdle, HandsOK, OneCallAtATime, Tasks, Pcs
  <2>3. QueuesOK'
    BY <1>12 DEF BeginResolve, QueuesOK, Recorded
  <2>4. QED
    BY <2>1, <2>2, <2>3
<1>13. ASSUME NEW m \in Markets, ResolveLater(m) PROVE Inv'
  <2>1. OrdersOK'
    BY <1>13, SameOrders DEF ResolveLater
  <2>2. HandsOK'
    BY <1>13 DEF ResolveLater, Resolving, GoOn, HandsOK, OneCallAtATime, Tasks, Pcs
  <2>3. QueuesOK'
    BY <1>13 DEF ResolveLater, QueuesOK, Recorded
  <2>4. QED
    BY <2>1, <2>2, <2>3
<1>14. ASSUME NEW m \in Markets, ResolveSettled(m) PROVE Inv'
  <2>1. /\ todo[m] \in Made /\ order[todo[m]].rec = "UNKNOWN" /\ order[todo[m]].market = m
        /\ pc["main"] = "resolve"
    BY <1>14 DEF ResolveSettled, Resolving, QueuesOK, Recorded, Made
  <2>2. PICK r \in {"FILLED", "REJECTED"} : order' = [order EXCEPT ![todo[m]].rec = r]
    BY <1>14 DEF ResolveSettled, Settle
  <2>3. OrdersOK' /\ \A j \in Made : /\ order'[j].market = order[j].market
                                     /\ order'[j].exch = order[j].exch
                                     /\ order'[j].rec = IF j = todo[m] THEN r ELSE order[j].rec
    <3>1. made' = made /\ signals' = signals /\ r \in Recs /\ r # "UNKNOWN"
      BY <1>14 DEF ResolveSettled, Recs
    <3>2. QED
      BY ZenonT(60), <2>1, <2>2, <3>1, NewRecord
  <2>4. HandsOK'
    <3>1. \A t \in Tasks : req[t] # 0 => req[t] \in Made /\ req[t] # todo[m]
      BY <2>1 DEF HandsOK, Made
    <3>2. QED
      BY <1>14, <2>1, <2>3, <3>1
         DEF ResolveSettled, Resolving, GoOn, HandsOK, OneCallAtATime, Tasks, Pcs
  <2>5. QueuesOK'
    BY <1>14, <2>1, <2>3 DEF ResolveSettled, QueuesOK, Recorded, Made
  <2>6. QED
    BY <2>3, <2>4, <2>5
<1>15. ASSUME NEW m \in Markets, GiveUp(m) PROVE Inv'
  <2>1. OrdersOK'
    BY <1>15, SameOrders DEF GiveUp
  <2>2. HandsOK'
    <3>1. /\ pc["main"] = "resolve" /\ pc' = [pc EXCEPT !["main"] = "giveup"]
          /\ lock' = lock /\ req' = req /\ order' = order /\ made' = made /\ phase' = phase
      BY <1>15 DEF GiveUp, Resolving
    <3>2. QED
      BY <3>1 DEF HandsOK, OneCallAtATime, Tasks, Pcs
  <2>3. QueuesOK'
    BY <1>15 DEF GiveUp, QueuesOK, Recorded
  <2>4. QED
    BY <2>1, <2>2, <2>3
<1>25. ASSUME NEW m \in Markets, ResolveUnrecorded(m) PROVE Inv'
  <2>1. OrdersOK'
    BY <1>25, SameOrders DEF ResolveUnrecorded, orderVars
  <2>2. HandsOK'
    <3>1. /\ pc["main"] = "resolve" /\ pc' = [pc EXCEPT !["main"] = "idle"]
          /\ lock' = lock /\ req' = req /\ order' = order /\ made' = made /\ phase' = phase
      BY <1>25 DEF ResolveUnrecorded, Resolving, GoOn, orderVars
    <3>2. QED
      BY <3>1 DEF HandsOK, OneCallAtATime, Tasks, Pcs
  <2>3. QueuesOK'
    <3>1. /\ order' = order /\ made' = made /\ todo' = [x \in Markets |-> 0]
          /\ pending' = [pending EXCEPT ![m] = 0]
      BY <1>25 DEF ResolveUnrecorded, orderVars, NoOrders
    <3>2. QED
      BY <3>1 DEF QueuesOK, Recorded
  <2>4. QED
    BY <2>1, <2>2, <2>3
<1>16. CASE BeginSync
  <2>1. OrdersOK'
    BY <1>16, SameOrders DEF BeginSync
  <2>2. HandsOK'
    BY <1>16 DEF BeginSync, MainIdle, HandsOK, OneCallAtATime, Tasks, Pcs
  <2>3. QueuesOK'
    BY <1>16 DEF BeginSync, QueuesOK, Recorded
  <2>4. QED
    BY <2>1, <2>2, <2>3
<1>17. CASE Sync
  <2>1. OrdersOK'
    BY <1>17, SameOrders DEF Sync
  <2>2. HandsOK'
    BY <1>17 DEF Sync, GoOn, HandsOK, OneCallAtATime, Tasks, Pcs
  <2>3. QueuesOK'
    BY <1>17 DEF Sync, QueuesOK, Recorded
  <2>4. QED
    BY <2>1, <2>2, <2>3
<1>18. CASE Build \/ StartSync
  <2>1. OrdersOK'
    BY <1>18, SameOrders DEF Build, StartSync
  <2>2. HandsOK'
    BY <1>18 DEF Build, StartSync, HandsOK, OneCallAtATime, Tasks, Pcs
  <2>3. QueuesOK'
    BY <1>18 DEF Build, StartSync, QueuesOK, Recorded
  <2>4. QED
    BY <2>1, <2>2, <2>3
<1>19. CASE LoadPending
  <2>1. OrdersOK'
    BY <1>19, SameOrders DEF LoadPending
  <2>2. HandsOK'
    BY <1>19 DEF LoadPending, GoOn, HandsOK, OneCallAtATime, Tasks, Pcs
  <2>3. \A m \in Markets : Unknown(m) # {} => Min(Unknown(m)) \in Unknown(m)
    BY MinIsMember DEF Unknown, Made
  <2>4. Recorded(pending')
    BY <1>19, <2>3 DEF LoadPending, Recorded, Unknown, Made
  <2>5. order' = order /\ made' = made /\ todo' = pending'
    BY <1>19 DEF LoadPending
  <2>6. QueuesOK'
    BY <2>4, <2>5 DEF QueuesOK, Recorded
  <2>7. QED
    BY <2>1, <2>2, <2>6
<1>20. CASE Run
  <2>1. OrdersOK'
    BY <1>20, SameOrders DEF Run
  <2>2. HandsOK'
    BY <1>20 DEF Run, HandsOK, OneCallAtATime, Tasks, Pcs
  <2>3. QueuesOK'
    BY <1>20 DEF Run, QueuesOK, Recorded
  <2>4. QED
    BY <2>1, <2>2, <2>3
<1>21. CASE Crash
  <2>1. OrdersOK'
    BY <1>21, SameOrders DEF Crash
  <2>2. HandsOK'
    BY <1>21 DEF Crash, HandsOK, OneCallAtATime, Tasks, Pcs, Free
  <2>3. QueuesOK'
    BY <1>21 DEF Crash, QueuesOK, Recorded, NoOrders
  <2>4. QED
    BY <2>1, <2>2, <2>3
<1>22. CASE CloseCandle
  <2>1. OrdersOK'
    BY <1>22, SameOrders DEF CloseCandle
  <2>2. HandsOK' /\ QueuesOK'
    BY <1>22 DEF CloseCandle, HandsOK, OneCallAtATime, QueuesOK, Recorded
  <2>3. QED
    BY <2>1, <2>2
<1>23. ASSUME NEW i \in OrderIds, Fill(i) \/ Cancel(i) PROVE Inv'
  <2>1. i \in Made /\ order[i].exch = "open"
    BY <1>23 DEF Fill, Cancel
  <2>2. PICK e \in {"filled", "cancelled"} : order' = [order EXCEPT ![i].exch = e]
    BY <1>23 DEF Fill, Cancel
  <2>3. OrdersOK' /\ \A j \in Made : /\ order'[j].market = order[j].market
                                     /\ order'[j].rec = order[j].rec
                                     /\ order'[j].exch = IF j = i THEN e ELSE order[j].exch
    <3>1. made' = made /\ signals' = signals /\ e \in Exchs \ {"unsent"}
      BY <1>23 DEF Fill, Cancel, Exchs
    <3>2. QED
      BY <2>1, <2>2, <3>1, NewExchange
  <2>4. HandsOK'
    BY <1>23, <2>1, <2>3, SameHands DEF Fill, Cancel, HandsOK
  <2>5. QueuesOK'
    BY <1>23, <2>3, SameQueues DEF Fill, Cancel
  <2>6. QED
    BY <2>3, <2>4, <2>5
<1>24. QED
  BY <1>1, <1>2, <1>3, <1>4, <1>5, <1>6, <1>7, <1>8, <1>9, <1>10, <1>11, <1>12, <1>13,
     <1>14, <1>15, <1>16, <1>17, <1>18, <1>19, <1>20, <1>21, <1>22, <1>23, <1>25, <1>26
     DEF Next, Decide, Execute, Conclude, Resolve, ResolveOne, Startup, Exchange

\* Who holds the lock, who waits, what is recorded and what is pending agree at
\* every moment: the invariant the theorems below follow from.
THEOREM Invariance == Spec => []Inv
<1>1. QED
  BY InvInit, InvStep, PTL DEF Spec

\* OneOrderPerSignal: a closed candle that was decided on is never ordered twice,
\* over restarts and recomputed candles (engine.py, _on_signal and save_signal).
THEOREM SignalOrderedOnce == Spec => []OneOrderPerSignal
<1>1. Inv => OneOrderPerSignal
  BY DEF Inv, OrdersOK
<1>2. QED
  BY Invariance, <1>1, PTL

\* OneCallAtATime: the broker lock admits one execute at a time, whatever the two
\* tasks do and wherever one is cancelled (live_broker.py, execute).
THEOREM CallsExclusive == Spec => []OneCallAtATime
<1>1. Inv => OneCallAtATime
  BY DEF Inv, HandsOK
<1>2. QED
  BY Invariance, <1>1, PTL

\* PendingIsRecorded: an order the engine waits for is in the database as UNKNOWN,
\* so that a restart finds it again (engine.py, _record_order).
THEOREM PendingRecorded == Spec => []PendingIsRecorded
<1>1. Inv => PendingIsRecorded
  BY DEF Inv, QueuesOK, Recorded, PendingIsRecorded
<1>2. QED
  BY Invariance, <1>1, PTL

(***************************************************************************)
(* Every step is a step of the promise or none of its business.            *)
(***************************************************************************)

\* How the promise may move for one order, seen from LiveTrading.
Moves(i) ==
  \/ /\ ToldAs(i) = "nothing" /\ ToldAs(i)' = "asked"
     /\ PlacedAs(i) = "absent" /\ PlacedAs(i)' = "absent"
  \/ /\ PlacedAs(i) = "absent" /\ PlacedAs(i)' = "live"
     /\ ToldAs(i) = "asked" /\ ToldAs(i)' = "asked"
  \/ /\ PlacedAs(i) = "live" /\ PlacedAs(i)' = "closed" /\ ToldAs(i)' = ToldAs(i)
  \/ /\ ToldAs(i) \in {"asked", "unknown"} /\ ToldAs(i)' = "unknown"
     /\ PlacedAs(i)' = PlacedAs(i)
  \/ /\ ToldAs(i) \in {"asked", "unknown"} /\ ToldAs(i)' = "filled"
     /\ PlacedAs(i) = "closed" /\ PlacedAs(i)' = "closed"
  \/ /\ ToldAs(i) \in {"asked", "unknown"} /\ ToldAs(i)' = "rejected"
     /\ PlacedAs(i) # "live" /\ PlacedAs(i)' = PlacedAs(i)
  \/ /\ ToldAs(i) = "asked" /\ ToldAs(i)' = "early"
     /\ PlacedAs(i) # "absent" /\ PlacedAs(i)' = PlacedAs(i)

Still(i) == ToldAs(i)' = ToldAs(i) /\ PlacedAs(i)' = PlacedAs(i)

\* A step that moves one order the way OrderPromise allows is a step of it.
LEMMA MoveIsPromised ==
  ASSUME NEW i \in OrderIds, Moves(i), \A j \in OrderIds \ {i} : Still(j)
  PROVE  Promise!Next
<1> DEFINE P == [j \in OrderIds |-> PlacedAs(j)]
           T == [j \in OrderIds |-> ToldAs(j)]
<1>1. P' = [P EXCEPT ![i] = PlacedAs(i)'] /\ (PlacedAs(i)' = PlacedAs(i) => P' = P)
  BY DEF Still
<1>2. T' = [T EXCEPT ![i] = ToldAs(i)'] /\ (ToldAs(i)' = ToldAs(i) => T' = T)
  BY DEF Still
<1>3. P[i] = PlacedAs(i) /\ T[i] = ToldAs(i)
  OBVIOUS
<1> HIDE DEF P, T
<1>4. Promise!Ask(i) \/ Promise!Place(i) \/ Promise!Close(i) \/ Promise!StayUnknown(i)
      \/ Promise!Settle(i) \/ Promise!SettleEarly(i)
  BY <1>1, <1>2, <1>3
     DEF Moves, P, T, Promise!Ask, Promise!Place, Promise!Close, Promise!StayUnknown,
         Promise!Settle, Promise!SettleEarly
<1>5. QED
  BY <1>4 DEF Promise!Next

\* A step that changes nothing OrderPromise sees is a stutter of it.
LEMMA StillIsPromised ==
  ASSUME \A j \in OrderIds : Still(j)
  PROVE  UNCHANGED Promise!vars
<1>1. [j \in OrderIds |-> PlacedAs(j)]' = [j \in OrderIds |-> PlacedAs(j)]
  BY DEF Still
<1>2. [j \in OrderIds |-> ToldAs(j)]' = [j \in OrderIds |-> ToldAs(j)]
  BY DEF Still
<1>3. QED
  BY <1>1, <1>2 DEF Promise!vars

\* Whatever leaves the orders alone is such a step.
LEMMA SameOrdersStill ==
  ASSUME UNCHANGED orderVars
  PROVE  UNCHANGED Promise!vars
<1>1. \A j \in OrderIds : Still(j)
  BY DEF orderVars, Still, PlacedAs, ToldAs, Made
<1>2. QED
  BY <1>1, StillIsPromised

\* A step that touches the record or the entry of one order only.
LEMMA OthersStill ==
  ASSUME made' = made, NEW i \in Made,
         \A j \in Made \ {i} : order'[j].rec = order[j].rec /\ order'[j].exch = order[j].exch
  PROVE  \A j \in OrderIds \ {i} : Still(j)
BY DEF Still, PlacedAs, ToldAs, Made

\* Every step of LiveTrading is one of OrderPromise or a stutter.
LEMMA PromiseStep == Inv /\ [Next]_vars => [Promise!Next]_(Promise!vars)
<1> SUFFICES ASSUME Inv, [Next]_vars, ~ UNCHANGED Promise!vars PROVE Promise!Next
  OBVIOUS
<1> USE MadeNat DEF Inv
<1>0. ~ UNCHANGED orderVars
  BY SameOrdersStill
<1>1. ASSUME NEW t \in Tasks, NEW m \in Markets, NEW s \in {"BUY", "SELL"}, NEW g,
             MakeOrder(t, m, s, g), signals \subseteq signals',
             g # 0 => <<m, g>> \notin signals /\ <<m, g>> \in signals'
      PROVE  Promise!Next
  <2>1. /\ made' = made + 1 /\ Made' = Made \cup {made + 1} /\ made + 1 \notin Made
        /\ made + 1 \in OrderIds
        /\ \A j \in Made : order'[j] = order[j]
        /\ order'[made + 1].rec = "none" /\ order'[made + 1].exch = "unsent"
    BY <1>1, NewOrder
  <2>2. PICK i \in OrderIds : i = made + 1
    BY <2>1
  <2>3. \A j \in OrderIds \ {i} : Still(j)
    BY <2>1, <2>2 DEF Still, PlacedAs, ToldAs
  <2>4. Moves(i)
    <3>1. ToldAs(i) = "nothing" /\ PlacedAs(i) = "absent"
      BY <2>1, <2>2 DEF ToldAs, PlacedAs
    <3>2. ToldAs(i)' = "asked" /\ PlacedAs(i)' = "absent"
      BY <2>1, <2>2 DEF ToldAs, PlacedAs
    <3>3. QED
      BY <3>1, <3>2 DEF Moves
  <2>5. QED
    BY <2>3, <2>4, MoveIsPromised
<1>2. ASSUME NEW m \in Markets, NEW s \in {"BUY", "SELL"}, SignalOrder(m, s)
      PROVE  Promise!Next
  BY <1>1, <1>2 DEF SignalOrder, Tasks
<1>3. ASSUME NEW t \in Tasks, NEW m \in Markets, ExitOrder(t, m) PROVE Promise!Next
  BY <1>1, <1>3 DEF ExitOrder
\* A verdict on an order that was asked for or is unknown.
<1>4. ASSUME NEW i \in Made, NEW r \in {"FILLED", "REJECTED", "UNKNOWN", "EARLY"},
             order' = [order EXCEPT ![i].rec = r], made' = made, signals' = signals,
             order[i].rec \in {"none", "UNKNOWN"},
             r = "FILLED" => order[i].exch \in {"filled", "cancelled"},
             r = "REJECTED" => order[i].exch # "open",
             r = "EARLY" => order[i].exch = "open" /\ order[i].rec = "none"
      PROVE  Promise!Next
  <2>1. \A j \in Made : /\ order'[j].exch = order[j].exch
                        /\ order'[j].rec = IF j = i THEN r ELSE order[j].rec
    <3>1. r \in Recs
      BY DEF Recs
    <3>2. QED
      BY <1>4, <3>1, NewRecord
  <2>2. \A j \in OrderIds \ {i} : Still(j)
    BY <1>4, <2>1, OthersStill
  <2>3. Moves(i)
    <3>1. ToldAs(i) \in {"asked", "unknown"} /\ (r = "EARLY" => ToldAs(i) = "asked")
      BY <1>4 DEF ToldAs
    <3>2. PlacedAs(i)' = PlacedAs(i)
      BY <1>4, <2>1 DEF PlacedAs, Made
    <3>3. ToldAs(i)' = CASE r = "FILLED" -> "filled" [] r = "REJECTED" -> "rejected"
                         [] r = "UNKNOWN" -> "unknown" [] r = "EARLY" -> "early"
      BY <1>4, <2>1 DEF ToldAs, Made
    <3>4. /\ r = "FILLED" => PlacedAs(i) = "closed"
          /\ r = "REJECTED" => PlacedAs(i) # "live"
          /\ r = "EARLY" => PlacedAs(i) = "live"
      BY <1>4 DEF PlacedAs
    <3>5. QED
      BY <3>1, <3>2, <3>3, <3>4 DEF Moves
  <2>4. QED
    BY <2>2, <2>3, MoveIsPromised
<1>5. ASSUME NEW t \in Tasks, RefuseOrder(t) PROVE Promise!Next
  <2>1. req[t] \in Made /\ order[req[t]].rec = "none" /\ order[req[t]].exch = "unsent"
    BY <1>5 DEF RefuseOrder, HandsOK, Made
  <2>2. QED
    BY <1>4, <1>5, <2>1 DEF RefuseOrder
<1>6. ASSUME NEW t \in Tasks, Send(t) PROVE Promise!Next
  <2>1. PICK i \in Made : i = req[t] /\ order[i].rec = "none" /\ order[i].exch = "unsent"
    BY <1>6 DEF Send, HandsOK, Made
  <2>2. PICK e \in {"open", "absent"} :
          order' = [order EXCEPT ![i].exch = e, ![i].size = AskedSize(i)]
    BY <1>6, <2>1 DEF Send
  <2>3. made' = made /\ signals' = signals /\ e \in Exchs \ {"unsent"}
    BY <1>6 DEF Send, Exchs
  <2>4. \A j \in Made : /\ order'[j].rec = order[j].rec
                        /\ order'[j].exch = IF j = i THEN e ELSE order[j].exch
    <3>1. PICK n : order' = [order EXCEPT ![i].exch = e, ![i].size = n]
      BY <2>2
    <3>2. QED
      BY ZenonT(60), <2>3, <3>1, NewExchange
  <2>5. \A j \in OrderIds \ {i} : Still(j)
    BY <2>1, <2>3, <2>4, OthersStill
  <2>6. PlacedAs(i) = "absent" /\ ToldAs(i) = "asked" /\ ToldAs(i)' = "asked"
    BY <2>1, <2>3, <2>4 DEF Made, PlacedAs, ToldAs
  <2>7. PlacedAs(i)' = IF e = "open" THEN "live" ELSE "absent"
    BY <2>1, <2>3, <2>4 DEF Made, PlacedAs
  <2>8. Moves(i) \/ Still(i)
    BY <2>6, <2>7 DEF Moves, Still
  <2>9. QED
    BY <2>5, <2>8, MoveIsPromised, StillIsPromised
<1>7. ASSUME NEW t \in Tasks, ConcludeSettled(t) PROVE Promise!Next
  <2>1. req[t] \in Made /\ order[req[t]].rec = "none" /\ Final(req[t])
    BY <1>7 DEF ConcludeSettled, HandsOK, Made
  <2>2. \/ order' = [order EXCEPT ![req[t]].rec = "FILLED"] /\ order[req[t]].exch = "filled"
        \/ order' = [order EXCEPT ![req[t]].rec = "REJECTED"]
    BY <1>7 DEF ConcludeSettled, Settle
  <2>3. made' = made /\ signals' = signals /\ order[req[t]].exch # "open"
    BY <1>7, <2>1 DEF ConcludeSettled, Final
  <2>4. QED
    BY <1>4, <2>1, <2>2, <2>3
<1>8. ASSUME NEW t \in Tasks, ConcludeUnknown(t) PROVE Promise!Next
  <2>1. req[t] \in Made /\ order[req[t]].rec = "none"
    BY <1>8 DEF ConcludeUnknown, HandsOK, Made
  <2>2. QED
    BY <1>4, <1>8, <2>1 DEF ConcludeUnknown
<1>13. ASSUME NEW t \in Tasks, ConcludeEarly(t) PROVE Promise!Next
  <2>1. req[t] \in Made /\ order[req[t]].rec = "none"
    BY <1>13 DEF ConcludeEarly, HandsOK, Made
  <2>2. QED
    BY <1>4, <1>13, <2>1 DEF ConcludeEarly
<1>9. ASSUME NEW m \in Markets, ResolveSettled(m) PROVE Promise!Next
  <2>1. todo[m] \in Made /\ order[todo[m]].rec = "UNKNOWN" /\ Final(todo[m])
    BY <1>9 DEF ResolveSettled, Resolving, QueuesOK, Recorded, Made
  <2>2. \/ order' = [order EXCEPT ![todo[m]].rec = "FILLED"] /\ order[todo[m]].exch = "filled"
        \/ order' = [order EXCEPT ![todo[m]].rec = "REJECTED"]
    BY <1>9 DEF ResolveSettled, Settle
  <2>3. made' = made /\ signals' = signals /\ order[todo[m]].exch # "open"
    BY <1>9, <2>1 DEF ResolveSettled, Final
  <2>4. QED
    BY <1>4, <2>1, <2>2, <2>3
<1>10. ASSUME NEW i \in OrderIds, Fill(i) \/ Cancel(i) PROVE Promise!Next
  <2>1. i \in Made /\ order[i].exch = "open"
    BY <1>10 DEF Fill, Cancel
  <2>2. PICK e \in {"filled", "cancelled"} : order' = [order EXCEPT ![i].exch = e]
    BY <1>10 DEF Fill, Cancel
  <2>3. made' = made /\ signals' = signals /\ e \in Exchs \ {"unsent"}
    BY <1>10 DEF Fill, Cancel, Exchs
  <2>4. \A j \in Made : /\ order'[j].rec = order[j].rec
                        /\ order'[j].exch = IF j = i THEN e ELSE order[j].exch
    BY <2>1, <2>2, <2>3, NewExchange
  <2>5. \A j \in OrderIds \ {i} : Still(j)
    BY <2>1, <2>3, <2>4, OthersStill
  <2>6. Moves(i)
    BY <2>1, <2>3, <2>4 DEF Moves, PlacedAs, ToldAs, Made
  <2>7. QED
    BY <2>5, <2>6, MoveIsPromised
<1>11. ASSUME \/ UNCHANGED vars
              \/ \E m \in Markets : SignalWithoutOrder(m) \/ ResolveLater(m) \/ GiveUp(m) \/ ResolveUnrecorded(m)
              \/ \E t \in Tasks : BeginExits(t) \/ ConcludeUnrecorded(t)
              \/ \E t \in Tasks, m \in Markets : SkipExit(t, m)
              \/ BeginResolve \/ BeginSync \/ Sync \/ Startup \/ Crash \/ CloseCandle
       PROVE  UNCHANGED orderVars
  BY <1>11
     DEF vars, orderVars, SignalWithoutOrder, ResolveLater, GiveUp, ResolveUnrecorded, BeginExits,
         ConcludeUnrecorded, SkipExit, BeginResolve, BeginSync, Sync, Startup, Build,
         StartSync, LoadPending, Run, Crash, CloseCandle
<1>12. QED
  BY <1>0, <1>2, <1>3, <1>5, <1>6, <1>7, <1>8, <1>9, <1>10, <1>11, <1>13
     DEF Next, Decide, Execute, Conclude, Resolve, ResolveOne, Exchange

\* The two tasks, the resolves, the give-ups and the restarts keep what
\* OrderPromise promises about every order.  A verdict on an order the exchange
\* still has open is its SettleEarly.
THEOREM PromiseKept == Spec => KeepsPromise
<1>1. Init => Promise!Init
  <2>1. ASSUME Init PROVE \A j \in OrderIds : PlacedAs(j) = "absent" /\ ToldAs(j) = "nothing"
    BY <2>1 DEF Init, PlacedAs, ToldAs, Made
  <2>2. QED
    BY <2>1 DEF Promise!Init
<1>2. QED
  BY <1>1, PromiseStep, Invariance, PTL DEF Spec, KeepsPromise, Promise!Spec

(***************************************************************************)
(* Counting.  MapThenSumSet adds up 0s and 1s: it counts the 1s.           *)
(***************************************************************************)

\* The element a fold takes out of a set first.
Some(s) == CHOOSE x \in s : TRUE
Ones(f, s) == {x \in s : f[x] = 1}

\* Taking one element out of a set takes its number from the count.
LEMMA OnesLess ==
  ASSUME NEW f, NEW s, IsFiniteSet(s), s # {}, \A x \in s : f[x] \in {0, 1}
  PROVE  /\ Some(s) \in s /\ IsFiniteSet(s \ {Some(s)})
         /\ Cardinality(s \ {Some(s)}) \in Nat /\ Cardinality(s) = Cardinality(s \ {Some(s)}) + 1
         /\ Cardinality(Ones(f, s)) = f[Some(s)] + Cardinality(Ones(f, s \ {Some(s)}))
<1> DEFINE x == Some(s)
           r == s \ {x}
<1>1. x \in s
  BY DEF Some
<1> HIDE DEF x
<1>2. IsFiniteSet(r) /\ Cardinality(r) = Cardinality(s) - 1 /\ Cardinality(s) \in Nat
      /\ Cardinality(r) \in Nat
  BY <1>1, FS_RemoveElement, FS_CardinalityType
<1>3. IsFiniteSet(Ones(f, r)) /\ Cardinality(Ones(f, r)) \in Nat
  <2>1. Ones(f, r) \subseteq r
    BY DEF Ones
  <2>2. IsFiniteSet(Ones(f, r))
    BY <1>2, <2>1, FS_Subset, Zenon
  <2> QED
    BY <2>2, FS_CardinalityType
<1>4. CASE f[x] = 1
  <2>1. Ones(f, s) = Ones(f, r) \cup {x} /\ x \notin Ones(f, r)
    BY <1>1, <1>4 DEF Ones
  <2>2. Cardinality(Ones(f, r) \cup {x}) = Cardinality(Ones(f, r)) + 1
    BY <1>3, <2>1, FS_AddElement
  <2> QED
    BY <1>1, <1>2, <1>3, <1>4, <2>1, <2>2 DEF x
<1>5. CASE f[x] = 0
  <2>1. Ones(f, s) = Ones(f, r)
    BY <1>1, <1>5 DEF Ones
  <2> QED
    BY <1>1, <1>2, <1>3, <1>5, <2>1 DEF x
<1> QED
  BY <1>1, <1>4, <1>5

\* A function that adds up f over the subsets of S counts the ones.
Adds(g, f, S) ==
  \A s \in SUBSET S : g[s] = IF s = {} THEN 0 ELSE f[Some(s)] + g[s \ {Some(s)}]

\* So there is one sum and it is the number of ones.
LEMMA SumUnique ==
  ASSUME NEW S, IsFiniteSet(S), NEW f, \A x \in S : f[x] \in {0, 1}, NEW g, Adds(g, f, S)
  PROVE  g[S] = Cardinality(Ones(f, S))
<1> DEFINE Bad == {n \in Nat : \E s \in SUBSET S : Cardinality(s) = n /\ g[s] # Cardinality(Ones(f, s))}
<1>0. \A s \in SUBSET S : IsFiniteSet(s) /\ Cardinality(s) \in Nat
  <2> SUFFICES ASSUME NEW s \in SUBSET S PROVE IsFiniteSet(s)
    BY FS_CardinalityType
  <2> QED
    BY FS_Subset, Zenon
<1>1. SUFFICES ASSUME Bad # {} PROVE FALSE
  <2>1. S \in SUBSET S /\ Cardinality(S) \in Nat
    BY <1>0
  <2> QED
    BY <2>1
<1>2. PICK n \in Bad : \A k \in Bad : ~ (<<k, n>> \in OpToRel(<, Nat))
  <2>1. Bad \subseteq Nat
    OBVIOUS
  <2> HIDE DEF Bad
  <2> QED
    BY <1>1, <2>1, WFMin, NatLessThanWellFounded, Zenon
<1>3. n \in Nat /\ \A k \in Bad : ~ (k < n)
  BY <1>2 DEF OpToRel
<1>4. PICK s \in SUBSET S : Cardinality(s) = n /\ g[s] # Cardinality(Ones(f, s))
  BY <1>2
<1>5. CASE s = {}
  <2>1. Ones(f, s) = {} /\ g[s] = 0
    BY <1>5 DEF Ones, Adds
  <2> QED
    BY <1>4, <2>1, FS_EmptySet
<1>6. CASE s # {}
  <2> DEFINE r == s \ {Some(s)}
  <2>1. /\ Some(s) \in s /\ Cardinality(r) \in Nat /\ Cardinality(s) = Cardinality(r) + 1
        /\ Cardinality(Ones(f, s)) = f[Some(s)] + Cardinality(Ones(f, r))
    BY <1>0, <1>6, OnesLess
  <2>2. g[s] = f[Some(s)] + g[r]
    BY <1>6 DEF Adds
  <2>3. r \in SUBSET S
    OBVIOUS
  <2> HIDE DEF r
  <2>4. Cardinality(r) < n
    BY <1>3, <1>4, <2>1
  <2>5. g[r] = Cardinality(Ones(f, r))
    BY <1>3, <2>1, <2>3, <2>4
  <2> QED
    BY <1>4, <2>1, <2>2, <2>5
<1> QED
  BY <1>5, <1>6

\* There is such a function: the recursion of a fold over a finite set is one.
LEMMA SumExists ==
  ASSUME NEW S, IsFiniteSet(S), NEW f, \A x \in S : f[x] \in {0, 1}
  PROVE  \E g : /\ g = [s \in SUBSET S |-> g[s]]
                /\ Adds(g, f, S)
<1> DEFINE g == [s \in SUBSET S |-> Cardinality(Ones(f, s))]
<1>1. ASSUME NEW s \in SUBSET S PROVE g[s] = IF s = {} THEN 0 ELSE f[Some(s)] + g[s \ {Some(s)}]
  <2>1. CASE s = {}
    <3>1. Ones(f, s) = {}
      BY <2>1 DEF Ones
    <3> QED
      BY <2>1, <3>1, FS_EmptySet
  <2>2. CASE s # {}
    <3>1. IsFiniteSet(s)
      BY FS_Subset, Zenon
    <3>2. Cardinality(Ones(f, s)) = f[Some(s)] + Cardinality(Ones(f, s \ {Some(s)}))
      BY <2>2, <3>1, OnesLess
    <3> QED
      BY <2>2, <3>2
  <2> QED
    BY <2>1, <2>2
<1> QED
  BY <1>1 DEF Adds

\* What is on the exchange is not in cash.
LEMMA ExchangeCashCounts ==
  ASSUME IsFiniteSet(Markets), \A m \in Markets : hold[m] \in {0, 1}
  PROVE  ExchangeCash = Funds - Cardinality(Ones(hold, Markets))
<1> DEFINE P(g) == g = [s \in SUBSET Markets |-> IF s = {} THEN 0 ELSE hold[Some(s)] + g[s \ {Some(s)}]]
<1>1. ExchangeCash = Funds - (CHOOSE g : P(g))[Markets]
  BY DEF ExchangeCash, MapThenSumSet, MapThenFoldSet, Some
<1>2. \E g : P(g)
  <2>1. PICK g : g = [s \in SUBSET Markets |-> g[s]] /\ Adds(g, hold, Markets)
    BY SumExists
  <2> QED
    BY <2>1 DEF Adds
<1>3. P(CHOOSE g : P(g))
  BY <1>2
<1>4. PICK g : g = (CHOOSE h : P(h))
  OBVIOUS
<1>5. Adds(g, hold, Markets)
  BY <1>3, <1>4 DEF Adds
<1>6. g[Markets] = Cardinality(Ones(hold, Markets))
  BY <1>5, SumUnique
<1> QED
  BY <1>1, <1>4, <1>6

(***************************************************************************)
(* What the books may show.                                                *)
(*                                                                         *)
(* A market at rest shows what the account holds, or waits for its pending *)
(* order; one with a call under way waits for that.  A market with a lost  *)
(* order may show anything until the next reconcile.                       *)
(***************************************************************************)

\* Runs in which neither the database nor the process fails.
Untroubled == MaxDbFailures = 0 /\ MaxCrashes = 0

\* m has an order of unknown fate that the engine does not go after: it was given
\* up, crowded out of pending_orders, or settled while the exchange had it open.
Lost(m) ==
  \E i \in Made :
    /\ order[i].market = m
    /\ order[i].rec = "EARLY" \/ (order[i].rec = "UNKNOWN" /\ pending[m] # i)

Awaits(t, m) == pc[t] = "wait" /\ order[req[t]].market = m
Awaited(m)   == \E t \in Tasks : Awaits(t, m)
IsBuy(i)     == order[i].side = "BUY"
Filled(i)    == order[i].exch = "filled"

\* Order i is not in the books yet: they show m as it was before.
Bought(i, m) == qty[m] = 0 /\ hold[m] = IF Filled(i) THEN 1 ELSE 0
Sold(i, m)   == qty[m] = 1 /\ hold[m] = IF Filled(i) THEN 0 ELSE 1

\* A sale that a reconcile has put into the books, or that had nothing to sell.
Gone(i, m)   == qty[m] = 0 /\ hold[m] = 0 /\ order[i].exch # "open"

AtRest(m) ==
  LET p == pending[m]
  IN  IF p = 0 THEN qty[m] = hold[m] /\ hold[m] \in {0, 1}
      ELSE /\ order[p].size = 1
           /\ IF IsBuy(p) THEN Bought(p, m) ELSE Sold(p, m) \/ Gone(p, m)

\* A second sale can only be under way when the first one sells nothing.
UnderWay(t, m) ==
  LET p == pending[m]
      i == req[t]
  IN  /\ order[i].size = 1
      /\ IF IsBuy(i) THEN p = 0 /\ Bought(i, m)
         ELSE /\ Sold(i, m)
              /\ p # 0 => /\ ~ IsBuy(p) /\ order[p].size = 1
                          /\ order[p].exch \in {"absent", "cancelled"}

Fits(m) ==
  /\ ~ Awaited(m) => AtRest(m)
  /\ \A t \in Tasks : Awaits(t, m) => UnderWay(t, m)

AllFit == \A m \in Markets : ~ Lost(m) => Fits(m)

\* A purchase main has decided on, seen from a market without a lost order.
StillWanted(m) == pending[m] = 0 /\ ~ Awaited(m) /\ qty[m] = 0 /\ hold[m] = 0

HandsFull ==
  /\ \A i \in Made : order[i].rec = "none" => \E t \in Tasks : req[t] = i
  /\ \A i \in Made : order[i].exch = "open" => order[i].rec \in {"none", "UNKNOWN", "EARLY"}
  /\ req["price"] # 0 => ~ IsBuy(req["price"])
  /\ \A m \in Markets :
       pc["main"] = "want" /\ IsBuy(req["main"]) /\ order[req["main"]].market = m /\ ~ Lost(m)
       => StillWanted(m)

\* What main has left to resolve is still pending, and what it leaves alone in a
\* reconcile holds every purchase that is pending.
MainsPart ==
  /\ \A m \in Markets : todo[m] # 0 => pending[m] # 0
  /\ exclude \subseteq {m \in Markets : pending[m] # 0}
  /\ pc["main"] \notin {"sync", "giveup"} => exclude = {}
  /\ pc["price"] \in {"idle", "exits", "want", "wait"}
  /\ \A m \in Markets :
       pc["main"] \in {"sync", "giveup"} /\ pending[m] # 0 /\ ~ Lost(m) /\ IsBuy(pending[m])
       => m \in exclude

Starting ==
  phase # "run" => /\ made = 0 /\ \A t \in Tasks : pc[t] = "idle"
                   /\ \A m \in Markets : hold[m] = 0

BudgetOK ==
  /\ budget \in [{"lost", "giveups", "db", "crashes"} -> Nat]
  /\ budget.lost <= MaxLost /\ budget.db = 0 /\ budget.crashes = 0

OneUnknown ==
  /\ budget.lost + 1 >= MaxLost =>
       \A i, j \in Made : order[i].rec = "UNKNOWN" /\ order[j].rec = "UNKNOWN" => i = j
  /\ budget.lost = MaxLost => \A i \in Made : order[i].rec # "UNKNOWN"

\* Cash and coins of the books together are what the account started with.
CashFits ==
  budget.lost + 1 >= MaxLost /\ phase # "down" /\ (\A m \in Markets : ~ Lost(m))
  => cash \in Int /\ cash + Cardinality(Ones(qty, Markets)) = Funds

Shape ==
  /\ qty  = [m \in Markets |-> qty[m]]
  /\ hold = [m \in Markets |-> hold[m]]

BooksInv ==
  /\ Shape /\ BudgetOK /\ Starting /\ HandsFull /\ MainsPart
  /\ OneUnknown /\ CashFits /\ AllFit

(***************************************************************************)
(* What a step does to one order and to the markets it does not touch.     *)
(***************************************************************************)

\* Order i gets record r, no order changes in anything else.
RecordOnly(i, r) ==
  \A j \in Made : /\ order'[j].market = order[j].market
                  /\ order'[j].side = order[j].side
                  /\ order'[j].size = order[j].size
                  /\ order'[j].exch = order[j].exch
                  /\ order'[j].rec = IF j = i THEN r ELSE order[j].rec

\* Order i is decided on the exchange, no order changes in anything else.
ExchOnly(i, e) ==
  \A j \in Made : /\ order'[j].market = order[j].market
                  /\ order'[j].side = order[j].side
                  /\ order'[j].size = order[j].size
                  /\ order'[j].rec = order[j].rec
                  /\ order'[j].exch = IF j = i THEN e ELSE order[j].exch

\* A new record changes nothing else about any order.
LEMMA OnlyRecord ==
  ASSUME OrdersOK, NEW i \in Made, NEW r, order' = [order EXCEPT ![i].rec = r]
  PROVE  RecordOnly(i, r)
<1> USE MadeNat
<1>1. \A j \in Made : j # i => order'[j] = order[j]
  BY DEF OrdersOK
<1>2. order'[i] = [order[i] EXCEPT !.rec = r]
  BY DEF OrdersOK
<1>3. /\ order'[i].market = order[i].market /\ order'[i].side = order[i].side
      /\ order'[i].size = order[i].size /\ order'[i].exch = order[i].exch /\ order'[i].rec = r
  BY <1>2 DEF OrdersOK, IsOrder
<1>4. QED
  BY <1>1, <1>3 DEF RecordOnly

\* Nor does the end of an order on the exchange.
LEMMA OnlyExch ==
  ASSUME OrdersOK, NEW i \in Made, NEW e, order' = [order EXCEPT ![i].exch = e]
  PROVE  ExchOnly(i, e)
<1> USE MadeNat
<1>1. \A j \in Made : j # i => order'[j] = order[j]
  BY DEF OrdersOK
<1>2. order'[i] = [order[i] EXCEPT !.exch = e]
  BY DEF OrdersOK
<1>3. /\ order'[i].market = order[i].market /\ order'[i].side = order[i].side
      /\ order'[i].size = order[i].size /\ order'[i].rec = order[i].rec /\ order'[i].exch = e
  BY <1>2 DEF OrdersOK, IsOrder
<1>4. QED
  BY <1>1, <1>3 DEF ExchOnly

\* Nor its sending, apart from its size.
LEMMA OnlySent ==
  ASSUME OrdersOK, NEW i \in Made, NEW e, NEW n,
         order' = [order EXCEPT ![i].exch = e, ![i].size = n]
  PROVE  /\ order'[i].market = order[i].market /\ order'[i].side = order[i].side
         /\ order'[i].rec = order[i].rec /\ order'[i].size = n /\ order'[i].exch = e
         /\ \A j \in Made : j # i => order'[j] = order[j]
<1> USE MadeNat
<1>1. \A j \in Made : j # i => order'[j] = order[j]
  BY DEF OrdersOK
<1>2. order'[i] = [order[i] EXCEPT !.exch = e, !.size = n]
  BY DEF OrdersOK
<1>3. /\ order'[i].market = order[i].market /\ order'[i].side = order[i].side
      /\ order'[i].size = n /\ order'[i].rec = order[i].rec /\ order'[i].exch = e
  BY <1>2 DEF OrdersOK, IsOrder
<1>4. QED
  BY <1>1, <1>3

\* The orders keep what the books depend on; new ones have no fate yet.
OrdersStay(m) ==
  /\ made' = made \/ made' = made + 1
  /\ \A i \in Made :
       /\ order'[i].market = order[i].market
       /\ order[i].market = m =>
            /\ order'[i].side = order[i].side /\ order'[i].size = order[i].size
            /\ order'[i].exch = order[i].exch
            /\ order'[i].rec = "UNKNOWN" <=> order[i].rec = "UNKNOWN"
            /\ order'[i].rec = "EARLY" <=> order[i].rec = "EARLY"
  /\ \A i \in Made' : i \notin Made => order'[i].rec \notin {"UNKNOWN", "EARLY"}

\* A step that leaves m alone: its orders, its books and who waits for it.
LeavesAlone(m) ==
  /\ OrdersStay(m)
  /\ qty'[m] = qty[m] /\ hold'[m] = hold[m] /\ pending'[m] = pending[m]
  /\ \A t \in Tasks :
       IF pc[t] = "wait" /\ order[req[t]].market = m THEN pc'[t] = "wait" /\ req'[t] = req[t]
       ELSE ~ (pc'[t] = "wait" /\ order'[req'[t]].market = m)

\* What a task has in hand and what is queued for a market are orders made before.
LEMMA InHands ==
  ASSUME Inv
  PROVE  /\ \A t \in Tasks : pc[t] \in {"want", "wait"} => req[t] \in Made
         /\ \A m \in Markets : pending[m] # 0 => pending[m] \in Made /\ order[pending[m]].market = m
         /\ \A m \in Markets : todo[m] # 0 => todo[m] \in Made /\ order[todo[m]].market = m
         /\ made \in Nat
BY MadeNat DEF Inv, HandsOK, QueuesOK, Recorded, Made

\* The books of a market that is left alone fit it as they did.
LEMMA AloneFits ==
  ASSUME Inv, NEW m \in Markets, LeavesAlone(m)
  PROVE  /\ Lost(m)' <=> Lost(m)
         /\ Awaited(m)' <=> Awaited(m)
         /\ Fits(m) => Fits(m)'
<1>0. Made \subseteq Made'
  BY InHands DEF LeavesAlone, OrdersStay, Made
<1>1. Lost(m)' <=> Lost(m)
  <2>1. Lost(m) => Lost(m)'
    BY <1>0 DEF Lost, LeavesAlone, OrdersStay
  <2>2. Lost(m)' => Lost(m)
    BY DEF Lost, LeavesAlone, OrdersStay
  <2> QED
    BY <2>1, <2>2
<1>2. \A t \in Tasks : /\ Awaits(t, m) => req[t] \in Made /\ Awaits(t, m)' /\ req'[t] = req[t]
                       /\ Awaits(t, m)' => Awaits(t, m)
  BY InHands DEF LeavesAlone, Awaits, OrdersStay
<1>3. Awaited(m)' <=> Awaited(m)
  BY <1>2 DEF Awaited
<1>4. pending[m] # 0 =>
        /\ order'[pending[m]].side = order[pending[m]].side
        /\ order'[pending[m]].size = order[pending[m]].size
        /\ order'[pending[m]].exch = order[pending[m]].exch
  BY InHands DEF LeavesAlone, OrdersStay
<1>5. ASSUME AtRest(m) PROVE AtRest(m)'
  BY <1>4, <1>5 DEF LeavesAlone, AtRest, IsBuy, Bought, Sold, Gone, Filled
<1>6. ASSUME NEW t \in Tasks, Awaits(t, m), UnderWay(t, m) PROVE UnderWay(t, m)'
  <2>1. /\ req'[t] = req[t]
        /\ order'[req[t]].side = order[req[t]].side
        /\ order'[req[t]].size = order[req[t]].size
        /\ order'[req[t]].exch = order[req[t]].exch
    BY <1>2, <1>6 DEF LeavesAlone, OrdersStay, Awaits
  <2> QED
    BY <1>4, <1>6, <2>1 DEF LeavesAlone, UnderWay, IsBuy, Bought, Sold, Filled
<1>7. Fits(m) => Fits(m)'
  BY <1>2, <1>3, <1>5, <1>6 DEF Fits
<1> QED
  BY <1>1, <1>3, <1>7

\* One more market held is one more counted.
LEMMA CountOneMore ==
  ASSUME NEW S, IsFiniteSet(S), NEW x \in S, NEW f, NEW g, f[x] = 0, g[x] = 1,
         \A y \in S : y # x => g[y] = f[y]
  PROVE  /\ Cardinality(Ones(f, S)) \in Nat
         /\ Cardinality(Ones(g, S)) = Cardinality(Ones(f, S)) + 1
<1>1. Ones(g, S) = Ones(f, S) \cup {x} /\ x \notin Ones(f, S)
  BY DEF Ones
<1>2. IsFiniteSet(Ones(f, S))
  <2>1. Ones(f, S) \subseteq S
    BY DEF Ones
  <2> QED
    BY <2>1, FS_Subset, Zenon
<1>3. Cardinality(Ones(f, S) \cup {x}) = Cardinality(Ones(f, S)) + 1
  BY <1>1, <1>2, FS_AddElement
<1> QED
  BY <1>1, <1>2, <1>3, FS_CardinalityType

SalesOpen(m) == {i \in Waiting("SELL") : order[i].market = m}

\* What can be sold of m, with no sale open and with one.
LEMMA AvailableCounts ==
  ASSUME NEW m, hold[m] \in Int
  PROVE  /\ SalesOpen(m) = {} => Available(m) = hold[m]
         /\ \A p : SalesOpen(m) = {p} /\ order[p].size = 1 => Available(m) = hold[m] - 1
<1> DEFINE S == SalesOpen(m)
           f == [i \in S |-> order[i].size]
           P(g) == g = [s \in SUBSET S |-> IF s = {} THEN 0 ELSE order[Some(s)].size + g[s \ {Some(s)}]]
<1>1. Available(m) = hold[m] - (CHOOSE g : P(g))[S]
  BY DEF Available, SalesOpen, MapThenSumSet, MapThenFoldSet, Some
<1>2. ASSUME IsFiniteSet(S), \A i \in S : order[i].size = 1
      PROVE  (CHOOSE g : P(g))[S] = Cardinality(S)
  <2>1. \A i \in S : f[i] \in {0, 1} /\ f[i] = 1 /\ f[i] = order[i].size
    BY <1>2
  <2>0. \A s \in SUBSET S : s # {} => Some(s) \in S
    BY DEF Some
  <2> HIDE DEF f
  <2>2. \E g : P(g)
    <3>1. PICK g : g = [s \in SUBSET S |-> g[s]] /\ Adds(g, f, S)
      BY <1>2, <2>1, SumExists
    <3>2. \A s \in SUBSET S : g[s] = IF s = {} THEN 0 ELSE order[Some(s)].size + g[s \ {Some(s)}]
      BY <2>0, <2>1, <3>1 DEF Adds
    <3>3. P(g)
      BY <3>1, <3>2
    <3> QED
      BY <3>3
  <2>3. P(CHOOSE g : P(g))
    BY <2>2
  <2>4. PICK g : g = (CHOOSE h : P(h))
    OBVIOUS
  <2>5. Adds(g, f, S)
    BY <2>0, <2>1, <2>3, <2>4 DEF Adds
  <2>6. g[S] = Cardinality(Ones(f, S))
    BY <1>2, <2>1, <2>5, SumUnique
  <2>7. Ones(f, S) = S
    BY <2>1 DEF Ones
  <2> QED
    BY <2>4, <2>6, <2>7
<1> HIDE DEF P
<1>3. S = {} => Available(m) = hold[m]
  BY <1>1, <1>2, FS_EmptySet
<1>4. ASSUME NEW p, S = {p}, order[p].size = 1 PROVE Available(m) = hold[m] - 1
  <2>1. IsFiniteSet(S) /\ Cardinality(S) = 1
    BY <1>4, FS_Singleton
  <2>2. (CHOOSE g : P(g))[S] = 1
    BY <1>2, <1>4, <2>1
  <2> QED
    BY <1>1, <2>2
<1> QED
  BY <1>3, <1>4

(***************************************************************************)
(* BooksInv is inductive: one lemma per kind of step.                      *)
(***************************************************************************)

\* A step that leaves every market alone keeps what the books say of them.
LEMMA AloneKeeps ==
  ASSUME Inv, Inv', BooksInv, \A m \in Markets : LeavesAlone(m),
         cash' = cash, budget' = budget, phase' = "down" <=> phase = "down"
  PROVE  OneUnknown' /\ CashFits' /\ AllFit'
<1>1. \A m \in Markets : /\ Lost(m)' <=> Lost(m)
                         /\ Fits(m) => Fits(m)'
  BY AloneFits
<1>2. AllFit'
  BY <1>1 DEF BooksInv, AllFit
<1>3. Ones(qty, Markets)' = Ones(qty, Markets)
  BY DEF LeavesAlone, Ones
<1>4. CashFits'
  BY <1>1, <1>3 DEF BooksInv, CashFits
<1>5. ASSUME NEW i \in Made', order'[i].rec = "UNKNOWN"
      PROVE  i \in Made /\ order[i].rec = "UNKNOWN"
  <2>1. PICK m \in Markets : order'[i].market = m
    BY <1>5 DEF Inv, OrdersOK, IsOrder
  <2> QED
    BY <1>5, <2>1 DEF LeavesAlone, OrdersStay
<1>6. OneUnknown'
  BY <1>5 DEF BooksInv, OneUnknown
<1> QED
  BY <1>2, <1>4, <1>6

\* So does one that only takes a task to another place in its loop.
Moving ==
  /\ UNCHANGED <<order, made, qty, hold, cash, pending, req, budget>>
  /\ phase' = "down" <=> phase = "down"
  /\ \A t \in Tasks : pc'[t] = pc[t] \/ {pc[t], pc'[t]} \cap {"want", "wait"} = {}

\* A task that moves on changes nothing the books depend on.
LEMMA MovingKeeps ==
  ASSUME Inv, Inv', BooksInv, Moving
  PROVE  Shape' /\ BudgetOK' /\ HandsFull' /\ OneUnknown' /\ CashFits' /\ AllFit'
<1>1. \A t \in Tasks : /\ pc'[t] = "wait" <=> pc[t] = "wait"
                       /\ pc'[t] = "want" <=> pc[t] = "want"
  BY DEF Moving
<1>2. ASSUME NEW m \in Markets PROVE LeavesAlone(m)
  <2>1. OrdersStay(m)
    BY DEF Moving, OrdersStay, Made
  <2> QED
    BY <1>1, <2>1 DEF Moving, LeavesAlone
<1>3. OneUnknown' /\ CashFits' /\ AllFit'
  BY <1>2, AloneKeeps DEF Moving
<1>4. HandsFull'
  <2>1. \A m \in Markets : (Lost(m)' <=> Lost(m)) /\ (Awaited(m)' <=> Awaited(m))
    BY <1>2, AloneFits
  <2>2. "main" \in Tasks
    BY DEF Tasks
  <2> QED
    BY <1>1, <2>1, <2>2 DEF Moving, BooksInv, HandsFull, IsBuy, StillWanted, Made
<1>5. Shape' /\ BudgetOK'
  BY DEF Moving, BooksInv, Shape, BudgetOK
<1> QED
  BY <1>3, <1>4, <1>5

\* The steps that make no order, send none and settle none.
LEMMA MovesKeep ==
  ASSUME Inv, Inv', BooksInv,
         \/ UNCHANGED vars
         \/ \E m \in Markets : SignalWithoutOrder(m) \/ ResolveLater(m)
         \/ \E t \in Tasks : BeginExits(t) \/ \E m \in Markets : SkipExit(t, m)
         \/ BeginResolve \/ BeginSync \/ Run \/ CloseCandle
         \/ (Sync /\ UNCHANGED bookVars)
  PROVE  BooksInv'
<1> USE DEF orderVars, exchangeVars, bookVars, taskVars
<1>0. "main" \in Tasks /\ "price" \in Tasks /\ pc \in [Tasks -> Pcs] /\ MainsPart /\ Starting
  BY DEF Tasks, Inv, HandsOK, BooksInv
<1>1. ASSUME Moving, pending' = pending, MainsPart', Starting' PROVE BooksInv'
  BY <1>1, MovingKeeps DEF BooksInv
<1>2. ASSUME UNCHANGED <<order, made, pending, hold>>, Moving,
             \A m \in Markets : todo'[m] # 0 => pending[m] # 0,
             pc'["price"] \in {"idle", "exits", "want", "wait"},
             exclude' \subseteq {m \in Markets : pending[m] # 0},
             pc'["main"] \notin {"sync", "giveup"} => exclude' = {},
             pc'["main"] \in {"sync", "giveup"} =>
               \/ \A m \in Markets : pending[m] # 0 => m \in exclude'
               \/ exclude' = exclude /\ pc["main"] \in {"sync", "giveup"},
             phase' = "run" \/ (phase' = phase /\ pc' = pc)
      PROVE  BooksInv'
  <2>1. \A m \in Markets : Lost(m)' <=> Lost(m)
    BY <1>2 DEF Lost, Made
  <2>2. MainsPart'
    BY <1>0, <1>2, <2>1 DEF MainsPart, IsBuy
  <2>3. Starting'
    BY <1>0, <1>2 DEF Starting
  <2> QED
    BY <1>1, <1>2, <2>2, <2>3
<1>3. CASE UNCHANGED vars
  BY <1>0, <1>2, <1>3 DEF vars, Moving, MainsPart
<1>4. ASSUME NEW m \in Markets, SignalWithoutOrder(m) PROVE BooksInv'
  BY <1>0, <1>2, <1>4 DEF SignalWithoutOrder, Moving, MainsPart
<1>5. ASSUME NEW m \in Markets, ResolveLater(m) PROVE BooksInv'
  <2>1. /\ pc["main"] = "resolve" /\ pc'["main"] \in {"idle", "resolve"}
        /\ \A t \in Tasks : t # "main" => pc'[t] = pc[t]
    BY <1>0, <1>5 DEF ResolveLater, Resolving, GoOn
  <2>2. phase = "run"
    BY <1>0, <2>1 DEF Starting
  <2>3. \A x \in Markets : todo'[x] # 0 => todo[x] # 0
    BY <1>5 DEF ResolveLater, Inv, QueuesOK, Recorded
  <2>5. Moving
    BY <1>0, <1>5, <2>1, <2>2, <2>3 DEF ResolveLater, Moving
  <2> QED
    BY <1>0, <1>2, <2>5, <1>5, <2>1, <2>2, <2>3 DEF ResolveLater, MainsPart
<1>6. ASSUME NEW t \in Tasks, BeginExits(t) \/ \E m \in Markets : SkipExit(t, m)
      PROVE  BooksInv'
  <2>1. /\ pc[t] \in {"idle", "exits"} /\ pc'[t] \in {"idle", "exits"}
        /\ \A u \in Tasks : u # t => pc'[u] = pc[u]
    BY <1>0, <1>6 DEF BeginExits, SkipExit, After
  <2>2. phase = "run"
    BY <1>0, <1>6, <2>1 DEF Starting, SkipExit, BeginExits
  <2>5. Moving
    BY <1>0, <1>6, <2>1, <2>2 DEF BeginExits, SkipExit, Moving
  <2> QED
    BY <1>0, <1>2, <2>5, <1>6, <2>1, <2>2 DEF BeginExits, SkipExit, MainsPart
<1>7. CASE BeginResolve
  <2>1. /\ pc["main"] = "idle" /\ pc'["main"] = "resolve"
        /\ \A t \in Tasks : t # "main" => pc'[t] = pc[t]
    BY <1>0, <1>7 DEF BeginResolve, MainIdle
  <2>5. Moving
    BY <1>0, <1>7, <2>1 DEF BeginResolve, MainIdle, Moving
  <2> QED
    BY <1>0, <1>2, <2>5, <1>7, <2>1 DEF BeginResolve, MainIdle, MainsPart
<1>8. CASE BeginSync
  <2>1. /\ pc["main"] = "idle" /\ pc'["main"] = "sync"
        /\ \A t \in Tasks : t # "main" => pc'[t] = pc[t]
    BY <1>0, <1>8 DEF BeginSync, MainIdle
  <2>5. Moving
    BY <1>0, <1>8, <2>1 DEF BeginSync, MainIdle, Moving
  <2> QED
    BY <1>0, <1>2, <2>5, <1>8, <2>1 DEF BeginSync, MainIdle, MainsPart
<1>9. CASE Sync /\ UNCHANGED bookVars
  <2>1. /\ pc["main"] \in {"sync", "giveup"} /\ pc'["main"] \in {"idle", "resolve"}
        /\ \A t \in Tasks : t # "main" => pc'[t] = pc[t]
    BY <1>0, <1>9 DEF Sync, GoOn
  <2>2. phase = "run"
    BY <1>0, <2>1 DEF Starting
  <2>5. Moving
    BY <1>0, <1>9, <2>1, <2>2 DEF Sync, Moving
  <2> QED
    BY <1>0, <1>2, <2>5, <1>9, <2>1, <2>2 DEF Sync, MainsPart
<1>10. CASE Run
  BY <1>0, <1>2, <1>10 DEF Run, Moving, MainsPart
<1>11. CASE CloseCandle
  BY <1>0, <1>2, <1>11 DEF CloseCandle, Moving, MainsPart
<1> QED
  BY <1>3, <1>4, <1>5, <1>6, <1>7, <1>8, <1>9, <1>10, <1>11

\* A decision puts one more order on the list and touches no books.  A purchase
\* is decided on for a market that has nothing.
LEMMA MakingKeeps ==
  ASSUME Inv, Inv', BooksInv, NEW t \in Tasks, NEW m \in Markets, NEW side \in {"BUY", "SELL"},
         NEW g, MakeOrder(t, m, side, g), signals \subseteq signals',
         g # 0 => <<m, g>> \notin signals /\ <<m, g>> \in signals',
         pc[t] \in {"idle", "exits"}, phase = "run", phase' = "run",
         UNCHANGED <<qty, hold, cash, pending, todo, exclude, budget>>,
         side = "BUY" => t = "main" /\ (~ Lost(m) => StillWanted(m))
  PROVE  BooksInv'
<1> DEFINE n == made + 1
<1>1. /\ made' = n /\ Made' = Made \cup {n} /\ n \notin Made /\ n # 0
      /\ \A j \in Made : order'[j] = order[j]
      /\ order'[n].rec = "none" /\ order'[n].exch = "unsent"
      /\ order'[n].market = m /\ order'[n].side = side
  <2>1. /\ made' = n /\ Made' = Made \cup {n} /\ n \notin Made /\ n \in OrderIds
        /\ \A j \in Made : order'[j] = order[j]
        /\ order'[n].rec = "none" /\ order'[n].exch = "unsent"
    BY NewOrder DEF Inv
  <2>2. order'[n].market = m /\ order'[n].side = side
    BY <2>1 DEF MakeOrder, Inv, OrdersOK
  <2>3. n # 0
    BY MadeNat DEF Inv
  <2> QED
    BY <2>1, <2>2, <2>3
<1>2. /\ req' = [req EXCEPT ![t] = n] /\ pc' = [pc EXCEPT ![t] = "want"]
      /\ req \in [Tasks -> 0..made] /\ pc \in [Tasks -> Pcs] /\ req[t] = 0
      /\ \A u \in Tasks : pc[u] \in {"want", "wait"} => req[u] \in Made
  BY InHands DEF MakeOrder, Inv, HandsOK
<1> HIDE DEF n
<1>3. /\ req'[t] = n /\ pc'[t] = "want"
      /\ \A u \in Tasks : u # t => req'[u] = req[u] /\ pc'[u] = pc[u]
  BY <1>2
<1>4. ASSUME NEW x \in Markets PROVE LeavesAlone(x)
  <2>1. OrdersStay(x)
    BY <1>1 DEF OrdersStay, n
  <2> QED
    BY <1>1, <1>2, <1>3, <2>1 DEF LeavesAlone
<1>5. OneUnknown' /\ CashFits' /\ AllFit'
  BY <1>4, AloneKeeps
<1>6. \A x \in Markets : (Lost(x)' <=> Lost(x)) /\ (Awaited(x)' <=> Awaited(x))
  BY <1>4, AloneFits
<1>7. HandsFull'
  <2>1. HandsFull /\ "price" \in Tasks /\ "main" \in Tasks
    BY DEF BooksInv, Tasks
  <2>2. ASSUME NEW i \in Made', order'[i].rec = "none" PROVE \E u \in Tasks : req'[u] = i
    BY <1>1, <1>2, <1>3, <2>1, <2>2 DEF HandsFull, Made
  <2>3. \A i \in Made' : order'[i].exch = "open" => order'[i].rec \in {"none", "UNKNOWN", "EARLY"}
    BY <1>1, <2>1 DEF HandsFull
  <2>4. req'["price"] # 0 => ~ IsBuy(req["price"])'
    <3>1. CASE t = "price"
      BY <1>1, <1>3, <3>1 DEF IsBuy
    <3>2. CASE t # "price"
      <4>1. req["price"] # 0 => req["price"] \in Made
        BY <1>2, <2>1 DEF Inv, HandsOK
      <4> QED
        BY <1>1, <1>3, <2>1, <3>2, <4>1 DEF IsBuy, HandsFull
    <3> QED
      BY <3>1, <3>2
  <2>5. ASSUME NEW x \in Markets, pc'["main"] = "want", IsBuy(req["main"])',
               order'[req'["main"]].market = x, ~ Lost(x)
        PROVE  StillWanted(x)
    <3>1. CASE t = "main"
      BY <1>1, <1>3, <2>5, <3>1 DEF IsBuy
    <3>2. CASE t # "main"
      BY <1>1, <1>2, <1>3, <2>1, <2>5, <3>2 DEF IsBuy, HandsFull
    <3> QED
      BY <3>1, <3>2
  <2>6. \A x \in Markets : StillWanted(x) => StillWanted(x)'
    BY <1>6 DEF StillWanted
  <2> QED
    BY <1>6, <2>2, <2>3, <2>4, <2>5, <2>6 DEF HandsFull
<1>8. MainsPart'
  <2>1. \A x \in Markets : pending[x] # 0 => order'[pending[x]].side = order[pending[x]].side
    BY <1>1, InHands
  <2>2. MainsPart
    BY DEF BooksInv
  <2>3. pc'["price"] \in {"idle", "exits", "want", "wait"}
    BY <1>3, <2>2 DEF MainsPart, Tasks
  <2>4. pc'["main"] \in {"sync", "giveup"} <=> pc["main"] \in {"sync", "giveup"}
    BY <1>3 DEF Tasks
  <2> QED
    BY <1>6, <2>1, <2>2, <2>3, <2>4 DEF MainsPart, IsBuy
<1>9. Shape' /\ BudgetOK' /\ Starting'
  BY DEF BooksInv, Shape, BudgetOK, Starting
<1> QED
  BY <1>5, <1>7, <1>8, <1>9 DEF BooksInv

\* A signal or an exit condition leads to an order.
LEMMA DecidingKeeps ==
  ASSUME Inv, Inv', BooksInv, NEW m \in Markets,
         \/ \E s \in {"BUY", "SELL"} : SignalOrder(m, s)
         \/ \E t \in Tasks : ExitOrder(t, m)
  PROVE  BooksInv'
<1>1. ASSUME NEW s \in {"BUY", "SELL"}, SignalOrder(m, s) PROVE BooksInv'
  <2>1. ASSUME s = "BUY", ~ Lost(m) PROVE StillWanted(m)
    <3>1. pc["main"] = "idle" /\ pending[m] = 0 /\ qty[m] = 0 /\ Fits(m)
      BY <1>1, <2>1 DEF SignalOrder, MainIdle, BooksInv, AllFit
    <3>2. ASSUME NEW t \in Tasks, Awaits(t, m) PROVE FALSE
      <4>1. t = "price" /\ req["price"] # 0
        BY <3>1, <3>2 DEF Awaits, Tasks, Inv, HandsOK
      <4> QED
        BY <3>1, <3>2, <4>1 DEF Fits, UnderWay, Sold, BooksInv, HandsFull
    <3> QED
      BY <3>1, <3>2 DEF StillWanted, Awaited, Fits, AtRest
  <2> QED
    BY <1>1, <2>1, MakingKeeps
       DEF SignalOrder, MainIdle, Tasks, exchangeVars, bookVars, orderVars
<1>2. ASSUME NEW t \in Tasks, ExitOrder(t, m) PROVE BooksInv'
  <2>1. phase = "run"
    BY <1>2 DEF ExitOrder, BooksInv, Starting
  <2> QED
    BY <1>2, <2>1, MakingKeeps DEF ExitOrder, exchangeVars, bookVars, orderVars
<1> QED
  BY <1>1, <1>2

\* The order in the hands of t gets record r, and t goes on with empty hands.
HandEmptied(t, r) ==
  /\ req[t] \in Made /\ order[req[t]].rec = "none" /\ order[req[t]].market \in Markets
  /\ RecordOnly(req[t], r)
  /\ pc'[t] \in {"idle", "exits"} /\ req'[t] = 0
  /\ \A u \in Tasks : u # t => pc'[u] = pc[u] /\ req'[u] = req[u]
  /\ \A u \in Tasks : pc[u] \in {"want", "wait"} => req[u] \in Made
  /\ \A i \in Made' : order'[i].rec = "none" => \E u \in Tasks : req'[u] = i
  /\ \A i \in Made' : order'[i].exch = "open" => order'[i].rec \in {"none", "UNKNOWN", "EARLY"}
  /\ req'["price"] # 0 => ~ IsBuy(req["price"])'

\* execute ends with a record for its order: the first three parts of HandsFull stay.
LEMMA ExecuteEnds ==
  ASSUME Inv, Inv', BooksInv, NEW t \in Tasks, pc[t] \in {"want", "wait"},
         NEW r \in {"FILLED", "REJECTED", "UNKNOWN", "EARLY"},
         order' = [order EXCEPT ![req[t]].rec = r], made' = made, Resume(t),
         r \notin {"UNKNOWN", "EARLY"} => order[req[t]].exch # "open"
  PROVE  HandEmptied(t, r)
<1>1. /\ req[t] \in Made /\ order[req[t]].rec = "none" /\ order[req[t]].market \in Markets
      /\ \A u \in Tasks : pc[u] \in {"want", "wait"} => req[u] \in Made
  BY InHands DEF Inv, HandsOK, OrdersOK, IsOrder
<1>2. RecordOnly(req[t], r)
  <2>1. PICK i \in Made : i = req[t]
    BY <1>1
  <2>2. order' = [order EXCEPT ![i].rec = r] /\ OrdersOK
    BY <2>1 DEF Inv
  <2>3. RecordOnly(i, r)
    BY ZenonT(60), <2>2, OnlyRecord
  <2> QED
    BY <2>1, <2>3
<1>3. /\ pc'[t] \in {"idle", "exits"} /\ req'[t] = 0
      /\ \A u \in Tasks : u # t => pc'[u] = pc[u] /\ req'[u] = req[u]
  BY DEF Resume, After, Inv, HandsOK
<1>4. HandsFull /\ Made' = Made /\ "price" \in Tasks
  BY DEF BooksInv, Made, Tasks
<1>5. ASSUME NEW i \in Made', order'[i].rec = "none" PROVE \E u \in Tasks : req'[u] = i
  <2>1. i # req[t] /\ order[i].rec = "none"
    BY <1>2, <1>4, <1>5 DEF RecordOnly
  <2> QED
    BY <1>3, <1>4, <2>1 DEF HandsFull
<1>6. ASSUME NEW i \in Made', order'[i].exch = "open"
      PROVE  order'[i].rec \in {"none", "UNKNOWN", "EARLY"}
  BY <1>2, <1>4, <1>6 DEF HandsFull, RecordOnly
<1>7. req'["price"] # 0 => ~ IsBuy(req["price"])'
  <2>1. req["price"] # 0 => req["price"] \in Made
    BY <1>1, <1>4 DEF Inv, HandsOK
  <2> QED
    BY <1>2, <1>3, <1>4, <2>1 DEF IsBuy, HandsFull, RecordOnly
<1> QED
  BY <1>1, <1>2, <1>3, <1>5, <1>6, <1>7 DEF HandEmptied

\* The parts of the invariant on the queues, for steps that leave those alone.
LEMMA SameMains ==
  ASSUME Inv, BooksInv, UNCHANGED <<pending, todo, exclude>>,
         pc'["price"] \in {"idle", "exits", "want", "wait"},
         pc'["main"] \in {"sync", "giveup"} <=> pc["main"] \in {"sync", "giveup"},
         \A m \in Markets : Lost(m) => Lost(m)',
         \A i \in Made : order'[i].side = order[i].side
  PROVE  MainsPart'
<1>1. \A m \in Markets : pending[m] # 0 => order'[pending[m]].side = order[pending[m]].side
  BY InHands
<1> QED
  BY <1>1 DEF BooksInv, MainsPart, IsBuy

\* A call of execute that ends before anything is sent.
LEMMA RefuseKeeps ==
  ASSUME Inv, Inv', BooksInv, NEW t \in Tasks, RefuseOrder(t)
  PROVE  BooksInv'
<1> USE DEF exchangeVars, bookVars
<1>1. pc[t] = "want" /\ order[req[t]].exch = "unsent"
  BY DEF RefuseOrder, Inv, HandsOK
<1>2. HandEmptied(t, "REJECTED")
  <2>1. /\ order' = [order EXCEPT ![req[t]].rec = "REJECTED"] /\ made' = made /\ Resume(t)
        /\ "REJECTED" \in {"FILLED", "REJECTED", "UNKNOWN", "EARLY"}
    BY DEF RefuseOrder
  <2> QED
    BY <1>1, <2>1, ExecuteEnds
<1> USE DEF HandEmptied, RecordOnly
<1>3. Made' = Made /\ made' = made
  BY DEF RefuseOrder, Made
<1>4. ASSUME NEW m \in Markets PROVE LeavesAlone(m)
  <2>1. OrdersStay(m)
    BY <1>2, <1>3 DEF OrdersStay
  <2>2. UNCHANGED <<qty, hold, pending>>
    BY DEF RefuseOrder
  <2> QED
    BY <1>1, <1>2, <2>1, <2>2 DEF LeavesAlone
<1>5. OneUnknown' /\ CashFits' /\ AllFit'
  BY <1>4, AloneKeeps DEF RefuseOrder
<1>6. \A m \in Markets : (Lost(m)' <=> Lost(m)) /\ (Awaited(m)' <=> Awaited(m))
  BY <1>4, AloneFits
<1>7. HandsFull'
  <2>1. ASSUME NEW m \in Markets, pc'["main"] = "want", IsBuy(req["main"])',
               order'[req'["main"]].market = m, ~ Lost(m)
        PROVE  StillWanted(m)
    BY <1>2, <2>1 DEF IsBuy, HandsFull, BooksInv, Tasks
  <2>2. \A m \in Markets : StillWanted(m) => StillWanted(m)'
    BY <1>6 DEF StillWanted, RefuseOrder
  <2> QED
    BY <1>2, <1>6, <2>1, <2>2 DEF HandsFull
<1>8. MainsPart'
  <2>1. pc'["price"] \in {"idle", "exits", "want", "wait"}
    BY <1>2 DEF BooksInv, MainsPart, Tasks
  <2>2. pc'["main"] \in {"sync", "giveup"} <=> pc["main"] \in {"sync", "giveup"}
    BY <1>1, <1>2 DEF Tasks
  <2> QED
    BY <1>2, <1>6, <2>1, <2>2, SameMains DEF RefuseOrder
<1>9. Shape' /\ BudgetOK' /\ Starting'
  <2>1. phase = "run" /\ phase' = phase
    BY <1>1 DEF RefuseOrder, BooksInv, Starting
  <2> QED
    BY <2>1 DEF RefuseOrder, BooksInv, Shape, BudgetOK, Starting
<1> QED
  BY <1>5, <1>7, <1>8, <1>9 DEF BooksInv

\* While nobody waits for the exchange, an open order of a market that has no lost
\* one is the pending one.
LEMMA OpenIsPending ==
  ASSUME Inv, BooksInv, NEW m \in Markets, ~ Lost(m), ~ Awaited(m),
         NEW i \in Made, order[i].exch = "open", order[i].market = m
  PROVE  i = pending[m] /\ pending[m] # 0
<1>1. order[i].rec \in {"none", "UNKNOWN"}
  BY DEF BooksInv, HandsFull, Lost
<1>2. CASE order[i].rec = "none"
  <2>1. PICK u \in Tasks : req[u] = i
    BY <1>2 DEF BooksInv, HandsFull
  <2>2. pc[u] = "wait"
    BY <2>1 DEF Inv, HandsOK, Made
  <2> QED
    BY <2>1, <2>2 DEF Awaited, Awaits
<1>3. CASE order[i].rec = "UNKNOWN"
  BY <1>3 DEF Lost, Made
<1> QED
  BY <1>1, <1>2, <1>3

\* What execute asks for fits the books: a purchase where there is nothing, a sale
\* of what is held and not for sale already.
LEMMA AskedRightly ==
  ASSUME Inv, BooksInv, NEW t \in Tasks, pc[t] = "want", lock = Free,
         NEW i, i = req[t], AskedSize(i) > 0,
         NEW m \in Markets, order[i].market = m, ~ Lost(m)
  PROVE  /\ AskedSize(i) = 1 /\ ~ Awaited(m) /\ i \in Made
         /\ IsBuy(i) => t = "main" /\ pending[m] = 0 /\ qty[m] = 0 /\ hold[m] = 0
         /\ ~ IsBuy(i) => /\ qty[m] = 1 /\ hold[m] = 1
                          /\ pending[m] # 0 => /\ ~ IsBuy(pending[m])
                                               /\ order[pending[m]].size = 1
                                               /\ order[pending[m]].exch \in {"absent", "cancelled"}
<1>1. i \in Made /\ i # 0
  BY InHands DEF Made
<1>2. ~ Awaited(m)
  BY DEF Awaited, Awaits, Inv, HandsOK, OneCallAtATime, Free, Tasks
<1>3. AtRest(m)
  BY <1>2 DEF BooksInv, AllFit, Fits
<1>4. ASSUME IsBuy(i)
      PROVE  AskedSize(i) = 1 /\ t = "main" /\ pending[m] = 0 /\ qty[m] = 0 /\ hold[m] = 0
  <2>1. t = "main"
    BY <1>1, <1>4 DEF BooksInv, HandsFull, Tasks
  <2>2. StillWanted(m)
    BY <1>4, <2>1 DEF BooksInv, HandsFull
  <2>3. AskedSize(i) = 1
    BY <1>4 DEF AskedSize, IsBuy
  <2> QED
    BY <2>1, <2>2, <2>3 DEF StillWanted
<1>5. ASSUME ~ IsBuy(i)
      PROVE  /\ AskedSize(i) = 1 /\ qty[m] = 1 /\ hold[m] = 1
             /\ pending[m] # 0 => /\ ~ IsBuy(pending[m])
                                  /\ order[pending[m]].size = 1
                                  /\ order[pending[m]].exch \in {"absent", "cancelled"}
  <2> DEFINE p == pending[m]
  <2>1. AskedSize(i) = IF qty[m] < Available(m) THEN qty[m] ELSE Available(m)
    BY <1>5 DEF AskedSize, IsBuy
  <2>2. hold[m] \in {0, 1} /\ qty[m] \in {0, 1}
    BY <1>3 DEF AtRest, Bought, Sold, Gone
  <2>3. /\ SalesOpen(m) = {} => Available(m) = hold[m]
        /\ p # 0 /\ SalesOpen(m) = {p} /\ order[p].size = 1 => Available(m) = hold[m] - 1
    BY <2>2, AvailableCounts
  <2>4. \A j \in SalesOpen(m) : j = p /\ p # 0 /\ order[p].exch = "open"
    BY <1>2, OpenIsPending DEF SalesOpen, Waiting
  <2>5. CASE p = 0
    <3>1. SalesOpen(m) = {}
      BY <2>4, <2>5
    <3> QED
      BY <1>3, <2>1, <2>2, <2>3, <2>5, <3>1 DEF AtRest
  <2>6. CASE p # 0 /\ order[p].exch = "open"
    <3>1. p \in Made /\ order[p].market = m /\ order[p].size = 1 /\ order[p].side \in {"BUY", "SELL"}
      BY <1>3, <2>6, InHands DEF AtRest, Inv, OrdersOK, IsOrder
    <3>2. CASE IsBuy(p)
      <4>1. qty[m] = 0 /\ SalesOpen(m) = {}
        <5>1. SalesOpen(m) = {}
          BY <2>4, <3>2 DEF SalesOpen, Waiting, IsBuy
        <5> QED
          BY <1>3, <2>6, <3>2, <5>1 DEF AtRest, Bought
      <4> QED
        BY <2>1, <2>2, <2>3, <4>1
    <3>3. CASE ~ IsBuy(p)
      <4>1. SalesOpen(m) = {p}
        BY <2>4, <2>6, <3>1, <3>3 DEF SalesOpen, Waiting, IsBuy
      <4>2. Sold(p, m)
        BY <1>3, <2>6, <3>3 DEF AtRest, Gone
      <4> QED
        BY <2>1, <2>2, <2>3, <2>6, <3>1, <4>1, <4>2 DEF Sold, Filled
    <3> QED
      BY <3>2, <3>3
  <2>7. CASE p # 0 /\ order[p].exch # "open"
    <3>1. SalesOpen(m) = {}
      BY <2>4, <2>7
    <3>2. qty[m] = 1 /\ hold[m] = 1 /\ AskedSize(i) = 1
      BY <2>1, <2>2, <2>3, <3>1
    <3>3. ~ IsBuy(p) /\ Sold(p, m) /\ order[p].size = 1
      BY <1>3, <2>7, <3>2 DEF AtRest, Bought, Gone
    <3>4. order[p].exch # "filled"
      BY <3>2, <3>3 DEF Sold, Filled
    <3>5. order[p].exch \in Exchs \ {"unsent"}
      <4>1. p \in Made /\ order[p].rec = "UNKNOWN"
        BY <2>7, InHands DEF Inv, QueuesOK, Recorded
      <4> QED
        BY <4>1 DEF Inv, OrdersOK, IsOrder, UnknownWasSent
    <3> QED
      BY <2>7, <3>2, <3>3, <3>4, <3>5 DEF Exchs
  <2> QED
    BY <2>5, <2>6, <2>7
<1> QED
  BY <1>1, <1>2, <1>4, <1>5

\* An order goes out: from here its market waits for it.
LEMMA SendKeeps ==
  ASSUME Inv, Inv', BooksInv, NEW t \in Tasks, Send(t)
  PROVE  BooksInv'
<1> USE DEF exchangeVars, bookVars
<1>1. PICK i \in Made : i = req[t] /\ i # 0 /\ order[i].rec = "none" /\ order[i].exch = "unsent"
  BY InHands DEF Send, Inv, HandsOK, Made
<1>2. PICK e \in {"open", "absent"} :
        order' = [order EXCEPT ![i].exch = e, ![i].size = AskedSize(i)]
  BY <1>1 DEF Send
<1>3. /\ order'[i].market = order[i].market /\ order'[i].side = order[i].side
      /\ order'[i].rec = order[i].rec /\ order'[i].size = AskedSize(i) /\ order'[i].exch = e
      /\ \A j \in Made : j # i => order'[j] = order[j]
  BY ZenonT(60), <1>2, OnlySent DEF Inv
<1>4. /\ pc[t] = "want" /\ lock = Free /\ AskedSize(i) > 0
      /\ pc'[t] = "wait" /\ \A u \in Tasks : u # t => pc'[u] = pc[u]
      /\ made' = made /\ Made' = Made
      /\ UNCHANGED <<qty, hold, cash, pending, todo, exclude, phase, req, budget>>
  BY <1>1 DEF Send, Inv, HandsOK, Made
<1>5. \A u \in Tasks : pc[u] # "wait" /\ (pc[u] = "want" => req[u] \in Made)
  BY <1>4, InHands DEF Inv, HandsOK, OneCallAtATime, Free, Tasks
<1>6. PICK m \in Markets : order[i].market = m
  BY DEF Inv, OrdersOK, IsOrder
<1> HIDE <1>2
<1>7. \A x \in Markets : Lost(x)' <=> Lost(x)
  BY <1>3, <1>4 DEF Lost
<1>8. ASSUME NEW x \in Markets, x # m PROVE LeavesAlone(x)
  <2>1. OrdersStay(x)
    BY <1>3, <1>4, <1>6, <1>8 DEF OrdersStay
  <2> QED
    BY <1>1, <1>3, <1>4, <1>5, <1>6, <1>8, <2>1 DEF LeavesAlone
<1>9. ASSUME ~ Lost(m) PROVE Fits(m)'
  <2>1. /\ AskedSize(i) = 1
        /\ IsBuy(i) => pending[m] = 0 /\ qty[m] = 0 /\ hold[m] = 0
        /\ ~ IsBuy(i) => /\ qty[m] = 1 /\ hold[m] = 1
                         /\ pending[m] # 0 => /\ ~ IsBuy(pending[m])
                                              /\ order[pending[m]].size = 1
                                              /\ order[pending[m]].exch \in {"absent", "cancelled"}
    BY <1>1, <1>4, <1>6, <1>9, AskedRightly
  <2>2. pending[m] # 0 => pending[m] # i /\ pending[m] \in Made
    BY <1>1, InHands DEF Inv, QueuesOK, Recorded
  <2>3. UnderWay(t, m)'
    BY <1>1, <1>3, <1>4, <2>1, <2>2 DEF UnderWay, IsBuy, Bought, Sold, Filled
  <2>4. \A u \in Tasks : Awaits(u, m)' => u = t
    BY <1>4, <1>5 DEF Awaits
  <2>5. Awaited(m)'
    BY <1>1, <1>3, <1>4, <1>6 DEF Awaited, Awaits
  <2> QED
    BY <2>3, <2>4, <2>5 DEF Fits
<1>10. AllFit'
  BY <1>7, <1>8, <1>9, AloneFits DEF BooksInv, AllFit
<1>11. OneUnknown' /\ CashFits'
  <2>1. \A j \in Made : order'[j].rec = order[j].rec
    BY <1>3
  <2> QED
    BY <1>4, <1>7, <2>1 DEF BooksInv, OneUnknown, CashFits
<1>12. HandsFull'
  <2>0. HandsFull /\ "main" \in Tasks /\ "price" \in Tasks
    BY DEF BooksInv, Tasks
  <2>1. \A j \in Made' : order'[j].rec = "none" => \E u \in Tasks : req'[u] = j
    BY <1>3, <1>4, <2>0 DEF HandsFull
  <2>2. \A j \in Made' : order'[j].exch = "open" => order'[j].rec \in {"none", "UNKNOWN", "EARLY"}
    BY <1>1, <1>3, <1>4, <2>0 DEF HandsFull
  <2>3. req'["price"] # 0 => ~ IsBuy(req["price"])'
    <3>1. req["price"] # 0 => req["price"] \in Made
      BY <2>0 DEF Inv, HandsOK, Made
    <3> QED
      BY <1>3, <1>4, <2>0, <3>1 DEF HandsFull, IsBuy
  <2>4. ASSUME NEW x \in Markets, pc'["main"] = "want", IsBuy(req["main"])',
               order'[req'["main"]].market = x, ~ Lost(x)
        PROVE  StillWanted(x)'
    <3>1. t = "price" /\ pc["main"] = "want" /\ req["main"] \in Made /\ req["main"] # i
      BY <1>1, <1>4, <1>5, <2>0, <2>4 DEF Tasks, Inv, HandsOK
    <3>2. StillWanted(x)
      BY <1>3, <1>4, <2>0, <2>4, <3>1 DEF HandsFull, IsBuy
    <3>3. x # m
      <4>1. ~ IsBuy(i)
        BY <1>1, <2>0, <3>1 DEF HandsFull
      <4>2. x = m => qty[m] = 1
        BY <1>1, <1>4, <1>6, <2>4, <4>1, AskedRightly
      <4> QED
        BY <3>2, <4>2 DEF StillWanted
    <3>4. Awaited(x)' <=> Awaited(x)
      BY <1>8, <3>3, AloneFits
    <3> QED
      BY <1>4, <3>2, <3>4 DEF StillWanted
  <2> QED
    BY <1>7, <2>1, <2>2, <2>3, <2>4 DEF HandsFull
<1>13. MainsPart'
  <2>1. pc'["price"] \in {"idle", "exits", "want", "wait"}
    BY <1>4 DEF BooksInv, MainsPart, Tasks
  <2>2. pc'["main"] \in {"sync", "giveup"} <=> pc["main"] \in {"sync", "giveup"}
    BY <1>4 DEF Tasks
  <2>3. \A j \in Made : order'[j].side = order[j].side
    BY <1>3
  <2> QED
    BY <1>4, <1>7, <2>1, <2>2, <2>3, SameMains
<1>14. Shape' /\ BudgetOK' /\ Starting'
  <2>1. phase = "run"
    BY <1>4 DEF BooksInv, Starting
  <2> QED
    BY <1>4, <2>1 DEF BooksInv, Shape, BudgetOK, Starting
<1> QED
  BY <1>10, <1>11, <1>12, <1>13, <1>14 DEF BooksInv

\* What a final order does to the books of its market: they show the exchange.
LEMMA SettledBooks ==
  ASSUME Shape, NEW i, NEW m \in Markets, order[i].market = m, order[i].size = 1, Settle(i),
         IF IsBuy(i) THEN Bought(i, m) ELSE Sold(i, m) \/ Gone(i, m)
  PROVE  /\ qty'[m] = hold[m] /\ hold[m] \in {0, 1} /\ qty[m] \in {0, 1}
         /\ \A x \in Markets : x # m => qty'[x] = qty[x]
         /\ qty' = [x \in Markets |-> qty'[x]]
         /\ cash \in Int => cash' \in Int /\ cash' = cash + qty[m] - qty'[m]
<1>1. hold[m] \in {0, 1} /\ qty[m] \in {0, 1}
  BY DEF Bought, Sold, Gone
<1>2. CASE Filled(i) /\ Bookable(i)
  <2> DEFINE n == IF IsBuy(i) THEN 1 ELSE -1
  <2>1. qty[m] = (IF IsBuy(i) THEN 0 ELSE 1) /\ hold[m] = (IF IsBuy(i) THEN 1 ELSE 0)
    BY <1>2 DEF Bookable, Bought, Sold, Gone, IsBuy
  <2>2. Book(i)
    BY <1>2 DEF Settle, Filled
  <2>3. qty' = [qty EXCEPT ![m] = @ + n] /\ cash' = cash - n
    <3>1. n = IF order[i].side = "BUY" THEN order[i].size
              ELSE IF order[i].size < qty[m] THEN -order[i].size ELSE -qty[m]
      BY <2>1 DEF IsBuy
    <3> HIDE DEF n
    <3> QED
      BY <2>2, <3>1, Zenon DEF Book
  <2>4. qty'[m] = hold[m]
    BY <2>1, <2>3 DEF Shape
  <2>5. \A x \in Markets : x # m => qty'[x] = qty[x]
    BY <2>3 DEF Shape
  <2>6. qty' = [x \in Markets |-> qty'[x]]
    <3> HIDE DEF n
    <3> QED
      BY <2>3 DEF Shape
  <2>7. cash \in Int => cash' \in Int /\ cash' = cash + qty[m] - qty'[m]
    BY <2>1, <2>3, <2>4
  <2> QED
    BY <1>1, <2>4, <2>5, <2>6, <2>7
<1>3. CASE ~ (Filled(i) /\ Bookable(i))
  <2>1. qty' = qty /\ cash' = cash
    BY <1>3 DEF Settle, Filled, bookVars
  <2>2. qty[m] = hold[m]
    BY <1>3 DEF Bookable, Bought, Sold, Gone, IsBuy
  <2> QED
    BY <1>1, <2>1, <2>2 DEF Shape
<1> QED
  BY <1>2, <1>3

\* Cash and coins together do not change when one market is settled.
LEMMA SettledCash ==
  ASSUME NEW m \in Markets, qty[m] \in {0, 1}, qty'[m] \in {0, 1},
         \A x \in Markets : x # m => qty'[x] = qty[x],
         cash \in Int, cash' \in Int, cash' = cash + qty[m] - qty'[m],
         cash + Cardinality(Ones(qty, Markets)) = Funds
  PROVE  cash' + Cardinality(Ones(qty', Markets)) = Funds
<1>0. IsFiniteSet(Markets)
  BY ConstantsAssumption
<1>1. CASE qty[m] = 0 /\ qty'[m] = 1
  <2>1. /\ Cardinality(Ones(qty, Markets)) \in Nat
        /\ Cardinality(Ones(qty', Markets)) = Cardinality(Ones(qty, Markets)) + 1
    BY <1>0, <1>1, CountOneMore
  <2>2. cash' = cash - 1
    BY <1>1
  <2> QED
    BY <2>1, <2>2
<1>2. CASE qty[m] = 1 /\ qty'[m] = 0
  <2>1. /\ Cardinality(Ones(qty', Markets)) \in Nat
        /\ Cardinality(Ones(qty, Markets)) = Cardinality(Ones(qty', Markets)) + 1
    BY <1>0, <1>2, CountOneMore
  <2>2. cash' = cash + 1
    BY <1>2
  <2> QED
    BY <2>1, <2>2
<1>3. CASE qty[m] = qty'[m]
  <2>1. Ones(qty', Markets) = Ones(qty, Markets)
    BY <1>3 DEF Ones
  <2> QED
    BY <1>3, <2>1
<1> QED
  BY <1>1, <1>2, <1>3

\* A final order is recorded one way or the other.
LEMMA SettleIsOne ==
  ASSUME NEW i, Settle(i)
  PROVE  \E r \in {"FILLED", "REJECTED"} : order' = [order EXCEPT ![i].rec = r]
BY DEF Settle

\* Whoever waits is the only one.
LEMMA OneWaits ==
  ASSUME Inv, NEW t \in Tasks, pc[t] = "wait"
  PROVE  \A u \in Tasks : u # t => pc[u] # "wait"
BY DEF Inv, HandsOK, OneCallAtATime

\* The answer came: the books of the market show the exchange again.
LEMMA ConcludeSettledKeeps ==
  ASSUME Inv, Inv', BooksInv, NEW t \in Tasks, ConcludeSettled(t)
  PROVE  BooksInv'
<1> USE DEF exchangeVars, bookVars
<1>1. pc[t] = "wait" /\ Final(req[t]) /\ Settle(req[t]) /\ Resume(t)
  BY DEF ConcludeSettled
<1>2. PICK r \in {"FILLED", "REJECTED"} : order' = [order EXCEPT ![req[t]].rec = r]
  BY <1>1, SettleIsOne
<1>3. HandEmptied(t, r)
  <2>1. made' = made /\ order[req[t]].exch # "open" /\ r \in {"FILLED", "REJECTED", "UNKNOWN", "EARLY"}
    BY <1>1 DEF ConcludeSettled, Final
  <2> QED
    BY <1>1, <1>2, <2>1, ExecuteEnds
<1> USE DEF HandEmptied, RecordOnly
<1>4. PICK i \in Made : i = req[t]
  BY <1>3
<1>5. PICK m \in Markets : order[i].market = m
  BY <1>3, <1>4
<1>6. made' = made /\ Made' = Made /\ UNCHANGED <<hold, pending, todo, exclude, phase, budget>>
  BY DEF ConcludeSettled, Made
<1>7. phase = "run" /\ Shape
  BY <1>1 DEF BooksInv, Starting
<1>8. \A u \in Tasks : pc'[u] # "wait"
  BY <1>1, <1>3, OneWaits
<1> HIDE <1>2
<1>9. \A x \in Markets : Lost(x)' <=> Lost(x)
  BY <1>3, <1>4, <1>6 DEF Lost
<1>10. ASSUME ~ Lost(m)
       PROVE  /\ qty'[m] = hold[m] /\ hold[m] \in {0, 1} /\ qty[m] \in {0, 1}
              /\ \A x \in Markets : x # m => qty'[x] = qty[x]
              /\ qty' = [x \in Markets |-> qty'[x]]
              /\ cash \in Int => cash' \in Int /\ cash' = cash + qty[m] - qty'[m]
              /\ pending[m] # 0 => /\ ~ IsBuy(pending[m]) /\ order[pending[m]].size = 1
                                   /\ order[pending[m]].exch \in {"absent", "cancelled"}
  <2>1. UnderWay(t, m)
    BY <1>1, <1>4, <1>5, <1>10 DEF BooksInv, AllFit, Fits, Awaits
  <2>2. /\ order[i].size = 1
        /\ IF IsBuy(i) THEN pending[m] = 0 /\ Bought(i, m) ELSE Sold(i, m)
        /\ pending[m] # 0 => /\ ~ IsBuy(pending[m]) /\ order[pending[m]].size = 1
                             /\ order[pending[m]].exch \in {"absent", "cancelled"}
    BY <1>4, <2>1 DEF UnderWay
  <2> QED
    BY <1>1, <1>4, <1>5, <1>7, <2>2, SettledBooks
<1>11. \A x \in Markets : x # m => qty'[x] = qty[x]
  BY <1>1, <1>4, <1>5, <1>7 DEF Settle, Book, Shape
<1>12. ASSUME NEW x \in Markets, x # m PROVE LeavesAlone(x)
  <2>1. OrdersStay(x)
    BY <1>3, <1>4, <1>5, <1>6, <1>12 DEF OrdersStay
  <2>2. \A u \in Tasks : ~ (pc[u] = "wait" /\ order[req[u]].market = x)
    BY <1>1, <1>4, <1>5, <1>12, OneWaits
  <2> QED
    BY <1>6, <1>8, <1>11, <1>12, <2>1, <2>2 DEF LeavesAlone
<1>13. ASSUME ~ Lost(m) PROVE Fits(m)'
  <2>1. pending[m] # 0 => /\ order'[pending[m]].side = order[pending[m]].side
                          /\ order'[pending[m]].size = order[pending[m]].size
                          /\ order'[pending[m]].exch = order[pending[m]].exch
    BY <1>3, InHands
  <2>2. AtRest(m)'
    BY <1>6, <1>10, <1>13, <2>1 DEF AtRest, IsBuy, Sold, Gone, Filled
  <2> QED
    BY <1>8, <2>2 DEF Fits, Awaits
<1>14. AllFit'
  BY <1>9, <1>12, <1>13, AloneFits DEF BooksInv, AllFit
<1>15. CashFits'
  <2> SUFFICES ASSUME budget.lost + 1 >= MaxLost, \A x \in Markets : ~ Lost(x)
               PROVE  cash' \in Int /\ cash' + Cardinality(Ones(qty', Markets)) = Funds
    BY <1>6, <1>9 DEF CashFits
  <2>1. cash \in Int /\ cash + Cardinality(Ones(qty, Markets)) = Funds
    BY <1>7 DEF BooksInv, CashFits
  <2>2. /\ qty'[m] \in {0, 1} /\ qty[m] \in {0, 1} /\ cash' \in Int
        /\ cash' = cash + qty[m] - qty'[m]
    BY <1>10, <2>1
  <2> QED
    BY <1>11, <2>1, <2>2, SettledCash
<1>16. OneUnknown'
  BY <1>3, <1>6 DEF BooksInv, OneUnknown
<1>17. HandsFull'
  <2>1. ASSUME NEW x \in Markets, pc'["main"] = "want", IsBuy(req["main"])',
               order'[req'["main"]].market = x, ~ Lost(x)
        PROVE  StillWanted(x)'
    <3>1. t # "main" /\ pc["main"] = "want" /\ req'["main"] = req["main"] /\ req["main"] \in Made
      BY <1>3, <2>1 DEF Tasks
    <3>2. StillWanted(x)
      BY <1>3, <2>1, <3>1 DEF BooksInv, HandsFull, IsBuy
    <3>3. x # m
      BY <1>1, <1>4, <1>5, <3>2 DEF StillWanted, Awaited, Awaits
    <3>4. ~ Awaited(x)'
      BY <1>8 DEF Awaited, Awaits
    <3> QED
      BY <1>6, <1>11, <3>2, <3>3, <3>4 DEF StillWanted
  <2> QED
    BY <1>3, <1>9, <2>1 DEF HandsFull
<1>18. MainsPart'
  <2>1. pc'["price"] \in {"idle", "exits", "want", "wait"}
    BY <1>3 DEF BooksInv, MainsPart, Tasks
  <2>2. pc'["main"] \in {"sync", "giveup"} <=> pc["main"] \in {"sync", "giveup"}
    BY <1>1, <1>3 DEF Tasks
  <2> QED
    BY <1>3, <1>6, <1>9, <2>1, <2>2, SameMains
<1>19. Shape' /\ BudgetOK' /\ Starting'
  <2>1. qty' = [x \in Markets |-> qty'[x]]
    BY <1>1, <1>7 DEF Settle, Book, Shape
  <2> QED
    BY <1>6, <1>7, <2>1 DEF BooksInv, Shape, BudgetOK, Starting
<1> QED
  BY <1>14, <1>15, <1>16, <1>17, <1>18, <1>19 DEF BooksInv

\* The order was still open: its market is one with a lost order.
LEMMA ConcludeEarlyKeeps ==
  ASSUME Inv, Inv', BooksInv, NEW t \in Tasks, ConcludeEarly(t)
  PROVE  BooksInv'
<1> USE DEF exchangeVars, bookVars
<1>1. pc[t] = "wait" /\ Resume(t) /\ order' = [order EXCEPT ![req[t]].rec = "EARLY"]
  BY DEF ConcludeEarly
<1>2. HandEmptied(t, "EARLY")
  <2>1. made' = made /\ "EARLY" \in {"FILLED", "REJECTED", "UNKNOWN", "EARLY"}
    BY DEF ConcludeEarly
  <2> QED
    BY <1>1, <2>1, ExecuteEnds
<1> USE DEF HandEmptied, RecordOnly
<1>3. PICK i \in Made : i = req[t]
  BY <1>2
<1>4. PICK m \in Markets : order[i].market = m
  BY <1>2, <1>3
<1>5. /\ made' = made /\ Made' = Made
      /\ UNCHANGED <<qty, cash, hold, pending, todo, exclude, phase, budget>>
  BY DEF ConcludeEarly, Made
<1>6. \A u \in Tasks : pc'[u] # "wait"
  BY <1>1, <1>2, OneWaits
<1>7. Lost(m)'
  BY <1>2, <1>3, <1>4, <1>5 DEF Lost
<1>8. ASSUME NEW x \in Markets, x # m PROVE LeavesAlone(x)
  <2>1. OrdersStay(x)
    BY <1>2, <1>3, <1>4, <1>5, <1>8 DEF OrdersStay
  <2>2. \A u \in Tasks : ~ (pc[u] = "wait" /\ order[req[u]].market = x)
    BY <1>1, <1>3, <1>4, <1>8, OneWaits
  <2> QED
    BY <1>5, <1>6, <1>8, <2>1, <2>2 DEF LeavesAlone
<1>9. \A x \in Markets : Lost(x) => Lost(x)'
  BY <1>7, <1>8, AloneFits
<1>10. AllFit'
  BY <1>7, <1>8, <1>9, AloneFits DEF BooksInv, AllFit
<1>11. OneUnknown' /\ CashFits'
  BY <1>2, <1>4, <1>5, <1>7 DEF BooksInv, OneUnknown, CashFits
<1>12. HandsFull'
  <2>1. ASSUME NEW x \in Markets, pc'["main"] = "want", IsBuy(req["main"])',
               order'[req'["main"]].market = x, ~ Lost(x)
        PROVE  StillWanted(x)'
    <3>1. t # "main" /\ pc["main"] = "want" /\ req'["main"] = req["main"] /\ req["main"] \in Made
      BY <1>2, <2>1 DEF Tasks
    <3>2. StillWanted(x)
      BY <1>2, <2>1, <3>1 DEF BooksInv, HandsFull, IsBuy
    <3>3. ~ Awaited(x)'
      BY <1>6 DEF Awaited, Awaits
    <3> QED
      BY <1>5, <3>2, <3>3 DEF StillWanted
  <2> QED
    BY <1>2, <1>9, <2>1 DEF HandsFull
<1>13. MainsPart'
  <2>1. pc'["price"] \in {"idle", "exits", "want", "wait"}
    BY <1>2 DEF BooksInv, MainsPart, Tasks
  <2>2. pc'["main"] \in {"sync", "giveup"} <=> pc["main"] \in {"sync", "giveup"}
    BY <1>1, <1>2 DEF Tasks
  <2> QED
    BY <1>2, <1>5, <1>9, <2>1, <2>2, SameMains
<1>14. Shape' /\ BudgetOK' /\ Starting'
  <2>1. phase = "run"
    BY <1>1 DEF BooksInv, Starting
  <2> QED
    BY <1>5, <2>1 DEF BooksInv, Shape, BudgetOK, Starting
<1> QED
  BY <1>10, <1>11, <1>12, <1>13, <1>14 DEF BooksInv

\* No answer came: the market waits for its pending order.
LEMMA ConcludeUnknownKeeps ==
  ASSUME Inv, Inv', BooksInv, NEW t \in Tasks, ConcludeUnknown(t)
  PROVE  BooksInv'
<1> USE DEF exchangeVars, bookVars
<1>1. pc[t] = "wait" /\ Resume(t) /\ order' = [order EXCEPT ![req[t]].rec = "UNKNOWN"]
  BY DEF ConcludeUnknown
<1>3. HandEmptied(t, "UNKNOWN")
  <2>1. made' = made /\ "UNKNOWN" \in {"FILLED", "REJECTED", "UNKNOWN", "EARLY"}
    BY DEF ConcludeUnknown
  <2> QED
    BY <1>1, <2>1, ExecuteEnds
<1> USE DEF HandEmptied, RecordOnly
<1>4. PICK i \in Made : i = req[t] /\ i # 0
  BY <1>3, MadeNat DEF Inv, Made
<1>5. PICK m \in Markets : order[i].market = m
  BY <1>3, <1>4
<1>6. made' = made /\ Made' = Made /\ UNCHANGED <<qty, cash, hold, todo, exclude, phase>>
  BY DEF ConcludeUnknown, Made
<1>7. /\ pending'[m] = i /\ \A x \in Markets : x # m => pending'[x] = pending[x]
  BY <1>4, <1>5 DEF ConcludeUnknown, Inv, QueuesOK, Recorded
<1>8. phase = "run"
  BY <1>1 DEF BooksInv, Starting
<1>9. \A u \in Tasks : pc'[u] # "wait"
  BY <1>1, <1>3, OneWaits
<1>10. ASSUME NEW x \in Markets, x # m PROVE LeavesAlone(x)
  <2>1. OrdersStay(x)
    BY <1>3, <1>4, <1>5, <1>6, <1>10 DEF OrdersStay
  <2>2. \A u \in Tasks : ~ (pc[u] = "wait" /\ order[req[u]].market = x)
    BY <1>1, <1>4, <1>5, <1>10, OneWaits
  <2> QED
    BY <1>6, <1>7, <1>9, <1>10, <2>1, <2>2 DEF LeavesAlone
\* The order that was pending before is now one of those given up.
<1>11. ~ Lost(m)' => ~ Lost(m) /\ pending[m] = 0
  <2>1. pending[m] # 0 => /\ pending[m] \in Made /\ order[pending[m]].market = m
                          /\ order[pending[m]].rec = "UNKNOWN"
    BY InHands DEF Inv, QueuesOK, Recorded
  <2>2. pending[m] # 0 => Lost(m)'
    BY <1>3, <1>4, <1>6, <1>7, <2>1 DEF Lost
  <2>3. Lost(m) => Lost(m)'
    BY <1>3, <1>4, <1>6, <1>7 DEF Lost
  <2> QED
    BY <2>2, <2>3
<1>12. \A x \in Markets : Lost(x) => Lost(x)'
  BY <1>10, <1>11, AloneFits
<1>13. ASSUME ~ Lost(m)' PROVE Fits(m)'
  <2>1. UnderWay(t, m) /\ pending[m] = 0
    BY <1>1, <1>4, <1>5, <1>11, <1>13 DEF BooksInv, AllFit, Fits, Awaits
  <2>2. AtRest(m)'
    BY <1>3, <1>4, <1>6, <1>7, <2>1 DEF UnderWay, AtRest, IsBuy, Bought, Sold, Filled
  <2> QED
    BY <1>9, <2>2 DEF Fits, Awaits
<1>14. AllFit'
  BY <1>10, <1>12, <1>13, AloneFits DEF BooksInv, AllFit
<1>15. budget' = [budget EXCEPT !["lost"] = @ - 1] /\ budget.lost > 0
  BY DEF ConcludeUnknown, Spend
<1>16. BudgetOK' /\ budget'.lost = budget.lost - 1 /\ budget.lost \in Nat /\ MaxLost \in Nat
       /\ budget.lost <= MaxLost
  BY <1>15, ConstantsAssumption DEF BooksInv, BudgetOK
<1>17. CashFits'
  BY <1>6, <1>8, <1>12, <1>16 DEF BooksInv, CashFits
<1>18. OneUnknown'
  <2>1. budget'.lost # MaxLost
    BY <1>16
  <2>2. ASSUME budget'.lost + 1 >= MaxLost,
               NEW j \in Made, order'[j].rec = "UNKNOWN"
        PROVE  j = i
    <3>1. budget.lost = MaxLost
      BY <1>16, <2>2
    <3> QED
      BY <1>3, <1>4, <2>2, <3>1 DEF BooksInv, OneUnknown
  <2> QED
    BY <1>6, <2>1, <2>2 DEF OneUnknown
<1>19. HandsFull'
  <2>1. ASSUME NEW x \in Markets, pc'["main"] = "want", IsBuy(req["main"])',
               order'[req'["main"]].market = x, ~ Lost(x)
        PROVE  StillWanted(x)'
    <3>1. t # "main" /\ pc["main"] = "want" /\ req'["main"] = req["main"] /\ req["main"] \in Made
      BY <1>3, <2>1 DEF Tasks
    <3>2. StillWanted(x)
      BY <1>3, <2>1, <3>1 DEF BooksInv, HandsFull, IsBuy
    <3>3. x # m
      BY <1>1, <1>4, <1>5, <3>2 DEF StillWanted, Awaited, Awaits
    <3>4. ~ Awaited(x)'
      BY <1>9 DEF Awaited, Awaits
    <3> QED
      BY <1>6, <1>7, <3>2, <3>3, <3>4 DEF StillWanted
  <2> QED
    BY <1>3, <1>12, <2>1 DEF HandsFull
<1>20. MainsPart'
  <2>1. pc'["price"] \in {"idle", "exits", "want", "wait"}
    BY <1>3 DEF BooksInv, MainsPart, Tasks
  <2>2. \A x \in Markets : pending[x] # 0 => pending'[x] # 0
    BY <1>4, <1>7
  <2>3. ASSUME NEW x \in Markets, pc'["main"] \in {"sync", "giveup"}, pending'[x] # 0,
               ~ Lost(x)', IsBuy(pending[x])'
        PROVE  x \in exclude
    <3>1. t = "price" /\ pc["main"] \in {"sync", "giveup"}
      BY <1>3, <2>3 DEF Tasks
    <3>2. x # m
      BY <1>3, <1>4, <1>7, <2>3, <3>1 DEF IsBuy, BooksInv, HandsFull
    <3>3. pending[x] # 0 /\ IsBuy(pending[x])
      BY <1>3, <1>7, <2>3, <3>2, InHands DEF IsBuy
    <3> QED
      BY <1>12, <2>3, <3>1, <3>3 DEF BooksInv, MainsPart
  <2>4. pc'["main"] \notin {"sync", "giveup"} => pc["main"] \notin {"sync", "giveup"}
    BY <1>1, <1>3 DEF Tasks
  <2> QED
    BY <1>6, <2>1, <2>2, <2>3, <2>4 DEF BooksInv, MainsPart
<1>21. Shape' /\ Starting'
  BY <1>6, <1>8 DEF BooksInv, Shape, Starting
<1> QED
  BY <1>14, <1>16, <1>17, <1>18, <1>19, <1>20, <1>21 DEF BooksInv

\* While main is at its pending orders the lock is free and main wants nothing.
LEMMA WhileResolving ==
  ASSUME Inv, BooksInv, NEW m \in Markets, Resolving(m)
  PROVE  /\ \A u \in Tasks : pc[u] # "wait"
         /\ phase = "run" /\ pc["main"] = "resolve"
         /\ pending[m] # 0 /\ pending[m] \in Made /\ order[pending[m]].market = m
         /\ order[pending[m]].rec = "UNKNOWN"
         /\ todo[m] # 0 /\ todo[m] \in Made /\ order[todo[m]].market = m
         /\ order[todo[m]].rec = "UNKNOWN"
         /\ todo[m] # pending[m] => Lost(m)
<1>1. \A u \in Tasks : pc[u] # "wait"
  BY DEF Resolving, Inv, HandsOK, OneCallAtATime, Free, Tasks
<1>2. phase = "run" /\ pc["main"] = "resolve"
  BY DEF Resolving, BooksInv, Starting, Tasks
<1>3. pending[m] # 0 /\ todo[m] # 0
  BY DEF Resolving, BooksInv, MainsPart
<1>4. /\ pending[m] \in Made /\ order[pending[m]].market = m /\ order[pending[m]].rec = "UNKNOWN"
      /\ todo[m] \in Made /\ order[todo[m]].market = m /\ order[todo[m]].rec = "UNKNOWN"
  BY <1>3, InHands DEF Inv, QueuesOK, Recorded
<1> QED
  BY <1>1, <1>2, <1>3, <1>4 DEF Lost

\* A pending order is decided: the books of its market show the exchange.
LEMMA ResolveSettledKeeps ==
  ASSUME Inv, Inv', BooksInv, NEW m \in Markets, ResolveSettled(m)
  PROVE  BooksInv'
<1> USE DEF exchangeVars, bookVars
<1>0. Resolving(m)
  BY DEF ResolveSettled
<1>1. PICK i \in Made : i = todo[m]
  BY <1>0, WhileResolving
<1>2. /\ \A u \in Tasks : pc[u] # "wait"
      /\ phase = "run" /\ pc["main"] = "resolve"
      /\ pending[m] # 0 /\ pending[m] \in Made /\ order[pending[m]].market = m
      /\ order[pending[m]].rec = "UNKNOWN"
      /\ order[i].market = m /\ order[i].rec = "UNKNOWN"
      /\ i # pending[m] => Lost(m)
  BY <1>0, <1>1, WhileResolving
<1>3. Final(i) /\ Settle(i)
  BY <1>1 DEF ResolveSettled
<1>4. PICK r \in {"FILLED", "REJECTED"} : order' = [order EXCEPT ![i].rec = r]
  BY <1>3, SettleIsOne
<1>5. RecordOnly(i, r)
  BY ZenonT(60), <1>4, OnlyRecord DEF Inv
<1> USE DEF RecordOnly
<1> HIDE <1>4
<1>6. made' = made /\ Made' = Made /\ UNCHANGED <<hold, req, exclude, phase, budget>>
  BY DEF ResolveSettled, Made
<1>7. /\ pending'[m] = 0 /\ \A x \in Markets : x # m => pending'[x] = pending[x]
      /\ todo'[m] = 0 /\ \A x \in Markets : x # m => todo'[x] = todo[x]
  BY DEF ResolveSettled, Inv, QueuesOK, Recorded
<1>8. /\ pc'["main"] \in {"idle", "resolve"}
      /\ \A u \in Tasks : u # "main" => pc'[u] = pc[u]
  BY <1>2 DEF ResolveSettled, GoOn, Inv, HandsOK, Tasks
<1>9. \A u \in Tasks : pc'[u] # "wait"
  BY <1>2, <1>8
<1>10. \A x \in Markets : x # m => qty'[x] = qty[x]
  BY <1>2, <1>3 DEF Settle, Book, BooksInv, Shape
<1>11. ASSUME NEW x \in Markets, x # m PROVE LeavesAlone(x)
  <2>1. OrdersStay(x)
    BY <1>2, <1>5, <1>6, <1>11 DEF OrdersStay
  <2> QED
    BY <1>2, <1>6, <1>7, <1>9, <1>10, <1>11, <2>1 DEF LeavesAlone
<1>12. ~ Lost(m)' => ~ Lost(m) /\ i = pending[m]
  <2>1. ASSUME Lost(m) PROVE Lost(m)'
    <3>1. PICK j \in Made :
            /\ order[j].market = m
            /\ order[j].rec = "EARLY" \/ (order[j].rec = "UNKNOWN" /\ j # pending[m])
      BY <2>1 DEF Lost
    <3>2. CASE order[j].rec = "EARLY"
      BY <1>2, <1>5, <1>6, <3>1, <3>2 DEF Lost
    <3>3. CASE order[j].rec = "UNKNOWN" /\ j # pending[m]
      <4>1. \E k \in {j, pending[m]} : k # i
        BY <3>3
      <4>2. PICK k \in {j, pending[m]} : k # i
        BY <4>1
      <4>3. k \in Made /\ order'[k].market = m /\ order'[k].rec = "UNKNOWN" /\ k # 0
        BY <1>2, <1>5, <3>1, <3>3, <4>2, MadeNat DEF Inv, Made
      <4> QED
        BY <1>6, <1>7, <4>3 DEF Lost
    <3> QED
      BY <3>1, <3>2, <3>3
  <2> QED
    BY <1>2, <2>1
<1>13. \A x \in Markets : Lost(x) => Lost(x)'
  BY <1>11, <1>12, AloneFits
<1>14. ASSUME ~ Lost(m)'
       PROVE  /\ qty'[m] = hold[m] /\ hold[m] \in {0, 1} /\ qty[m] \in {0, 1}
              /\ cash \in Int => cash' \in Int /\ cash' = cash + qty[m] - qty'[m]
  <2>1. AtRest(m)
    BY <1>2, <1>12, <1>14 DEF BooksInv, AllFit, Fits, Awaited, Awaits
  <2>2. /\ order[i].size = 1
        /\ IF IsBuy(i) THEN Bought(i, m) ELSE Sold(i, m) \/ Gone(i, m)
    BY <1>2, <1>12, <1>14, <2>1 DEF AtRest
  <2> QED
    BY <1>2, <1>3, <2>2, SettledBooks DEF BooksInv
<1>15. AllFit'
  <2>1. ASSUME ~ Lost(m)' PROVE Fits(m)'
    <3>1. AtRest(m)'
      BY <1>6, <1>7, <1>14, <2>1 DEF AtRest
    <3> QED
      BY <1>9, <3>1 DEF Fits, Awaits
  <2> QED
    BY <1>11, <1>13, <2>1, AloneFits DEF BooksInv, AllFit
<1>16. CashFits'
  <2> SUFFICES ASSUME budget.lost + 1 >= MaxLost, \A x \in Markets : ~ Lost(x)'
               PROVE  cash' \in Int /\ cash' + Cardinality(Ones(qty', Markets)) = Funds
    BY <1>6 DEF CashFits
  <2>1. cash \in Int /\ cash + Cardinality(Ones(qty, Markets)) = Funds
    BY <1>2, <1>13 DEF BooksInv, CashFits
  <2>2. /\ qty'[m] \in {0, 1} /\ qty[m] \in {0, 1} /\ cash' \in Int
        /\ cash' = cash + qty[m] - qty'[m]
    BY <1>14, <2>1
  <2> QED
    BY <1>10, <2>1, <2>2, SettledCash
<1>17. OneUnknown'
  BY <1>5, <1>6 DEF BooksInv, OneUnknown
<1>18. HandsFull'
  <2>0. HandsFull /\ "price" \in Tasks
    BY DEF BooksInv, Tasks
  <2>1. ASSUME NEW j \in Made', order'[j].rec = "none" PROVE \E u \in Tasks : req'[u] = j
    BY <1>5, <1>6, <2>0, <2>1 DEF HandsFull
  <2>2. \A j \in Made' : order'[j].exch = "open" => order'[j].rec \in {"none", "UNKNOWN", "EARLY"}
    BY <1>3, <1>5, <1>6, <2>0 DEF HandsFull, Final
  <2>3. req'["price"] # 0 => ~ IsBuy(req["price"])'
    <3>1. req["price"] # 0 => req["price"] \in Made
      BY <2>0 DEF Inv, HandsOK, Made
    <3> QED
      BY <1>5, <1>6, <2>0, <3>1 DEF HandsFull, IsBuy
  <2> QED
    BY <1>8, <2>1, <2>2, <2>3 DEF HandsFull
<1>19. MainsPart'
  <2>1. pc'["price"] \in {"idle", "exits", "want", "wait"}
    BY <1>8 DEF BooksInv, MainsPart, Tasks
  <2>2. exclude = {}
    BY <1>2 DEF BooksInv, MainsPart
  <2> QED
    BY <1>6, <1>7, <1>8, <2>1, <2>2 DEF BooksInv, MainsPart
<1>20. Shape' /\ BudgetOK' /\ Starting'
  <2>1. qty' = [x \in Markets |-> qty'[x]]
    BY <1>3 DEF Settle, Book, BooksInv, Shape
  <2> QED
    BY <1>2, <1>6, <2>1 DEF BooksInv, Shape, BudgetOK, Starting
<1> QED
  BY <1>15, <1>16, <1>17, <1>18, <1>19, <1>20 DEF BooksInv

\* A pending order is given up: its market is one with a lost order.
LEMMA GiveUpKeeps ==
  ASSUME Inv, Inv', BooksInv, NEW m \in Markets, GiveUp(m)
  PROVE  BooksInv'
<1> USE DEF exchangeVars, bookVars, orderVars
<1>1. /\ \A u \in Tasks : pc[u] # "wait"
      /\ phase = "run" /\ pc["main"] = "resolve"
      /\ pending[m] # 0 /\ pending[m] \in Made /\ order[pending[m]].market = m
      /\ order[pending[m]].rec = "UNKNOWN"
  BY WhileResolving DEF GiveUp
<1>2. /\ UNCHANGED <<order, made, qty, cash, hold, req, phase>> /\ Made' = Made
  BY DEF GiveUp, Made
<1>3. /\ pending'[m] = 0 /\ \A x \in Markets : x # m => pending'[x] = pending[x]
      /\ todo'[m] = 0 /\ \A x \in Markets : x # m => todo'[x] = todo[x]
  BY DEF GiveUp, Inv, QueuesOK, Recorded
<1>4. /\ pc'["main"] = "giveup"
      /\ \A u \in Tasks : u # "main" => pc'[u] = pc[u]
  BY DEF GiveUp, Inv, HandsOK, Tasks
<1>5. \A u \in Tasks : pc'[u] # "wait"
  BY <1>1, <1>4
<1>6. ASSUME NEW x \in Markets, x # m PROVE LeavesAlone(x)
  <2>1. OrdersStay(x)
    BY <1>2 DEF OrdersStay
  <2> QED
    BY <1>1, <1>2, <1>3, <1>5, <1>6, <2>1 DEF LeavesAlone
<1>7. Lost(m)'
  <2>1. pending[m] # pending'[m]
    BY <1>1, <1>3
  <2> QED
    BY <1>1, <1>2, <2>1 DEF Lost
<1>8. \A x \in Markets : Lost(x) => Lost(x)'
  BY <1>6, <1>7, AloneFits
<1>9. AllFit'
  BY <1>6, <1>7, <1>8, AloneFits DEF BooksInv, AllFit
<1>10. CashFits'
  BY <1>7 DEF CashFits
<1>11. budget' = [budget EXCEPT !["giveups"] = @ - 1] /\ budget.giveups > 0
  BY DEF GiveUp, Spend
<1>12. BudgetOK' /\ budget'.lost = budget.lost
  BY <1>11 DEF BooksInv, BudgetOK
<1>13. OneUnknown'
  BY <1>2, <1>12 DEF BooksInv, OneUnknown
<1>14. HandsFull'
  BY <1>2, <1>4 DEF BooksInv, HandsFull, IsBuy
<1>15. MainsPart'
  <2>1. pc'["price"] \in {"idle", "exits", "want", "wait"}
    BY <1>4 DEF BooksInv, MainsPart, Tasks
  <2>2. exclude' = {x \in Markets : pending'[x] # 0}
    BY DEF GiveUp
  <2> QED
    BY <1>3, <1>4, <2>1, <2>2 DEF BooksInv, MainsPart
<1>16. Shape' /\ Starting'
  BY <1>1, <1>2 DEF BooksInv, Shape, Starting
<1> QED
  BY <1>9, <1>10, <1>12, <1>13, <1>14, <1>15, <1>16 DEF BooksInv

\* The exchange decides an open order: the books wait for exactly this one.
LEMMA DecidedKeeps ==
  ASSUME Inv, Inv', BooksInv, NEW i \in Made, Fill(i) \/ Cancel(i)
  PROVE  BooksInv'
<1> USE DEF exchangeVars, bookVars, taskVars
<1>1. order[i].exch = "open"
  BY DEF Fill, Cancel
<1>2. PICK e \in {"filled", "cancelled"} :
        /\ order' = [order EXCEPT ![i].exch = e]
        /\ e = "filled" => Fill(i)
        /\ e = "cancelled" => hold' = hold
  BY DEF Fill, Cancel
<1>3. ExchOnly(i, e)
  BY ZenonT(60), <1>2, OnlyExch DEF Inv
<1> USE DEF ExchOnly
<1>4. made' = made /\ Made' = Made
      /\ UNCHANGED <<qty, cash, pending, todo, exclude, phase, req, pc, budget>>
  BY DEF Fill, Cancel, Made
<1>5. PICK m \in Markets : order[i].market = m
  BY DEF Inv, OrdersOK, IsOrder
<1>6. /\ \A x \in Markets : x # m => hold'[x] = hold[x]
      /\ hold' = [x \in Markets |-> hold'[x]]
      /\ e = "filled" => hold'[m] = IF IsBuy(i) THEN hold[m] + order[i].size ELSE hold[m] - order[i].size
      /\ e = "cancelled" => hold'[m] = hold[m]
  <2>1. CASE e = "filled"
    BY <1>2, <1>5, <2>1 DEF Fill, BooksInv, Shape, IsBuy
  <2>2. CASE e = "cancelled"
    BY <1>2, <2>2 DEF BooksInv, Shape
  <2> QED
    BY <2>1, <2>2
<1> HIDE <1>2
<1>7. \A x \in Markets : Lost(x)' <=> Lost(x)
  BY <1>3, <1>4 DEF Lost
<1>8. \A u \in Tasks : pc[u] \in {"want", "wait"} => req[u] \in Made
  BY InHands
<1>9. ASSUME NEW x \in Markets, x # m PROVE LeavesAlone(x)
  <2>1. OrdersStay(x)
    BY <1>3, <1>4, <1>5, <1>9 DEF OrdersStay
  <2> QED
    BY <1>3, <1>4, <1>6, <1>8, <1>9, <2>1 DEF LeavesAlone
<1>10. \A x \in Markets : Awaited(x)' <=> Awaited(x)
  BY <1>3, <1>4, <1>8 DEF Awaited, Awaits
<1>11. pending[m] # 0 => /\ pending[m] \in Made
                         /\ order'[pending[m]].side = order[pending[m]].side
                         /\ order'[pending[m]].size = order[pending[m]].size
                         /\ pending[m] # i => order'[pending[m]].exch = order[pending[m]].exch
  BY <1>3, InHands
\* A task waits for this order, or it is the one main keeps pending.
<1>12. ASSUME ~ Lost(m), Awaited(m)
       PROVE  /\ Fits(m)'
              /\ ~ StillWanted(m)
  <2>1. PICK t \in Tasks : Awaits(t, m)
    BY <1>12 DEF Awaited
  <2>2. UnderWay(t, m) /\ \A u \in Tasks : Awaits(u, m) => u = t
    BY <1>12, <2>1, OneWaits DEF BooksInv, AllFit, Fits, Awaits
  <2>3. req[t] = i
    <3>1. order[i].rec \in {"none", "UNKNOWN"}
      BY <1>1, <1>5, <1>12 DEF BooksInv, HandsFull, Lost
    <3>2. CASE order[i].rec = "none"
      <4>1. PICK u \in Tasks : req[u] = i
        BY <3>2 DEF BooksInv, HandsFull
      <4>2. pc[u] = "wait"
        BY <1>1, <4>1 DEF Inv, HandsOK, Made
      <4> QED
        BY <1>5, <2>2, <4>1, <4>2 DEF Awaits
    <3>3. CASE order[i].rec = "UNKNOWN"
      <4>1. pending[m] = i /\ i # 0
        BY <1>5, <1>12, <3>3 DEF Lost, Made
      <4> QED
        BY <1>1, <2>2, <4>1 DEF UnderWay
    <3> QED
      BY <3>1, <3>2, <3>3
  <2>4. pending[m] # i
    BY <1>1, <2>2, <2>3, MadeNat DEF UnderWay, Inv, Made
  <2>5. UnderWay(t, m)'
    <3>1. /\ order'[i].side = order[i].side /\ order'[i].size = order[i].size
          /\ order'[i].exch = e
      BY <1>3
    <3>2. order[i].size = 1
      BY <2>2, <2>3 DEF UnderWay
    <3>3. CASE IsBuy(i)
      <4>1. pending[m] = 0 /\ qty[m] = 0 /\ hold[m] = 0
        BY <1>1, <2>2, <2>3, <3>3 DEF UnderWay, Bought, Filled
      <4>2. hold'[m] = IF e = "filled" THEN 1 ELSE 0
        BY <1>6, <3>2, <3>3, <4>1
      <4> QED
        BY <1>4, <2>3, <3>1, <3>2, <3>3, <4>1, <4>2 DEF UnderWay, Bought, Filled, IsBuy
    <3>4. CASE ~ IsBuy(i)
      <4>1. qty[m] = 1 /\ hold[m] = 1
        BY <1>1, <2>2, <2>3, <3>4 DEF UnderWay, Sold, Filled
      <4>2. hold'[m] = IF e = "filled" THEN 0 ELSE 1
        BY <1>6, <3>2, <3>4, <4>1
      <4> QED
        BY <1>4, <1>11, <2>2, <2>3, <2>4, <3>1, <3>2, <3>4, <4>1, <4>2
           DEF UnderWay, Sold, Filled, IsBuy
    <3> QED
      BY <3>3, <3>4
  <2>6. \A u \in Tasks : Awaits(u, m)' => u = t
    BY <1>3, <1>4, <1>8, <2>2 DEF Awaits
  <2> QED
    BY <1>10, <1>12, <2>5, <2>6 DEF Fits, StillWanted
<1>13. ASSUME ~ Lost(m), ~ Awaited(m)
       PROVE  /\ Fits(m)'
              /\ ~ StillWanted(m)
  <2>1. i = pending[m] /\ pending[m] # 0
    BY <1>1, <1>5, <1>13, OpenIsPending
  <2>2. AtRest(m)
    BY <1>13 DEF BooksInv, AllFit, Fits
  <2>3. AtRest(m)'
    <3>1. /\ order'[i].side = order[i].side /\ order'[i].size = order[i].size
          /\ order'[i].exch = e
      BY <1>3
    <3>2. order[i].size = 1
      BY <2>1, <2>2 DEF AtRest
    <3>3. CASE IsBuy(i)
      <4>1. qty[m] = 0 /\ hold[m] = 0
        BY <1>1, <2>1, <2>2, <3>3 DEF AtRest, Bought, Filled
      <4>2. hold'[m] = IF e = "filled" THEN 1 ELSE 0
        BY <1>6, <3>2, <3>3, <4>1
      <4> QED
        BY <1>4, <2>1, <3>1, <3>2, <3>3, <4>1, <4>2 DEF AtRest, Bought, Filled, IsBuy
    <3>4. CASE ~ IsBuy(i)
      <4>1. qty[m] = 1 /\ hold[m] = 1
        BY <1>1, <2>1, <2>2, <3>4 DEF AtRest, Sold, Gone, Filled
      <4>2. hold'[m] = IF e = "filled" THEN 0 ELSE 1
        BY <1>6, <3>2, <3>4, <4>1
      <4> QED
        BY <1>4, <2>1, <3>1, <3>2, <3>4, <4>1, <4>2 DEF AtRest, Sold, Filled, IsBuy
    <3> QED
      BY <3>3, <3>4
  <2>4. ~ Awaited(m)'
    BY <1>10, <1>13
  <2> QED
    BY <2>1, <2>3, <2>4 DEF Fits, Awaited, StillWanted
<1>14. AllFit'
  BY <1>7, <1>9, <1>12, <1>13, AloneFits DEF BooksInv, AllFit
<1>15. OneUnknown' /\ CashFits'
  <2>1. \A j \in Made : order'[j].rec = order[j].rec
    BY <1>3
  <2> QED
    BY <1>4, <1>7, <2>1 DEF BooksInv, OneUnknown, CashFits
<1>16. HandsFull'
  <2>0. HandsFull /\ "main" \in Tasks /\ "price" \in Tasks
    BY DEF BooksInv, Tasks
  <2>1. \A j \in Made' : order'[j].rec = "none" => \E u \in Tasks : req'[u] = j
    BY <1>3, <1>4, <2>0 DEF HandsFull
  <2>2. \A j \in Made' : order'[j].exch = "open" => order'[j].rec \in {"none", "UNKNOWN", "EARLY"}
    BY <1>3, <1>4, <2>0 DEF HandsFull
  <2>3. req'["price"] # 0 => ~ IsBuy(req["price"])'
    <3>1. req["price"] # 0 => req["price"] \in Made
      BY <2>0 DEF Inv, HandsOK, Made
    <3> QED
      BY <1>3, <1>4, <2>0, <3>1 DEF HandsFull, IsBuy
  <2>4. ASSUME NEW x \in Markets, pc'["main"] = "want", IsBuy(req["main"])',
               order'[req'["main"]].market = x, ~ Lost(x)
        PROVE  StillWanted(x)'
    <3>1. req["main"] \in Made
      BY <1>4, <1>8, <2>0, <2>4
    <3>2. StillWanted(x)
      BY <1>3, <1>4, <2>0, <2>4, <3>1 DEF HandsFull, IsBuy
    <3>3. x # m
      BY <1>12, <1>13, <2>4, <3>2
    <3> QED
      BY <1>4, <1>6, <1>10, <3>2, <3>3 DEF StillWanted
  <2> QED
    BY <1>7, <2>1, <2>2, <2>3, <2>4 DEF HandsFull
<1>17. MainsPart'
  <2>1. pc'["price"] \in {"idle", "exits", "want", "wait"}
    BY <1>4 DEF BooksInv, MainsPart
  <2>2. \A j \in Made : order'[j].side = order[j].side
    BY <1>3
  <2> QED
    BY <1>4, <1>7, <2>1, <2>2, SameMains
<1>18. Shape' /\ BudgetOK' /\ Starting'
  <2>1. phase = "run"
    BY MadeNat DEF BooksInv, Starting, Inv, Made
  <2> QED
    BY <1>4, <1>6, <2>1 DEF BooksInv, Shape, BudgetOK, Starting
<1> QED
  BY <1>14, <1>15, <1>16, <1>17, <1>18 DEF BooksInv

\* What reconcile copies fits: a purchase it could spoil is among the markets it
\* leaves alone, and a sale is then in the books already.
LEMMA SyncKeeps ==
  ASSUME Inv, Inv', BooksInv, Sync, CopyAccounts(exclude)
  PROVE  BooksInv'
<1> USE DEF exchangeVars, bookVars, orderVars
<1>1. /\ UNCHANGED <<order, made, hold, pending, req, todo, phase, budget>> /\ Made' = Made
      /\ exclude' = {} /\ lock = Free /\ pc["main"] \in {"sync", "giveup"}
  BY DEF Sync, Made
<1>2. /\ pc'["main"] \in {"idle", "resolve"}
      /\ \A u \in Tasks : u # "main" => pc'[u] = pc[u]
  BY DEF Sync, GoOn, Inv, HandsOK, Tasks
<1>3. phase = "run"
  BY <1>1 DEF BooksInv, Starting, Tasks
<1>4. \A u \in Tasks : pc[u] # "wait" /\ pc'[u] # "wait"
  BY <1>1, <1>2 DEF Inv, HandsOK, OneCallAtATime, Free, Tasks
<1>5. /\ qty' = [m \in Markets |-> qty'[m]]
      /\ \A m \in Markets : qty'[m] = IF m \in exclude THEN qty[m] ELSE hold[m]
      /\ cash' = IF exclude = {} THEN ExchangeCash ELSE cash
  BY DEF CopyAccounts
<1>6. \A m \in Markets : Lost(m)' <=> Lost(m)
  BY <1>1 DEF Lost
<1>7. \A m \in Markets : ~ Lost(m) => AtRest(m)
  BY <1>4 DEF BooksInv, AllFit, Fits, Awaited, Awaits
<1>8. ASSUME NEW m \in Markets, ~ Lost(m) PROVE Fits(m)'
  <2>1. AtRest(m)'
    <3>1. CASE m \in exclude
      BY <1>1, <1>5, <1>7, <1>8, <3>1 DEF AtRest, Bought, Sold, Gone, IsBuy, Filled
    <3>2. CASE m \notin exclude /\ pending[m] = 0
      BY <1>1, <1>5, <1>7, <1>8, <3>2 DEF AtRest
    <3>3. CASE m \notin exclude /\ pending[m] # 0
      <4>1. ~ IsBuy(pending[m])
        BY <1>1, <1>8, <3>3 DEF BooksInv, MainsPart
      <4>2. qty'[m] = hold[m]
        BY <1>5, <3>3
      <4>3. order[pending[m]].size = 1 /\ (Sold(pending[m], m) \/ Gone(pending[m], m))
        BY <1>7, <1>8, <3>3, <4>1 DEF AtRest
      <4> QED
        BY <1>1, <3>3, <4>1, <4>2, <4>3 DEF AtRest, Sold, Gone, IsBuy, Filled
    <3> QED
      BY <3>1, <3>2, <3>3
  <2> QED
    BY <1>4, <2>1 DEF Fits, Awaits
<1>9. AllFit'
  BY <1>6, <1>8 DEF AllFit
<1>10. ASSUME \A m \in Markets : ~ Lost(m)
       PROVE  \A m \in Markets : hold[m] \in {0, 1}
  BY <1>7, <1>10 DEF AtRest, Bought, Sold, Gone
<1>11. CashFits'
  <2> SUFFICES ASSUME budget.lost + 1 >= MaxLost, \A m \in Markets : ~ Lost(m)
               PROVE  cash' \in Int /\ cash' + Cardinality(Ones(qty', Markets)) = Funds
    BY <1>1, <1>6 DEF CashFits
  <2>1. CASE exclude = {}
    <3>1. cash' = Funds - Cardinality(Ones(hold, Markets))
      BY <1>5, <1>10, <2>1, ExchangeCashCounts, ConstantsAssumption
    <3>2. Ones(qty', Markets) = Ones(hold, Markets)
      BY <1>5, <2>1 DEF Ones
    <3>3. Cardinality(Ones(hold, Markets)) \in Nat
      <4>1. Ones(hold, Markets) \subseteq Markets /\ IsFiniteSet(Markets)
        BY ConstantsAssumption DEF Ones
      <4>2. IsFiniteSet(Ones(hold, Markets))
        BY <4>1, FS_Subset, Zenon
      <4> QED
        BY <4>2, FS_CardinalityType
    <3>4. Funds \in Nat
      BY ConstantsAssumption
    <3> QED
      BY <3>1, <3>2, <3>3, <3>4
  <2>2. CASE exclude # {}
    <3>1. cash \in Int /\ cash + Cardinality(Ones(qty, Markets)) = Funds
      BY <1>3 DEF BooksInv, CashFits
    <3>2. PICK x \in exclude : x \in Markets /\ pending[x] # 0
      BY <2>2 DEF BooksInv, MainsPart
    <3>3. ASSUME NEW m \in Markets PROVE qty'[m] = qty[m]
      <4>1. CASE m \in exclude
        BY <1>5, <4>1
      <4>2. CASE m \notin exclude
        <5>1. ASSUME pending[m] # 0 PROVE FALSE
          <6>1. /\ pending[m] \in Made /\ order[pending[m]].rec = "UNKNOWN"
                /\ pending[x] \in Made /\ order[pending[x]].rec = "UNKNOWN"
                /\ order[pending[m]].market = m /\ order[pending[x]].market = x
            BY <3>2, <5>1, InHands DEF Inv, QueuesOK, Recorded
          <6>2. pending[m] = pending[x]
            BY <6>1 DEF BooksInv, OneUnknown
          <6> QED
            BY <3>2, <4>2, <6>1, <6>2
        <5> QED
          BY <1>5, <1>7, <4>2, <5>1 DEF AtRest
      <4> QED
        BY <4>1, <4>2
    <3>4. Ones(qty', Markets) = Ones(qty, Markets)
      BY <3>3 DEF Ones
    <3> QED
      BY <1>5, <2>2, <3>1, <3>4
  <2> QED
    BY <2>1, <2>2
<1>12. OneUnknown'
  BY <1>1 DEF BooksInv, OneUnknown
<1>13. HandsFull'
  BY <1>1, <1>2 DEF BooksInv, HandsFull, IsBuy
<1>14. MainsPart'
  <2>1. pc'["price"] \in {"idle", "exits", "want", "wait"}
    BY <1>2 DEF BooksInv, MainsPart, Tasks
  <2> QED
    BY <1>1, <1>2, <2>1 DEF BooksInv, MainsPart
<1>15. Shape' /\ BudgetOK' /\ Starting'
  BY <1>1, <1>3, <1>5 DEF BooksInv, Shape, BudgetOK, Starting
<1> QED
  BY <1>9, <1>11, <1>12, <1>13, <1>14, <1>15 DEF BooksInv

\* Before the first order the books are the account's.
LEMMA StartupKeeps ==
  ASSUME Inv, Inv', BooksInv, Build \/ StartSync \/ LoadPending
  PROVE  BooksInv'
<1> USE DEF exchangeVars, bookVars, orderVars, taskVars
<1>1. /\ phase # "run" /\ made = 0 /\ Made = {} /\ "main" \in Tasks /\ "price" \in Tasks
      /\ \A t \in Tasks : pc[t] = "idle"
      /\ \A m \in Markets : hold[m] = 0 /\ pending[m] = 0 /\ todo[m] = 0
  <2>1. phase # "run"
    BY DEF Build, StartSync, LoadPending
  <2>2. made = 0 /\ (\A t \in Tasks : pc[t] = "idle") /\ \A m \in Markets : hold[m] = 0
    BY <2>1 DEF BooksInv, Starting
  <2>3. \A m \in Markets : pending[m] = 0 /\ todo[m] = 0
    BY <2>2 DEF Inv, QueuesOK, Recorded
  <2> QED
    BY <2>1, <2>2, <2>3 DEF Made, Tasks
<1>2. CASE LoadPending
  <2>1. \A m \in Markets : pending'[m] = 0
    BY <1>1, <1>2 DEF LoadPending, Unknown
  <2>2. pending' = pending
    BY <1>1, <1>2, <2>1 DEF LoadPending, Inv, QueuesOK, Recorded
  <2>3. \A m \in Markets : todo'[m] = 0
    BY <1>2, <2>1 DEF LoadPending
  <2>4. todo' = NoOrders
    BY <1>2, <2>1, <2>2 DEF LoadPending, NoOrders, Inv, QueuesOK, Recorded
  <2>5. pc' = pc
    BY <1>1, <1>2, <2>4 DEF LoadPending, GoOn, Inv, HandsOK
  <2>6. Moving /\ phase' # "run"
    BY <1>2, <2>2, <2>5 DEF LoadPending, Moving
  <2>7. \A m \in Markets : Lost(m)' <=> Lost(m)
    BY <1>2, <2>2 DEF LoadPending, Lost, Made
  <2>8. MainsPart'
    BY <1>1, <1>2, <2>2, <2>3, <2>5, <2>7 DEF LoadPending, BooksInv, MainsPart, IsBuy
  <2>9. Starting'
    BY <1>1, <1>2, <2>5 DEF LoadPending, BooksInv, Starting
  <2> QED
    BY <2>6, <2>8, <2>9, MovingKeeps DEF BooksInv
<1>3. CASE Build \/ StartSync
  <2>1. /\ UNCHANGED <<order, made, hold, pending, req, pc, todo, exclude, budget>>
        /\ Made' = {} /\ phase' # "run" /\ phase' # "down"
    BY <1>1, <1>3 DEF Build, StartSync, Made
  <2>2. cash' = ExchangeCash /\ qty' = hold
    <3>1. CASE Build
      BY <3>1 DEF Build
    <3>2. CASE StartSync
      <4>1. {m \in Markets : pending[m] # 0} = {}
        BY <1>1
      <4>2. qty' = [m \in Markets |-> hold[m]] /\ cash' = ExchangeCash
        BY <3>2, <4>1 DEF StartSync, CopyAccounts
      <4> QED
        BY <4>2 DEF BooksInv, Shape
    <3> QED
      BY <1>3, <3>1, <3>2
  <2>3. CashFits'
    <3>1. ExchangeCash = Funds - Cardinality(Ones(hold, Markets))
      BY <1>1, ExchangeCashCounts, ConstantsAssumption
    <3>2. Ones(hold, Markets) = {}
      BY <1>1 DEF Ones
    <3>3. Cardinality(Ones(hold, Markets)) = 0 /\ Funds \in Nat
      BY <3>2, FS_EmptySet, ConstantsAssumption
    <3>4. cash' = Funds
      BY <2>2, <3>1, <3>3
    <3>5. Ones(qty, Markets)' = Ones(hold, Markets)
      BY <2>2
    <3> QED
      BY <3>3, <3>4, <3>5 DEF CashFits
  <2>4. AllFit'
    <3>1. \A m \in Markets : AtRest(m)'
      BY <1>1, <2>1, <2>2 DEF AtRest
    <3> QED
      BY <1>1, <2>1, <3>1 DEF AllFit, Fits, Awaits
  <2>5. OneUnknown'
    BY <2>1 DEF OneUnknown
  <2>6. HandsFull'
    BY <1>1, <2>1 DEF BooksInv, HandsFull, IsBuy
  <2>7. MainsPart'
    BY <1>1, <2>1 DEF BooksInv, MainsPart
  <2>8. Shape' /\ BudgetOK' /\ Starting'
    BY <1>1, <2>1, <2>2 DEF BooksInv, Shape, BudgetOK, Starting
  <2> QED
    BY <2>3, <2>4, <2>5, <2>6, <2>7, <2>8 DEF BooksInv
<1> QED
  BY <1>2, <1>3

\* Nothing is made and nothing held.
LEMMA BooksInit == Untroubled /\ Init => BooksInv
<1> SUFFICES ASSUME Untroubled, Init PROVE BooksInv
  OBVIOUS
<1> USE DEF Init, Made
<1>1. Shape /\ Starting
  BY DEF Shape, Starting
<1>2. BudgetOK
  BY ConstantsAssumption DEF BudgetOK, Untroubled
<1>3. HandsFull
  BY DEF HandsFull, Tasks
<1>4. MainsPart
  BY DEF MainsPart, NoOrders, Tasks
<1>5. OneUnknown /\ CashFits
  BY DEF OneUnknown, CashFits
<1>6. AllFit
  BY DEF AllFit, Fits, Awaits, AtRest, NoOrders
<1> QED
  BY <1>1, <1>2, <1>3, <1>4, <1>5, <1>6 DEF BooksInv

\* Every step keeps the books fitting.
LEMMA BooksStep == Inv /\ BooksInv /\ [Next]_vars => BooksInv'
<1> SUFFICES ASSUME Inv, BooksInv, [Next]_vars PROVE BooksInv'
  OBVIOUS
<1>0. Inv'
  BY InvStep
<1>1. \A kind \in {"db", "crashes"} : ~ Spend(kind)
  BY DEF Spend, BooksInv, BudgetOK
<1>2. ASSUME Decide PROVE BooksInv'
  BY <1>0, <1>2, MovesKeep, DecidingKeeps DEF Decide
<1>3. ASSUME NEW t \in Tasks, Execute(t) PROVE BooksInv'
  <2>1. ~ ConcludeUnrecorded(t)
    BY <1>1 DEF ConcludeUnrecorded
  <2> QED
    BY <1>0, <1>3, <2>1, RefuseKeeps, SendKeeps, ConcludeSettledKeeps,
       ConcludeEarlyKeeps, ConcludeUnknownKeeps
       DEF Execute, Conclude
<1>4. ASSUME Resolve PROVE BooksInv'
  <2>1. \A m \in Markets : ~ ResolveUnrecorded(m)
    BY <1>1 DEF ResolveUnrecorded
  <2> QED
    BY <1>0, <1>4, <2>1, MovesKeep, ResolveSettledKeeps, GiveUpKeeps DEF Resolve, ResolveOne
<1>5. ASSUME BeginSync \/ Sync PROVE BooksInv'
  BY <1>0, <1>5, MovesKeep, SyncKeeps DEF Sync
<1>6. ASSUME Startup PROVE BooksInv'
  BY <1>0, <1>6, MovesKeep, StartupKeeps DEF Startup
<1>7. ~ Crash
  BY <1>1 DEF Crash
<1>8. ASSUME Exchange PROVE BooksInv'
  <2>1. \A i \in OrderIds : Fill(i) \/ Cancel(i) => i \in Made
    BY DEF Fill, Cancel
  <2> QED
    BY <1>0, <1>8, <2>1, MovesKeep, DecidedKeeps DEF Exchange
<1>9. ASSUME UNCHANGED vars PROVE BooksInv'
  BY <1>0, <1>9, MovesKeep
<1> QED
  BY <1>2, <1>3, <1>4, <1>5, <1>6, <1>7, <1>8, <1>9 DEF Next

\* With every order decided the books hold what the exchange holds.
LEMMA BooksInvAgree == Inv /\ BooksInv => BooksAgree
<1> SUFFICES ASSUME Inv, BooksInv, phase = "run" PROVE BooksAgree
  BY DEF BooksAgree
<1>1. ASSUME NEW m \in Markets, Outstanding(m) = {}
      PROVE  ~ Lost(m) /\ qty[m] = hold[m] /\ hold[m] \in {0, 1}
  <2>1. ~ Lost(m)
    BY <1>1 DEF Outstanding, Lost
  <2>2. ~ Awaited(m)
    BY <1>1, InHands DEF Outstanding, Awaited, Awaits
  <2>3. pending[m] = 0
    BY <1>1, InHands DEF Outstanding, Inv, QueuesOK, Recorded
  <2> QED
    BY <2>1, <2>2, <2>3 DEF BooksInv, AllFit, Fits, AtRest
<1>2. ASSUME \A m \in Markets : Outstanding(m) = {}, MaxLost - budget.lost <= 1
      PROVE  cash = ExchangeCash
  <2>1. \A m \in Markets : ~ Lost(m) /\ qty[m] = hold[m] /\ hold[m] \in {0, 1}
    BY <1>1, <1>2
  <2>2. budget.lost + 1 >= MaxLost
    BY <1>2, ConstantsAssumption DEF BooksInv, BudgetOK
  <2>3. cash \in Int /\ cash + Cardinality(Ones(qty, Markets)) = Funds
    BY <2>1, <2>2 DEF BooksInv, CashFits
  <2>4. Ones(qty, Markets) = Ones(hold, Markets)
    BY <2>1 DEF Ones
  <2>5. ExchangeCash = Funds - Cardinality(Ones(hold, Markets))
    BY <2>1, ExchangeCashCounts, ConstantsAssumption
  <2>6. Cardinality(Ones(hold, Markets)) \in Nat
    <3>1. Ones(hold, Markets) \subseteq Markets /\ IsFiniteSet(Markets)
      BY ConstantsAssumption DEF Ones
    <3>2. IsFiniteSet(Ones(hold, Markets))
      BY <3>1, FS_Subset, Zenon
    <3> QED
      BY <3>2, FS_CardinalityType
  <2> QED
    BY <2>3, <2>4, <2>5, <2>6
<1> QED
  BY <1>1, <1>2 DEF BooksAgree

\* BooksAgree: whatever the two tasks, the exchange, lost answers, give-ups and
\* reconciles do to each other, a market without an outstanding order has the
\* position the account has, and the cash is the account's too while at most one
\* order has become UNKNOWN; an order given up, or settled while the exchange had it
\* open, stays outstanding (engine.py, _record_order, resolve_pending_orders and
\* reconcile; live_broker.py, _apply_fill and reconcile).
THEOREM BooksAgreeHolds ==
  ASSUME Untroubled
  PROVE  Spec => []BooksAgree
<1>1. Init => Inv /\ BooksInv
  BY InvInit, BooksInit
<1>2. Inv /\ BooksInv /\ [Next]_vars => (Inv /\ BooksInv)'
  BY InvStep, BooksStep
<1>3. QED
  BY <1>1, <1>2, BooksInvAgree, PTL DEF Spec

\* An order that was UNKNOWN becomes FILLED in resolve_pending_orders alone.
LEMMA OnlyResolveBooks ==
  ASSUME Inv, [Next]_vars, NEW i \in Made, order[i].rec = "UNKNOWN", order'[i].rec = "FILLED"
  PROVE  \E m \in Markets : ResolveSettled(m) /\ todo[m] = i
<1> USE DEF orderVars
<1>0. order' # order
  OBVIOUS
<1>1. ASSUME NEW m \in Markets, NEW s \in {"BUY", "SELL"}, SignalOrder(m, s) PROVE FALSE
  <2>1. \A j \in Made : order'[j] = order[j]
    BY <1>1, NewOrder DEF SignalOrder, Inv, Tasks
  <2> QED
    BY <2>1
<1>2. ASSUME NEW t \in Tasks, NEW m \in Markets, ExitOrder(t, m) PROVE FALSE
  <2>1. \A j \in Made : order'[j] = order[j]
    BY <1>2, NewOrder DEF ExitOrder, Inv
  <2> QED
    BY <2>1
<1>3. ASSUME NEW j \in Made, NEW r \in Recs, order' = [order EXCEPT ![j].rec = r]
      PROVE  j = i /\ r = "FILLED"
  <2>1. OrdersOK
    BY DEF Inv
  <2>2. RecordOnly(j, r)
    BY ZenonT(60), <1>3, <2>1, OnlyRecord
  <2> QED
    BY <2>2 DEF RecordOnly
<1>4. ASSUME NEW t \in Tasks,
             RefuseOrder(t) \/ ConcludeSettled(t) \/ ConcludeEarly(t) \/ ConcludeUnknown(t)
      PROVE  FALSE
  <2>1. req[t] \in Made /\ order[req[t]].rec = "none"
    BY <1>4, InHands DEF RefuseOrder, ConcludeSettled, ConcludeEarly, ConcludeUnknown, Inv, HandsOK
  <2>2. \E r \in {"FILLED", "REJECTED", "UNKNOWN", "EARLY"} : order' = [order EXCEPT ![req[t]].rec = r]
    BY <1>4, SettleIsOne DEF RefuseOrder, ConcludeSettled, ConcludeEarly, ConcludeUnknown
  <2> QED
    BY <1>3, <2>1, <2>2 DEF Recs
<1>5. ASSUME NEW t \in Tasks, Send(t) PROVE FALSE
  <2>1. PICK j \in Made : j = req[t]
    BY <1>5, InHands DEF Send
  <2>2. PICK e \in {"open", "absent"} :
          order' = [order EXCEPT ![j].exch = e, ![j].size = AskedSize(j)]
    BY <1>5, <2>1 DEF Send
  <2>3. order'[j].rec = order[j].rec /\ \A k \in Made : k # j => order'[k] = order[k]
    BY ZenonT(60), <2>2, OnlySent DEF Inv
  <2> QED
    BY <2>3
<1>6. ASSUME NEW j \in Made, Fill(j) \/ Cancel(j) PROVE FALSE
  <2>1. PICK e : order' = [order EXCEPT ![j].exch = e]
    BY <1>6 DEF Fill, Cancel
  <2>2. ExchOnly(j, e)
    BY ZenonT(60), <2>1, OnlyExch DEF Inv
  <2> QED
    BY <2>2 DEF ExchOnly
<1>7. ASSUME NEW m \in Markets, ResolveSettled(m) PROVE todo[m] = i
  <2>1. todo[m] \in Made
    BY <1>7, InHands DEF ResolveSettled, Resolving
  <2>2. \E r \in {"FILLED", "REJECTED"} : order' = [order EXCEPT ![todo[m]].rec = r]
    BY <1>7, SettleIsOne DEF ResolveSettled
  <2> QED
    BY <1>3, <2>1, <2>2 DEF Recs
<1>8. ASSUME \/ UNCHANGED vars
             \/ \E m \in Markets : SignalWithoutOrder(m) \/ ResolveLater(m) \/ GiveUp(m) \/ ResolveUnrecorded(m)
             \/ \E t \in Tasks : BeginExits(t) \/ ConcludeUnrecorded(t)
             \/ \E t \in Tasks, m \in Markets : SkipExit(t, m)
             \/ BeginResolve \/ BeginSync \/ Sync \/ Startup \/ Crash \/ CloseCandle
      PROVE  FALSE
  BY <1>0, <1>8
     DEF vars, SignalWithoutOrder, ResolveLater, GiveUp, ResolveUnrecorded, BeginExits,
         ConcludeUnrecorded, SkipExit, BeginResolve, BeginSync, Sync, Startup, Build,
         StartSync, LoadPending, Run, Crash, CloseCandle
<1>9. \A j \in OrderIds : Fill(j) \/ Cancel(j) => j \in Made
  BY DEF Fill, Cancel
<1> QED
  BY <1>1, <1>2, <1>4, <1>5, <1>6, <1>7, <1>8, <1>9
     DEF Next, Decide, Execute, Conclude, Resolve, ResolveOne, Exchange

\* BookedFillWasMissing: the fill a later lookup finds is applied to books that
\* miss it, never a second time (engine.py, resolve_pending_orders; live_broker.py,
\* resolve_pending).
THEOREM LaterFillWasMissing ==
  ASSUME Untroubled
  PROVE  Spec => BookedFillWasMissing
<1> DEFINE Missing ==
      \A i \in Made :
        /\ order[i].rec = "UNKNOWN" /\ order'[i].rec = "FILLED"
        /\ Outstanding(order[i].market) = {i}
        => qty[order[i].market] # hold[order[i].market]
<1>1. Init => Inv /\ BooksInv
  BY InvInit, BooksInit
<1>2. Inv /\ BooksInv /\ [Next]_vars => (Inv /\ BooksInv)'
  BY InvStep, BooksStep
<1>3. ASSUME Inv, BooksInv, [Next]_vars PROVE [Missing]_vars
  <2> SUFFICES ASSUME NEW i \in Made, order[i].rec = "UNKNOWN", order'[i].rec = "FILLED",
                      Outstanding(order[i].market) = {i}
               PROVE  qty[order[i].market] # hold[order[i].market]
    OBVIOUS
  <2>1. \E m \in Markets : ResolveSettled(m) /\ todo[m] = i
    BY <1>3, OnlyResolveBooks
  <2>2. PICK m \in Markets : ResolveSettled(m) /\ todo[m] = i
    BY <2>1
  <2>3. /\ \A u \in Tasks : pc[u] # "wait"
        /\ pending[m] \in Made /\ order[pending[m]].market = m
        /\ order[pending[m]].rec = "UNKNOWN" /\ order[i].market = m /\ pending[m] # 0
    BY <1>3, <2>2, WhileResolving DEF ResolveSettled
  <2>4. i = pending[m] /\ ~ Lost(m)
    BY <2>3 DEF Outstanding, Lost
  <2>5. AtRest(m)
    BY <1>3, <2>3, <2>4 DEF BooksInv, AllFit, Fits, Awaited, Awaits
  <2>6. Filled(i) /\ Bookable(i)
    <3>1. ~ (Filled(i) /\ Bookable(i)) => order' = [order EXCEPT ![i].rec = "REJECTED"]
      BY <2>2 DEF ResolveSettled, Settle, Filled
    <3>2. order' = [order EXCEPT ![i].rec = "REJECTED"] => RecordOnly(i, "REJECTED")
      BY ZenonT(60), <1>3, OnlyRecord DEF Inv
    <3> QED
      BY <3>1, <3>2 DEF RecordOnly
  <2> QED
    BY <2>3, <2>4, <2>5, <2>6 DEF AtRest, Bought, Sold, Gone, Bookable, IsBuy
<1>4. QED
  BY <1>1, <1>2, <1>3, PTL DEF Spec, BookedFillWasMissing

=============================================================================
