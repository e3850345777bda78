------------------------ MODULE OrderExecutionProofs ------------------------
(***************************************************************************)
(* Proofs about OrderExecution for every set of requests and every bound.  *)
(***************************************************************************)
EXTENDS OrderExecution, TLAPS

(***************************************************************************)
(* Types.                                                                  *)
(***************************************************************************)

\* What get_order answers has the type of an OrderInfo.
LEMMA ReadingType ==
  ASSUME ExchangeTypeOK, NEW id \in Ids
  PROVE  Reading(id) \subseteq Infos
<1> SUFFICES ASSUME NEW info \in Reading(id) PROVE info \in Infos
  OBVIOUS
<1>1. PICK t \in BOOLEAN :
        info = [state |-> exch[id], executed |-> executed[id], trades |-> t]
  BY Zenon DEF Reading
<1>2. exch[id] \in Entries /\ executed[id] \in 0..Size
  BY DEF ExchangeTypeOK
<1>3. QED
  BY <1>1, <1>2 DEF Infos

\* An identifier names a request and one of its attempts (make_identifier).
LEMMA IdentifierType ==
  ASSUME OrderTypeOK, NEW c \in ClientIds
  PROVE  Identifier(c) \in Ids
BY DEF OrderTypeOK, Identifier, Ids

\* Every way a call ends or moves on keeps the types of the call.
LEMMA ReturnType ==
  ASSUME TypeOK, NEW c \in ClientIds, NEW r \in Statuses, Return(c, r)
  PROVE  CallTypeOK' /\ status' \in [ClientIds -> Statuses]
BY ConstantsAssumption
   DEF TypeOK, OrderTypeOK, CallTypeOK, Return, NoInfo, Infos, Entries, Steps

\* Going on to another await of the same call keeps the types of the call.
LEMMA MoveToType ==
  ASSUME CallTypeOK, cid \in ClientIds, NEW s \in Steps \ {"idle"}, MoveTo(s), seen' \in Infos
  PROVE  CallTypeOK'
BY ConstantsAssumption DEF CallTypeOK, MoveTo

\* Taking up an order that is known to be placed keeps the types.
LEMMA WatchType ==
  ASSUME TypeOK, NEW c \in ClientIds, cid = c, NEW info \in Infos, Watch(c, info)
  PROVE  /\ CallTypeOK'
         /\ processed' \in SUBSET ClientIds
         /\ status' \in [ClientIds -> Statuses]
         /\ uuid' \in [ClientIds -> BOOLEAN]
<1>1. CallTypeOK'
  BY MoveToType DEF TypeOK, Watch, Steps
<1>2. QED
  BY <1>1 DEF TypeOK, OrderTypeOK, Watch, Statuses

\* A cancelled order is an order.
LEMMA CancelType ==
  ASSUME ExchangeTypeOK, NEW id \in Ids, TryCancel(id), UNCHANGED executed
  PROVE  ExchangeTypeOK'
BY DEF ExchangeTypeOK, TryCancel, Entries

\* Every step of a call and of the exchange keeps the types.
LEMMA TypeStep == TypeOK /\ [Next]_vars => TypeOK'
<1> SUFFICES ASSUME TypeOK, [Next]_vars PROVE TypeOK'
  OBVIOUS
<1> USE ConstantsAssumption
<1> USE DEF TypeOK, exchangeVars, orderVars, fateVars, callVars
<1>0. ASSUME UNCHANGED exchangeVars PROVE ExchangeTypeOK'
  BY <1>0 DEF ExchangeTypeOK
<1>1. CASE UNCHANGED vars
  BY <1>1 DEF vars, ExchangeTypeOK, OrderTypeOK, CallTypeOK
<1>2. ASSUME NEW c \in ClientIds, RejectDuplicate(c) PROVE TypeOK'
  BY <1>2, <1>0 DEF RejectDuplicate, OrderTypeOK, CallTypeOK
<1>3. ASSUME NEW c \in ClientIds, BeginExecute(c) PROVE TypeOK'
  <2>1. OrderTypeOK'
    BY <1>3 DEF BeginExecute, OrderTypeOK, Statuses
  <2>2. CallTypeOK'
    BY <1>3 DEF BeginExecute, CallTypeOK, Steps
  <2>3. QED
    BY <1>3, <1>0, <2>1, <2>2 DEF BeginExecute
<1>4. ASSUME NEW c \in ClientIds, Prepare(c) PROVE TypeOK'
  <2>1. CASE MoveTo("create") /\ UNCHANGED <<status, seen>>
    <3>1. CallTypeOK'
      BY <1>4, <2>1, MoveToType DEF Prepare, Steps, CallTypeOK
    <3>2. QED
      BY <1>4, <1>0, <2>1, <3>1 DEF Prepare, OrderTypeOK
  <2>2. CASE Return(c, "REJECTED")
    <3>1. CallTypeOK' /\ status' \in [ClientIds -> Statuses]
      BY <2>2, ReturnType DEF Statuses
    <3>2. QED
      BY <1>4, <1>0, <3>1 DEF Prepare, OrderTypeOK
  <2>3. QED
    BY <1>4, <2>1, <2>2 DEF Prepare
<1>5. ASSUME NEW c \in ClientIds, CreateAccepted(c) PROVE TypeOK'
  <2>1. [state |-> "wait", executed |-> 0, trades |-> FALSE] \in Infos
    BY DEF Infos, Entries
  <2>2. CallTypeOK' /\ processed' \in SUBSET ClientIds
        /\ status' \in [ClientIds -> Statuses] /\ uuid' \in [ClientIds -> BOOLEAN]
    BY <1>5, <2>1, WatchType DEF CreateAccepted
  <2>3. OrderTypeOK'
    BY <1>5, <2>2 DEF CreateAccepted, OrderTypeOK
  <2>4. ExchangeTypeOK'
    BY <1>5 DEF CreateAccepted, ExchangeTypeOK, Entries
  <2>5. QED
    BY <2>2, <2>3, <2>4
<1>6. ASSUME NEW c \in ClientIds, CreateRefused(c) PROVE TypeOK'
  <2>1. CallTypeOK' /\ status' \in [ClientIds -> Statuses]
    BY <1>6, ReturnType DEF CreateRefused, Statuses
  <2>2. ExchangeTypeOK'
    BY <1>6 DEF CreateRefused, ExchangeTypeOK, Entries
  <2>3. QED
    BY <1>6, <2>1, <2>2 DEF CreateRefused, OrderTypeOK
<1>7. ASSUME NEW c \in ClientIds, CreateDuplicated(c) PROVE TypeOK'
  <2>1. CASE attempt[c] < MaxAttempts
    BY <1>7, <2>1, <1>0 DEF CreateDuplicated, OrderTypeOK, CallTypeOK
  <2>2. CASE ~(attempt[c] < MaxAttempts)
    <3>1. CallTypeOK' /\ status' \in [ClientIds -> Statuses]
      BY <1>7, <2>2, ReturnType DEF CreateDuplicated, Statuses
    <3>2. QED
      BY <1>7, <1>0, <2>2, <3>1 DEF CreateDuplicated, OrderTypeOK
  <2>3. QED
    BY <2>1, <2>2
<1>8. ASSUME NEW c \in ClientIds, CreateUnanswered(c) PROVE TypeOK'
  <2>1. CallTypeOK'
    BY <1>8, MoveToType DEF CreateUnanswered, Steps, CallTypeOK
  <2>2. ExchangeTypeOK'
    BY <1>8 DEF CreateUnanswered, ExchangeTypeOK, Entries
  <2>3. QED
    BY <1>8, <2>1, <2>2 DEF CreateUnanswered, OrderTypeOK
<1>9. ASSUME NEW c \in ClientIds, CreateGarbled(c) PROVE TypeOK'
  <2>1. CallTypeOK' /\ status' \in [ClientIds -> Statuses]
    BY <1>9, ReturnType DEF CreateGarbled, OrderTypeOK
  <2>2. ExchangeTypeOK'
    BY <1>9 DEF CreateGarbled, ExchangeTypeOK, Entries
  <2>3. QED
    BY <1>9, <2>1, <2>2 DEF CreateGarbled, OrderTypeOK
<1>10. ASSUME NEW c \in ClientIds, LookupFinds(c) PROVE TypeOK'
  <2>1. PICK info \in Reading(Identifier(c)) : Watch(c, info)
    BY <1>10 DEF LookupFinds
  <2>2. info \in Infos
    BY ReadingType, IdentifierType
  <2>3. CallTypeOK' /\ processed' \in SUBSET ClientIds
        /\ status' \in [ClientIds -> Statuses] /\ uuid' \in [ClientIds -> BOOLEAN]
    BY <1>10, <2>1, <2>2, WatchType DEF LookupFinds
  <2>4. QED
    BY <1>10, <1>0, <2>3 DEF LookupFinds, OrderTypeOK
<1>11. ASSUME NEW c \in ClientIds, NEW absent \in BOOLEAN, LookupEmpty(c, absent) PROVE TypeOK'
  <2>1. CASE tries + 1 < LookupAttempts
    BY <1>11, <2>1, <1>0 DEF LookupEmpty, OrderTypeOK, CallTypeOK
  <2>2. CASE ~(tries + 1 < LookupAttempts)
    <3>1. /\ Return(c, "REJECTED") \/ Return(c, "UNKNOWN")
          /\ processed' \in SUBSET ClientIds
      BY <1>11, <2>2 DEF LookupEmpty, OrderTypeOK
    <3>2. CallTypeOK' /\ status' \in [ClientIds -> Statuses]
      BY <3>1, ReturnType DEF Statuses
    <3>3. QED
      BY <1>11, <1>0, <3>1, <3>2 DEF LookupEmpty, OrderTypeOK
  <2>3. QED
    BY <2>1, <2>2
<1>12. ASSUME NEW c \in ClientIds, Poll(c) PROVE TypeOK'
  <2>1. PICK info \in Reading(Identifier(c)) :
          /\ seen' = info
          /\ IF IsFinal(info) THEN MoveTo("trades")
             ELSE tries' = tries + 1 /\ UNCHANGED <<cid, step, missing>>
    BY <1>12 DEF Poll
  <2>2. info \in Infos
    BY ReadingType, IdentifierType
  <2>3. CallTypeOK'
    <3>1. CASE IsFinal(info)
      BY <1>12, <2>1, <2>2, <3>1, MoveToType DEF Poll, Steps
    <3>2. CASE ~IsFinal(info)
      BY <2>1, <2>2, <3>2 DEF CallTypeOK
    <3>3. QED
      BY <3>1, <3>2
  <2>4. QED
    BY <1>12, <1>0, <2>3 DEF Poll, OrderTypeOK
<1>13. ASSUME NEW c \in ClientIds, CancelUnfilled(c) PROVE TypeOK'
  <2>1. CallTypeOK'
    BY <1>13, MoveToType DEF CancelUnfilled, Steps, CallTypeOK
  <2>2. ExchangeTypeOK'
    BY <1>13, CancelType, IdentifierType DEF CancelUnfilled
  <2>3. QED
    BY <1>13, <2>1, <2>2 DEF CancelUnfilled, OrderTypeOK
<1>14. ASSUME NEW c \in ClientIds, ReadAfterCancel(c) PROVE TypeOK'
  <2>1. seen' \in Infos
    BY <1>14, ReadingType, IdentifierType DEF ReadAfterCancel
  <2>2. CallTypeOK'
    BY <1>14, <2>1, MoveToType DEF ReadAfterCancel, Steps
  <2>3. QED
    BY <1>14, <1>0, <2>2 DEF ReadAfterCancel, OrderTypeOK
<1>15. ASSUME NEW c \in ClientIds, WatchFails(c) PROVE TypeOK'
  <2>1. CallTypeOK' /\ status' \in [ClientIds -> Statuses]
    BY <1>15, ReturnType DEF WatchFails, Statuses
  <2>2. ExchangeTypeOK'
    BY <1>15, <1>0, CancelType, IdentifierType DEF WatchFails
  <2>3. QED
    BY <1>15, <2>1, <2>2 DEF WatchFails, OrderTypeOK
<1>16. ASSUME NEW c \in ClientIds, RefreshTrades(c) PROVE TypeOK'
  <2>1. seen' \in Infos
    BY <1>16, ReadingType, IdentifierType DEF RefreshTrades, CallTypeOK
  <2>2. CallTypeOK'
    BY <1>16, <2>1 DEF RefreshTrades, CallTypeOK
  <2>3. QED
    BY <1>16, <1>0, <2>2 DEF RefreshTrades, OrderTypeOK
<1>17. ASSUME NEW c \in ClientIds, ApplyStep(c) PROVE TypeOK'
  <2>1. PICK r \in Statuses : Return(c, r)
    BY <1>17 DEF ApplyStep, ApplyNothing, ApplyUnpriced, ApplyFill, ApplyImpossible, Statuses
  <2>2. CallTypeOK' /\ status' \in [ClientIds -> Statuses]
    BY <2>1, ReturnType
  <2>3. /\ UNCHANGED <<exch, executed, processed, attempt, uuid, submits>>
        /\ \/ UNCHANGED <<booked, bookings>>
           \/ /\ booked' = [booked EXCEPT ![c] = @ + seen.executed]
              /\ bookings' = [bookings EXCEPT ![c] = @ + 1]
        /\ early' \subseteq early \cup {c} /\ givenUp' = givenUp
    BY <1>17 DEF Settling, ApplyStep, ApplyNothing, ApplyUnpriced, ApplyFill, ApplyImpossible
  <2>4. seen.executed \in Nat
    BY DEF CallTypeOK, Infos
  <2>5. QED
    BY <1>0, <2>2, <2>3, <2>4 DEF OrderTypeOK
<1>18. ASSUME NEW c \in ClientIds, BeginResolve(c) PROVE TypeOK'
  BY <1>18, <1>0 DEF BeginResolve, OrderTypeOK, CallTypeOK, Steps
<1>19. ASSUME NEW c \in ClientIds, ResolveFails(c) \/ ResolveMissing(c) PROVE TypeOK'
  <2>1. CallTypeOK' /\ status' \in [ClientIds -> Statuses]
    BY <1>19, ReturnType DEF ResolveFails, ResolveMissing, Statuses
  <2>2. QED
    BY <1>19, <1>0, <2>1 DEF ResolveFails, ResolveMissing, OrderTypeOK
<1>20. ASSUME NEW c \in ClientIds, ResolveOpen(c) PROVE TypeOK'
  <2>1. CallTypeOK' /\ status' \in [ClientIds -> Statuses]
    BY <1>20, ReturnType DEF ResolveOpen, Statuses
  <2>2. ExchangeTypeOK'
    BY <1>20, <1>0, CancelType, IdentifierType DEF ResolveOpen
  <2>3. QED
    BY <1>20, <2>1, <2>2 DEF ResolveOpen, OrderTypeOK
<1>21. ASSUME NEW c \in ClientIds, ResolveFinal(c) PROVE TypeOK'
  <2>1. seen' \in Infos
    BY <1>21, ReadingType, IdentifierType DEF ResolveFinal
  <2>2. CallTypeOK'
    BY <1>21, <2>1, MoveToType DEF ResolveFinal, Steps
  <2>3. QED
    BY <1>21, <1>0, <2>2 DEF ResolveFinal, OrderTypeOK
<1>22. ASSUME NEW id \in Ids, ExchangeStep(id) PROVE TypeOK'
  <2>1. ExchangeTypeOK'
    BY <1>22 DEF ExchangeStep, Arrive, Match, StopShort, ExchangeTypeOK, Entries
  <2>2. UNCHANGED <<orderVars, callVars>>
    BY <1>22 DEF ExchangeStep, Arrive, Match, StopShort
  <2>3. QED
    BY <2>1, <2>2 DEF OrderTypeOK, CallTypeOK
<1>24. ASSUME NEW c \in ClientIds, GiveUp(c) PROVE TypeOK'
  BY <1>24, <1>0 DEF GiveUp, OrderTypeOK, CallTypeOK
<1>23. QED
  BY <1>24, <1>1, <1>2, <1>3, <1>4, <1>5, <1>6, <1>7, <1>8, <1>9, <1>10, <1>11, <1>12,
     <1>13, <1>14, <1>15, <1>16, <1>17, <1>18, <1>19, <1>20, <1>21, <1>22
     DEF Next, CallStep, CreateStep, LookupStep, LookupMissing, LookupFails, WatchStep,
         ResolveStep

\* Every variable keeps its type, and the lock is held exactly by the call
\* under way.
THEOREM Typing == Spec => []TypeOK
<1>1. Init => TypeOK
  BY ConstantsAssumption
     DEF Init, TypeOK, ExchangeTypeOK, OrderTypeOK, CallTypeOK, Ids, Entries, Statuses,
         Steps, NoInfo, Infos
<1>2. QED
  BY <1>1, TypeStep, PTL DEF Spec

(***************************************************************************)
(* A fill is booked once.  What the call that holds the lock may still do  *)
(* is told by the status of its Order, and whether a client_id may be      *)
(* executed again by processed.                                            *)
(***************************************************************************)

Deciding == {"prepare", "create", "confirm"}
Watching == {"poll", "final", "trades", "query"}

BookInv ==
  \A c \in ClientIds :
    /\ bookings[c] = IF status[c] \in {"FILLED", "PARTIAL"} THEN 1 ELSE 0
    /\ status[c] \in {"SUBMITTED", "FILLED", "PARTIAL", "CANCELLED", "UNKNOWN"} => c \in processed
    /\ cid = c /\ step \in Deciding => status[c] = "NEW" /\ c \notin processed
    /\ cid = c /\ step \in Watching => status[c] \in {"SUBMITTED", "UNKNOWN"}
    /\ c \in processed /\ ~(cid = c /\ step \in Watching) => status[c] \in Settled \cup {"UNKNOWN"}

\* Nothing is booked at first.
LEMMA BookInit == Init => BookInv
BY DEF Init, BookInv, Deciding, Watching

\* Every step keeps BookInv: only ApplyFill books, and it leaves the request
\* settled.
LEMMA BookStep == TypeOK /\ BookInv /\ [Next]_vars => BookInv'
<1> SUFFICES ASSUME TypeOK, BookInv, [Next]_vars PROVE BookInv'
  OBVIOUS
<1> USE ConstantsAssumption
<1> USE DEF exchangeVars, orderVars, fateVars, callVars, TypeOK, OrderTypeOK, CallTypeOK,
            Deciding, Watching
<1>1. CASE UNCHANGED vars
  BY <1>1 DEF vars, BookInv
<1>2. ASSUME NEW c \in ClientIds, RejectDuplicate(c) PROVE BookInv'
  BY <1>2 DEF RejectDuplicate, BookInv
<1>3. ASSUME NEW c \in ClientIds, BeginExecute(c) PROVE BookInv'
  BY <1>3 DEF BeginExecute, BookInv
<1>4. ASSUME NEW c \in ClientIds, Prepare(c) PROVE BookInv'
  BY <1>4 DEF Prepare, Return, MoveTo, BookInv
<1>5. ASSUME NEW c \in ClientIds, CreateStep(c) PROVE BookInv'
  <2>1. CASE CreateAccepted(c)
    BY <2>1 DEF CreateAccepted, Watch, MoveTo, IsFinal, BookInv
  <2>2. CASE CreateRefused(c)
    BY <2>2 DEF CreateRefused, Return, BookInv
  <2>3. CASE CreateDuplicated(c)
    BY <2>3 DEF CreateDuplicated, Return, BookInv
  <2>4. CASE CreateUnanswered(c)
    BY <2>4 DEF CreateUnanswered, MoveTo, BookInv
  <2>5. CASE CreateGarbled(c)
    BY <2>5 DEF CreateGarbled, Return, BookInv
  <2>6. QED
    BY <1>5, <2>1, <2>2, <2>3, <2>4, <2>5 DEF CreateStep
<1>6. ASSUME NEW c \in ClientIds, LookupStep(c) PROVE BookInv'
  <2>1. CASE LookupFinds(c)
    <3>1. PICK info \in Reading(Identifier(c)) : Watch(c, info)
      BY <2>1 DEF LookupFinds
    <3>2. QED
      BY <2>1, <3>1 DEF LookupFinds, Watch, MoveTo, BookInv
  <2>2. ASSUME NEW absent \in BOOLEAN, LookupEmpty(c, absent) PROVE BookInv'
    BY <2>2 DEF LookupEmpty, Return, Settled, BookInv
  <2>3. QED
    BY <1>6, <2>1, <2>2 DEF LookupStep, LookupMissing, LookupFails
<1>7. ASSUME NEW c \in ClientIds, WatchStep(c) PROVE BookInv'
  <2>1. CASE Poll(c)
    BY <2>1 DEF Poll, MoveTo, BookInv
  <2>2. CASE CancelUnfilled(c)
    BY <2>2 DEF CancelUnfilled, MoveTo, BookInv
  <2>3. CASE ReadAfterCancel(c)
    BY <2>3 DEF ReadAfterCancel, MoveTo, BookInv
  <2>4. CASE WatchFails(c)
    BY <2>4 DEF WatchFails, Return, Settled, BookInv
  <2>5. CASE RefreshTrades(c)
    BY <2>5 DEF RefreshTrades, BookInv
  <2>6. QED
    BY <1>7, <2>1, <2>2, <2>3, <2>4, <2>5 DEF WatchStep
<1>8. ASSUME NEW c \in ClientIds, ApplyStep(c) PROVE BookInv'
  <2>1. CASE ApplyNothing(c)
    BY <2>1 DEF ApplyNothing, ReadyToApply, Return, Settled, BookInv
  <2>2. CASE ApplyUnpriced(c)
    BY <2>2 DEF ApplyUnpriced, ReadyToApply, Return, Settled, BookInv
  <2>3. CASE ApplyFill(c)
    BY <2>3 DEF ApplyFill, ReadyToApply, Return, Settled, BookInv
  <2>4. CASE ApplyImpossible(c)
    BY <2>4 DEF ApplyImpossible, ReadyToApply, Return, Settled, BookInv
  <2>5. QED
    BY <1>8, <2>1, <2>2, <2>3, <2>4 DEF ApplyStep
<1>9. ASSUME NEW c \in ClientIds, BeginResolve(c) PROVE BookInv'
  BY <1>9 DEF BeginResolve, BookInv
<1>10. ASSUME NEW c \in ClientIds, ResolveStep(c) PROVE BookInv'
  <2>1. CASE ResolveFails(c)
    BY <2>1 DEF ResolveFails, Return, Settled, BookInv
  <2>2. CASE ResolveMissing(c)
    BY <2>2 DEF ResolveMissing, Return, Settled, BookInv
  <2>3. CASE ResolveOpen(c)
    BY <2>3 DEF ResolveOpen, Return, Settled, BookInv
  <2>4. CASE ResolveFinal(c)
    BY <2>4 DEF ResolveFinal, MoveTo, BookInv
  <2>5. QED
    BY <1>10, <2>1, <2>2, <2>3, <2>4 DEF ResolveStep
<1>11. ASSUME NEW id \in Ids, ExchangeStep(id) PROVE BookInv'
  BY <1>11 DEF ExchangeStep, Arrive, Match, StopShort, BookInv
<1>12. ASSUME NEW c \in ClientIds, GiveUp(c) PROVE BookInv'
  BY <1>12 DEF GiveUp, BookInv
<1>13. QED
  BY <1>1, <1>2, <1>3, <1>4, <1>5, <1>6, <1>7, <1>8, <1>9, <1>10, <1>11, <1>12 DEF Next, CallStep

\* A request is booked at most once, and not before it is settled: between
\* execute and resolve_order no path of a call leads back to _apply_fill.
THEOREM BookingInvariance == Spec => []BookInv
<1>1. QED
  BY Typing, BookInit, BookStep, PTL DEF Spec

\* Whatever the environment does (every kind of Faults), execute and any
\* number of resolves book the fill of a client_id at most once.
THEOREM FillsBookedOnce == Spec => []BookedOnce
<1>1. BookInv => BookedOnce
  BY DEF BookInv, BookedOnce
<1>2. QED
  BY BookingInvariance, <1>1, PTL

(***************************************************************************)
(* One order per client_id, as long as an unanswered create request is     *)
(* decided by the time it is looked up, a 5xx answer means refused and an  *)
(* answer can be read.                                                     *)
(***************************************************************************)

CreateIsDecided == Faults \cap {"late_request", "server_error", "garbled"} = {}

\* PlacedIsGuarded and OrderKeepsItsHandle are inductive together with: a
\* lookup never counted an order as missing that the exchange has.
GuardInv ==
  /\ \A id \in Ids : exch[id] # "transit"
  /\ PlacedIsGuarded
  /\ OrderKeepsItsHandle
  /\ \A c \in ClientIds :
       cid = c /\ step = "confirm" /\ exch[Identifier(c)] \in InBook => missing = 0

\* With no order in transit an order is placed exactly if a lookup finds it.
LEMMA PlacedIsInBook ==
  ASSUME GuardInv, NEW id \in Ids
  PROVE  Placed(id) <=> exch[id] \in InBook
BY DEF GuardInv, Placed, InBook

\* Before the create request of a call nothing is placed for its client_id.
LEMMA NothingPlacedYet ==
  ASSUME GuardInv, BookInv, NEW c \in ClientIds, c \notin processed,
         ~(cid = c /\ step = "confirm")
  PROVE  \A a \in 1..MaxAttempts : ~Placed(<<c, a>>)
BY DEF GuardInv, PlacedIsGuarded

\* No order exists at first.
LEMMA GuardInit == Init => GuardInv
BY DEF Init, GuardInv, PlacedIsGuarded, OrderKeepsItsHandle, Placed, InBook, Ids

\* Every step keeps GuardInv, under the assumption that the answer to a create
\* request decides it.
LEMMA GuardStep ==
  ASSUME CreateIsDecided, TypeOK, BookInv, GuardInv, [Next]_vars
  PROVE  GuardInv'
<1> USE ConstantsAssumption
<1> USE DEF exchangeVars, orderVars, fateVars, callVars, TypeOK, OrderTypeOK, CallTypeOK, ExchangeTypeOK
<1>0. ASSUME UNCHANGED <<exch, attempt>>, processed \subseteq processed',
             \A c \in ClientIds : cid = c /\ step = "confirm" =>
               \/ cid' = c /\ step' = "confirm"
               \/ c \in processed'
               \/ exch[Identifier(c)] \notin InBook,
             \A c \in ClientIds : cid' = c /\ step' = "confirm" =>
               cid = c /\ step = "confirm"
               /\ (missing' = missing \/ exch[Identifier(c)] \notin InBook)
      PROVE  GuardInv'
  <2>1. \A c \in ClientIds : Identifier(c)' = Identifier(c) /\ Identifier(c) \in Ids
    BY <1>0, IdentifierType DEF Identifier
  <2>2. \A id \in Ids : Placed(id)' = Placed(id)
    BY <1>0 DEF Placed
  <2>3. OrderKeepsItsHandle'
    BY <1>0, <2>2 DEF GuardInv, OrderKeepsItsHandle, Ids
  <2>4. PlacedIsGuarded'
    <3>1. SUFFICES ASSUME NEW c \in ClientIds, NEW a \in 1..MaxAttempts, Placed(<<c, a>>)
                   PROVE  c \in processed' \/ (cid' = c /\ step' = "confirm")
      BY <2>2 DEF PlacedIsGuarded, Ids
    <3>a. <<c, a>> \in Ids
      BY <3>1 DEF Ids
    <3>b. a = attempt[c]
      BY <3>1 DEF GuardInv, OrderKeepsItsHandle
    <3>c. Identifier(c) = <<c, a>>
      BY <3>b DEF Identifier
    <3>d. exch[<<c, a>>] \in InBook
      BY <3>1, <3>a, PlacedIsInBook
    <3>2. exch[Identifier(c)] \in InBook
      BY <3>c, <3>d
    <3>3. c \in processed \/ (cid = c /\ step = "confirm")
      BY <3>1 DEF GuardInv, PlacedIsGuarded
    <3>4. QED
      BY <1>0, <3>2, <3>3
  <2>5. QED
    BY <1>0, <2>1, <2>3, <2>4 DEF GuardInv
<1>1. CASE UNCHANGED vars
  BY <1>1, <1>0 DEF vars
<1>2. ASSUME NEW c \in ClientIds, RejectDuplicate(c) PROVE GuardInv'
  BY <1>2, <1>0 DEF RejectDuplicate
<1>3. ASSUME NEW c \in ClientIds, GiveUp(c) PROVE GuardInv'
  BY <1>3, <1>0 DEF GiveUp
<1>4. ASSUME NEW c \in ClientIds, Prepare(c) PROVE GuardInv'
  BY <1>4, <1>0 DEF Prepare, Return, MoveTo
<1>7. ASSUME NEW c \in ClientIds, ApplyStep(c) PROVE GuardInv'
  BY <1>7, <1>0
     DEF ApplyStep, ApplyNothing, ApplyUnpriced, ApplyFill, ApplyImpossible, ReadyToApply, Return
<1>8. ASSUME NEW c \in ClientIds, BeginResolve(c) PROVE GuardInv'
  BY <1>8, <1>0 DEF BeginResolve
<1>9. ASSUME NEW c \in ClientIds,
             ResolveFails(c) \/ ResolveMissing(c) \/ ResolveFinal(c) PROVE GuardInv'
  BY <1>9, <1>0 DEF ResolveFails, ResolveMissing, ResolveFinal, Return, MoveTo
<1>10. ASSUME NEW c \in ClientIds,
              Poll(c) \/ ReadAfterCancel(c) \/ RefreshTrades(c) PROVE GuardInv'
  BY <1>10, <1>0 DEF Poll, ReadAfterCancel, RefreshTrades, MoveTo
<1>11. ASSUME NEW c \in ClientIds, LookupFinds(c) PROVE GuardInv'
  <2>1. PICK info \in Reading(Identifier(c)) : Watch(c, info)
    BY <1>11 DEF LookupFinds
  <2>2. QED
    BY <1>11, <2>1, <1>0 DEF LookupFinds, Watch, MoveTo
<1>12. ASSUME NEW c \in ClientIds, LookupMissing(c) PROVE GuardInv'
  BY <1>12, <1>0 DEF LookupMissing, LookupEmpty, Return
<1>13. ASSUME NEW c \in ClientIds, LookupFails(c) PROVE GuardInv'
  <2>1. exch[Identifier(c)] \in InBook => missing = 0
    BY <1>13 DEF GuardInv, LookupFails, LookupEmpty
  <2>2. QED
    BY <1>13, <2>1, <1>0 DEF LookupFails, LookupEmpty, Return
\* An order changes its state on the exchange; it was placed before and still is.
<1>20. ASSUME NEW id \in Ids, NEW e \in InBook, exch[id] \in InBook,
              exch' = [exch EXCEPT ![id] = e] \/ exch' = exch,
              UNCHANGED <<attempt, processed>>, step # "confirm" \/ UNCHANGED <<cid, step, missing>>,
              step' = "confirm" => step = "confirm"
       PROVE  GuardInv'
  <2>1. \A x \in Ids : Placed(x)' = Placed(x) /\ (exch'[x] \in InBook <=> exch[x] \in InBook)
    BY <1>20 DEF Placed, InBook
  <2>2. \A x \in Ids : exch'[x] # "transit"
    BY <1>20 DEF GuardInv, InBook
  <2>3. OrderKeepsItsHandle' /\ PlacedIsGuarded'
    BY <1>20, <2>1 DEF GuardInv, OrderKeepsItsHandle, PlacedIsGuarded, Ids
  <2>4. \A x \in ClientIds : Identifier(x)' = Identifier(x) /\ Identifier(x) \in Ids
    BY <1>20, IdentifierType DEF Identifier
  <2>5. QED
    BY <1>20, <2>1, <2>2, <2>3, <2>4 DEF GuardInv
<1>21. ASSUME NEW c \in ClientIds, CancelUnfilled(c) \/ WatchFails(c) \/ ResolveOpen(c)
       PROVE  GuardInv'
  <2>1. CASE exch' = exch
    BY <1>21, <2>1, <1>0 DEF CancelUnfilled, WatchFails, ResolveOpen, MoveTo, Return
  <2>2. CASE exch' # exch
    <3>1. TryCancel(Identifier(c)) /\ Identifier(c) \in Ids
      BY <1>21, <2>2, IdentifierType DEF CancelUnfilled, WatchFails, ResolveOpen
    <3>2. exch[Identifier(c)] = "wait"
      BY <2>2, <3>1 DEF TryCancel
    <3>3. PICK e \in InBook : exch' = [exch EXCEPT ![Identifier(c)] = e]
      BY <3>1, <3>2 DEF TryCancel, InBook
    <3>4. UNCHANGED <<attempt, processed>> /\ step # "confirm" /\ step' # "confirm"
      BY <1>21 DEF CancelUnfilled, WatchFails, ResolveOpen, MoveTo, Return
    <3>5. QED
      BY <3>1, <3>2, <3>3, <3>4, <1>20 DEF InBook
  <2>3. QED
    BY <2>1, <2>2
<1>22. ASSUME NEW id \in Ids, ExchangeStep(id) PROVE GuardInv'
  <2>1. exch[id] = "wait"
    BY <1>22 DEF ExchangeStep, Arrive, Match, StopShort, GuardInv
  <2>2. PICK e \in InBook : exch' = [exch EXCEPT ![id] = e]
    BY <1>22, <2>1 DEF ExchangeStep, Arrive, Match, StopShort, InBook
  <2>3. UNCHANGED <<attempt, processed, cid, step, missing>>
    BY <1>22 DEF ExchangeStep, Arrive, Match, StopShort
  <2>4. QED
    BY <2>1, <2>2, <2>3, <1>20 DEF InBook
\* From here on nothing is placed for c before the step.
<1>30. ASSUME NEW c \in ClientIds, BeginExecute(c) PROVE GuardInv'
  <2>1. \A a \in 1..MaxAttempts : ~Placed(<<c, a>>)
    BY <1>30, NothingPlacedYet DEF BeginExecute
  <2>2. exch' = exch /\ processed' = processed /\ attempt' = [attempt EXCEPT ![c] = 1]
        /\ cid' = c /\ step' = "prepare" /\ step = "idle"
    BY <1>30 DEF BeginExecute
  <2>3. QED
    BY <2>1, <2>2 DEF GuardInv, PlacedIsGuarded, OrderKeepsItsHandle, Placed
<1>31. ASSUME NEW c \in ClientIds, CreateStep(c)
       PROVE  /\ \A a \in 1..MaxAttempts : ~Placed(<<c, a>>)
              /\ c \notin processed /\ cid = c /\ step = "create" /\ Identifier(c) \in Ids
  <2>1. c \notin processed /\ cid = c /\ step = "create"
    BY <1>31 DEF CreateStep, CreateAccepted, CreateRefused, CreateDuplicated,
                 CreateUnanswered, CreateGarbled, BookInv, Deciding
  <2>2. QED
    BY <2>1, NothingPlacedYet, IdentifierType
\* One entry of c changes, to one that is not in transit.
<1>32. ASSUME NEW c \in ClientIds, CreateStep(c), NEW e \in {"none", "refused", "wait"},
              exch' = [exch EXCEPT ![Identifier(c)] = e], attempt' = attempt,
              processed \subseteq processed',
              e = "wait" => c \in processed' \/ (cid' = c /\ step' = "confirm"),
              step' = "confirm" => missing' = 0
       PROVE  GuardInv'
  <2>1. \A a \in 1..MaxAttempts : a # attempt[c] => exch'[<<c, a>>] = exch[<<c, a>>]
    BY <1>32 DEF Identifier, Ids
  <2>2. \A d \in ClientIds \ {c}, a \in 1..MaxAttempts : exch'[<<d, a>>] = exch[<<d, a>>]
    BY <1>32 DEF Identifier, Ids
  <2>3. exch'[Identifier(c)] = e
    BY <1>31, <1>32
  <2>4. \A id \in Ids : exch'[id] # "transit"
    BY <1>32 DEF GuardInv
  <2>5. OrderKeepsItsHandle'
    BY <1>31, <1>32, <2>1, <2>2 DEF GuardInv, OrderKeepsItsHandle, Placed
  <2>6. PlacedIsGuarded'
    <3>1. ASSUME NEW d \in ClientIds, d # c, NEW a \in 1..MaxAttempts, Placed(<<d, a>>)'
          PROVE  d \in processed'
      BY <1>31, <1>32, <2>2, <3>1 DEF GuardInv, PlacedIsGuarded, Placed
    <3>2. ASSUME NEW a \in 1..MaxAttempts, Placed(<<c, a>>)'
          PROVE  c \in processed' \/ (cid' = c /\ step' = "confirm")
      <4>1. a = attempt[c]
        BY <1>31, <1>32, <2>1, <3>2 DEF Placed
      <4>2. e = "wait"
        BY <2>3, <3>2, <4>1 DEF Placed, Identifier
      <4>3. QED
        BY <1>32, <4>2
    <3>3. QED
      BY <3>1, <3>2 DEF PlacedIsGuarded
  <2>7. QED
    BY <1>32, <2>4, <2>5, <2>6 DEF GuardInv
<1>33. ASSUME NEW c \in ClientIds, CreateAccepted(c) PROVE GuardInv'
  <2>1. CreateStep(c)
    BY <1>33 DEF CreateStep
  <2>2. exch' = [exch EXCEPT ![Identifier(c)] = "wait"] /\ attempt' = attempt
        /\ processed' = processed \cup {c} /\ step' # "confirm"
    BY <1>33 DEF CreateAccepted, Watch, MoveTo
  <2>3. QED
    BY <2>1, <2>2, <1>32
<1>34. ASSUME NEW c \in ClientIds, CreateRefused(c) PROVE GuardInv'
  <2>1. CreateStep(c)
    BY <1>34 DEF CreateStep
  <2>2. PICK e \in {"none", "refused"} : exch' = [exch EXCEPT ![Identifier(c)] = e]
    BY <1>34 DEF CreateRefused, CreateIsDecided
  <2>3. attempt' = attempt /\ processed' = processed /\ step' # "confirm"
    BY <1>34 DEF CreateRefused, Return
  <2>4. QED
    BY <2>1, <2>2, <2>3, <1>32
<1>35. ASSUME NEW c \in ClientIds, CreateUnanswered(c) PROVE GuardInv'
  <2>1. CreateStep(c)
    BY <1>35 DEF CreateStep
  <2>2. attempt' = attempt /\ processed' = processed /\ cid' = c /\ step' = "confirm"
        /\ missing' = 0
    BY <1>35 DEF CreateUnanswered, MoveTo
  <2>3. CASE exch[Identifier(c)] = "none"
    <3>1. PICK e \in {"none", "refused", "wait"} : exch' = [exch EXCEPT ![Identifier(c)] = e]
      BY <1>35, <2>3 DEF CreateUnanswered, CreateIsDecided
    <3>2. QED
      BY <2>1, <2>2, <3>1, <1>32
  <2>4. CASE exch[Identifier(c)] # "none"
    <3>1. exch' = exch
      BY <1>35, <2>4 DEF CreateUnanswered
    <3>2. step = "create" /\ cid = c
      BY <1>35 DEF CreateUnanswered
    <3>3. \A d \in ClientIds : Identifier(d)' = Identifier(d)
      BY <2>2 DEF Identifier
    <3>4. QED
      BY <2>2, <3>1, <3>2, <3>3
         DEF GuardInv, PlacedIsGuarded, OrderKeepsItsHandle, Placed
  <2>5. QED
    BY <2>3, <2>4
<1>36. ASSUME NEW c \in ClientIds, CreateDuplicated(c) PROVE GuardInv'
  <2>1. CreateStep(c)
    BY <1>36 DEF CreateStep
  <2>2. /\ exch' = exch /\ processed' = processed /\ step' # "confirm"
        /\ \A d \in ClientIds \ {c} : attempt'[d] = attempt[d]
    BY <1>36 DEF CreateDuplicated, Return
  <2>3. \A d \in ClientIds, a \in 1..MaxAttempts : Placed(<<d, a>>) => d # c
    BY <2>1, <1>31
  <2>4. OrderKeepsItsHandle' /\ PlacedIsGuarded'
    BY <2>1, <2>2, <2>3, <1>31 DEF GuardInv, PlacedIsGuarded, OrderKeepsItsHandle, Placed
  <2>5. QED
    BY <2>2, <2>4 DEF GuardInv
<1>37. ASSUME NEW c \in ClientIds, CreateGarbled(c) PROVE GuardInv'
  BY <1>37 DEF CreateGarbled, CreateIsDecided
<1>40. QED
  BY <1>1, <1>2, <1>3, <1>4, <1>7, <1>8, <1>9, <1>10, <1>11, <1>12, <1>13, <1>21, <1>22, <1>30,
     <1>33, <1>34, <1>35, <1>36, <1>37
     DEF Next, CallStep, CreateStep, LookupStep, WatchStep, ResolveStep

\* Where the orders of a request are, and what the process still knows of them:
\* the invariant the four theorems below follow from.
THEOREM GuardInvariance == ASSUME CreateIsDecided PROVE Spec => []GuardInv
<1>1. TypeOK /\ BookInv /\ GuardInv /\ [Next]_vars => GuardInv'
  BY GuardStep
<1>2. QED
  BY Typing, BookingInvariance, GuardInit, <1>1, PTL DEF Spec

\* Retries under a new suffix and repeated calls of execute never place a
\* second order for a client_id.
THEOREM OneOrderPerClientId == ASSUME CreateIsDecided PROVE Spec => []AtMostOneOrder
<1>1. TypeOK /\ GuardInv => AtMostOneOrder
  BY DEF GuardInv, OrderKeepsItsHandle, AtMostOneOrder
<1>2. QED
  BY Typing, GuardInvariance, <1>1, PTL

\* No client_id with an order on the exchange can be executed again.
THEOREM PlacedOrderGuarded == ASSUME CreateIsDecided PROVE Spec => []PlacedIsGuarded
<1>1. GuardInv => PlacedIsGuarded
  BY DEF GuardInv
<1>2. QED
  BY GuardInvariance, <1>1, PTL

\* The Order of a placed order always carries the identifier it was placed under.
THEOREM OrderFindable == ASSUME CreateIsDecided PROVE Spec => []OrderKeepsItsHandle
<1>1. GuardInv => OrderKeepsItsHandle
  BY DEF GuardInv
<1>2. QED
  BY GuardInvariance, <1>1, PTL

\* An order on the exchange is under way, UNKNOWN or settled.
THEOREM PlacedOrderOnRecord == ASSUME CreateIsDecided PROVE Spec => []PlacedIsOnRecord
<1>1. TypeOK /\ BookInv /\ GuardInv => PlacedIsOnRecord
  BY DEF GuardInv, BookInv, PlacedIsGuarded, PlacedIsOnRecord, Watching, Settled, TypeOK, CallTypeOK
<1>2. QED
  BY Typing, BookingInvariance, GuardInvariance, <1>1, PTL

(***************************************************************************)
(* A settled order is told as it was read: without faults of the           *)
(* environment, and unless the last reading showed it open, the exchange   *)
(* is done with it and what it executed has been booked.  Until then       *)
(* nothing is booked, a call that judges an order has read it, and a       *)
(* resolve judges it only after reading it final.                          *)
(***************************************************************************)

NoFaults == Faults = {}

Truth(c) ==
  /\ status[c] \in Settled =>
       /\ booked[c] <= executed[Identifier(c)]
       /\ c \notin early => ExchangeIsDone(c) /\ booked[c] = executed[Identifier(c)]
  /\ c \in early => status[c] \in {"REJECTED", "FILLED"} /\ c \in processed
  /\ status[c] \notin {"FILLED", "PARTIAL"} => booked[c] = 0
  /\ cid = c /\ step \in {"poll", "final", "trades"} => exch[Identifier(c)] \in InBook
  /\ cid = c /\ step \in {"poll", "final"} => status[c] = "SUBMITTED"
  /\ cid = c /\ step = "trades" =>
       /\ seen.state \in InBook /\ seen.executed <= executed[Identifier(c)]
       /\ IsFinal(seen) => /\ exch[Identifier(c)] # "wait"
                           /\ seen.executed = executed[Identifier(c)]
       /\ status[c] = "UNKNOWN" => IsFinal(seen)

TruthInv ==
  /\ \A id \in Ids : exch[id] \notin InBook => executed[id] = 0
  /\ \A c \in ClientIds : Truth(c)

\* Without faults the invariants above hold.
LEMMA NoFaultDecides == NoFaults => CreateIsDecided
BY DEF NoFaults, CreateIsDecided

\* Nothing is settled yet.
LEMMA TruthInit == Init => TruthInv
BY ConstantsAssumption DEF Init, TruthInv, Truth, Settled

\* A step that concerns the orders of c only.
LEMMA TruthFrame ==
  ASSUME TypeOK, TruthInv, NEW c \in ClientIds, Truth(c)',
         \A a \in 1..MaxAttempts : exch'[<<c, a>>] \notin InBook => executed'[<<c, a>>] = 0,
         \A d \in ClientIds \ {c}, a \in 1..MaxAttempts :
            exch'[<<d, a>>] = exch[<<d, a>>] /\ executed'[<<d, a>>] = executed[<<d, a>>],
         \A d \in ClientIds \ {c} : /\ status'[d] = status[d] /\ booked'[d] = booked[d]
                                    /\ attempt'[d] = attempt[d]
                                    /\ (d \in early') = (d \in early)
                                    /\ d \in processed => d \in processed'
                                    /\ cid' = d => cid = d /\ step' = step /\ seen' = seen
  PROVE  TruthInv'
<1>1. ASSUME NEW id \in Ids, exch'[id] \notin InBook PROVE executed'[id] = 0
  <2>1. PICK d \in ClientIds, a \in 1..MaxAttempts : id = <<d, a>>
    BY DEF Ids
  <2>2. CASE d = c
    BY <1>1, <2>1, <2>2
  <2>3. CASE d # c
    <3>1. exch'[id] = exch[id] /\ executed'[id] = executed[id]
      BY <2>1, <2>3
    <3> QED
      BY <1>1, <3>1 DEF TruthInv
  <2> QED
    BY <2>2, <2>3
<1>2. ASSUME NEW d \in ClientIds \ {c} PROVE Truth(d)'
  <2>1. attempt[d] \in 1..MaxAttempts
    BY DEF TypeOK, OrderTypeOK
  <2>2. /\ Identifier(d)' = Identifier(d)
        /\ exch'[Identifier(d)] = exch[Identifier(d)]
        /\ executed'[Identifier(d)] = executed[Identifier(d)]
        /\ ExchangeIsDone(d)' = ExchangeIsDone(d)
    BY <2>1 DEF Identifier, ExchangeIsDone
  <2>3. Truth(d)
    BY DEF TruthInv
  <2> QED
    BY <2>2, <2>3 DEF Truth, IsFinal
<1> QED
  BY <1>1, <1>2 DEF TruthInv

\* An order that was never made: nothing is executed, nothing booked.
LEMMA NeverMade ==
  ASSUME TypeOK, TruthInv, NEW c \in ClientIds, status[c] \notin {"FILLED", "PARTIAL"},
         \A a \in 1..MaxAttempts : ~Placed(<<c, a>>)
  PROVE  /\ booked[c] = 0 /\ \A a \in 1..MaxAttempts : executed[<<c, a>>] = 0
         /\ ExchangeIsDone(c)
<1>1. \A a \in 1..MaxAttempts : <<c, a>> \in Ids /\ exch[<<c, a>>] \notin InBook
  BY DEF Ids, Placed, InBook
<1> QED
  BY <1>1 DEF TruthInv, Truth, Placed, ExchangeIsDone

\* A call that ends with an order that was never made, or leaves it open.
LEMMA TruthAtReturn ==
  ASSUME TypeOK, TruthInv, NEW c \in ClientIds, cid = c \/ cid = NoClient,
         NEW r \in {"REJECTED", "UNKNOWN"}, Return(c, r),
         status[c] \notin {"FILLED", "PARTIAL"}, c \notin early,
         early' = early, processed \subseteq processed',
         r = "REJECTED" => \A a \in 1..MaxAttempts : ~Placed(<<c, a>>)',
         UNCHANGED <<executed, attempt, booked>>,
         \A d \in ClientIds \ {c}, a \in 1..MaxAttempts : exch'[<<d, a>>] = exch[<<d, a>>],
         \A a \in 1..MaxAttempts : exch'[<<c, a>>] \notin InBook => executed[<<c, a>>] = 0
  PROVE  TruthInv'
<1> USE ConstantsAssumption
<1>1. status'[c] = r /\ cid' = NoClient /\ \A d \in ClientIds \ {c} : status'[d] = status[d]
  BY DEF Return, TypeOK, OrderTypeOK
<1>2. booked'[c] = 0
  BY DEF TruthInv, Truth
<1>3. Truth(c)'
  <2>1. CASE r = "UNKNOWN"
    BY <1>1, <1>2, <2>1 DEF Truth, Settled
  <2>2. CASE r = "REJECTED"
    <3>1. \A a \in 1..MaxAttempts : exch'[<<c, a>>] \notin {"transit", "wait", "done", "cancel"}
      BY <2>2 DEF Placed
    <3>2. attempt'[c] \in 1..MaxAttempts /\ Identifier(c)' = <<c, attempt'[c]>>
      BY DEF TypeOK, OrderTypeOK, Identifier
    <3>3. executed'[Identifier(c)'] = 0
      BY <3>1, <3>2 DEF InBook
    <3> QED
      BY <1>1, <1>2, <3>1, <3>3 DEF Truth, ExchangeIsDone
  <2> QED
    BY <2>1, <2>2
<1> QED
  BY <1>1, <1>3, TruthFrame

\* While an order is placed under one attempt, none is under another.
LEMMA OthersNotPlaced ==
  ASSUME GuardInv, NEW c \in ClientIds, NEW a \in 1..MaxAttempts, a # attempt[c]
  PROVE  ~Placed(<<c, a>>)
BY DEF GuardInv, OrderKeepsItsHandle

\* Deciding a call before any order is confirmed.
LEMMA TruthWhileDeciding ==
  ASSUME NoFaults, TypeOK, BookInv, GuardInv, TruthInv, NEW c \in ClientIds,
         BeginExecute(c) \/ Prepare(c) \/ CreateStep(c)
  PROVE  TruthInv'
<1> USE ConstantsAssumption
<1> USE DEF exchangeVars, orderVars, fateVars, callVars, TypeOK, OrderTypeOK, CallTypeOK, ExchangeTypeOK
<1>1. c \notin processed /\ status[c] \notin {"FILLED", "PARTIAL"} /\ (cid = c \/ cid = NoClient)
  BY DEF BeginExecute, Prepare, CreateStep, CreateAccepted, CreateRefused, CreateDuplicated,
         CreateUnanswered, CreateGarbled, BookInv, Deciding
<1>2. \A a \in 1..MaxAttempts : ~Placed(<<c, a>>)
  BY <1>1, NothingPlacedYet DEF BeginExecute, Prepare, CreateStep, CreateAccepted, CreateRefused,
         CreateDuplicated, CreateUnanswered, CreateGarbled
<1>3. /\ booked[c] = 0 /\ \A a \in 1..MaxAttempts : executed[<<c, a>>] = 0
      /\ Identifier(c) \in Ids /\ attempt[c] \in 1..MaxAttempts
  BY <1>1, <1>2, NeverMade, IdentifierType
<1>4. \A d \in ClientIds \ {c}, a \in 1..MaxAttempts : <<d, a>> # Identifier(c)
  BY DEF Identifier
<1>15. c \notin early
  BY <1>1 DEF TruthInv, Truth
<1>16. early' = early /\ processed \subseteq processed'
  BY DEF BeginExecute, Prepare, CreateStep, CreateAccepted, CreateRefused, CreateDuplicated,
         CreateUnanswered, CreateGarbled, Watch
<1>5. CASE BeginExecute(c)
  <2>1. Truth(c)'
    BY <1>15, <1>16, <1>3, <1>5 DEF BeginExecute, Truth, Settled
  <2> QED
    BY <1>3, <1>5, <2>1, TruthFrame, <1>15, <1>16 DEF BeginExecute
<1>6. CASE Prepare(c)
  <2>1. CASE MoveTo("create") /\ UNCHANGED <<status, seen>>
    <3>1. status[c] = "NEW" /\ cid' = c /\ step' = "create"
      BY <1>6, <2>1 DEF Prepare, MoveTo, BookInv, Deciding
    <3>2. Truth(c)'
      BY <1>15, <1>16, <1>3, <1>6, <2>1, <3>1 DEF Prepare, Truth, Settled
    <3> QED
      BY <1>3, <1>6, <2>1, <3>1, <3>2, TruthFrame, <1>15, <1>16 DEF Prepare
  <2>2. CASE Return(c, "REJECTED")
    <3>1. UNCHANGED <<exch, executed, attempt, booked>>
      BY <1>6 DEF Prepare
    <3>2. \A a \in 1..MaxAttempts : ~Placed(<<c, a>>)'
      BY <1>2, <3>1 DEF Placed
    <3> QED
      BY <1>1, <1>3, <2>2, <3>1, <3>2, TruthAtReturn, <1>15, <1>16
  <2> QED
    BY <1>6, <2>1, <2>2 DEF Prepare
<1>7. CASE CreateAccepted(c)
  <2>1. /\ exch' = [exch EXCEPT ![Identifier(c)] = "wait"]
        /\ UNCHANGED <<executed, attempt, booked>> /\ cid = c
    BY <1>7 DEF CreateAccepted
  <2>2. status' = [status EXCEPT ![c] = "SUBMITTED"] /\ cid' = c /\ step' = "poll"
    BY <1>7 DEF CreateAccepted, Watch, MoveTo, IsFinal
  <2>3. Identifier(c)' = Identifier(c) /\ exch'[Identifier(c)] = "wait"
    BY <1>3, <2>1 DEF Identifier
  <2>4. Truth(c)'
    BY <1>15, <1>16, <1>3, <2>1, <2>2, <2>3 DEF Truth, Settled, InBook
  <2>5. \A d \in ClientIds \ {c}, a \in 1..MaxAttempts : exch'[<<d, a>>] = exch[<<d, a>>]
    BY <1>4, <2>1 DEF Ids
  <2> QED
    BY <1>3, <2>1, <2>2, <2>4, <2>5, TruthFrame, <1>15, <1>16
<1>8. CASE CreateRefused(c)
  <2>1. PICK e \in {"none", "refused"} : exch' = [exch EXCEPT ![Identifier(c)] = e]
    BY <1>8 DEF CreateRefused, NoFaults
  <2>2. Return(c, "REJECTED") /\ UNCHANGED <<executed, attempt, booked>>
    BY <1>8 DEF CreateRefused
  <2>3. \A a \in 1..MaxAttempts : ~Placed(<<c, a>>)'
    <3> SUFFICES ASSUME NEW a \in 1..MaxAttempts PROVE exch'[<<c, a>>] \notin InBook \cup {"transit"}
      BY DEF Placed, InBook
    <3>1. <<c, a>> \in Ids
      BY DEF Ids
    <3>2. exch'[<<c, a>>] \in {e, exch[<<c, a>>]}
      BY <2>1, <3>1
    <3>3. exch[<<c, a>>] \notin InBook \cup {"transit"}
      BY <1>2 DEF Placed, InBook
    <3> QED
      BY <3>2, <3>3 DEF InBook
  <2>4. \A d \in ClientIds \ {c}, a \in 1..MaxAttempts : exch'[<<d, a>>] = exch[<<d, a>>]
    BY <1>4, <2>1 DEF Ids
  <2> QED
    BY <1>1, <1>3, <2>2, <2>3, <2>4, TruthAtReturn, <1>15, <1>16
<1>9. CASE CreateDuplicated(c)
  <2>1. UNCHANGED <<exch, executed, booked>> /\ cid = c /\ step = "create"
    BY <1>9 DEF CreateDuplicated
  <2>2. CASE attempt[c] < MaxAttempts
    <3>1. attempt' = [attempt EXCEPT ![c] = @ + 1] /\ UNCHANGED <<status, callVars>>
      BY <1>9, <2>2 DEF CreateDuplicated
    <3>2. status[c] = "NEW"
      BY <2>1 DEF BookInv, Deciding
    <3>3. Truth(c)'
      BY <1>15, <1>16, <1>3, <2>1, <3>1, <3>2 DEF Truth, Settled
    <3> QED
      BY <1>3, <2>1, <3>1, <3>3, TruthFrame, <1>15, <1>16
  <2>3. CASE ~(attempt[c] < MaxAttempts)
    <3>1. Return(c, "REJECTED") /\ UNCHANGED attempt
      BY <1>9, <2>3 DEF CreateDuplicated
    <3>2. \A a \in 1..MaxAttempts : ~Placed(<<c, a>>)'
      BY <1>2, <2>1 DEF Placed
    <3> QED
      BY <1>1, <1>3, <2>1, <3>1, <3>2, TruthAtReturn, <1>15, <1>16
  <2> QED
    BY <2>2, <2>3
<1>10. CASE CreateUnanswered(c)
  <2>1. /\ UNCHANGED <<executed, status, attempt, booked>> /\ cid = c /\ step = "create"
        /\ cid' = c /\ step' = "confirm"
    BY <1>10 DEF CreateUnanswered, MoveTo
  <2>2. exch' = exch \/ \E e \in Entries : exch' = [exch EXCEPT ![Identifier(c)] = e]
    BY <1>10 DEF CreateUnanswered, Entries
  <2>3. \A d \in ClientIds \ {c}, a \in 1..MaxAttempts : exch'[<<d, a>>] = exch[<<d, a>>]
    BY <1>4, <2>2 DEF Ids
  <2>4. status[c] = "NEW"
    BY <2>1 DEF BookInv, Deciding
  <2>5. Truth(c)'
    BY <1>15, <1>16, <1>3, <2>1, <2>4 DEF Truth, Settled
  <2> QED
    BY <1>3, <2>1, <2>3, <2>5, TruthFrame, <1>15, <1>16
<1>11. CASE CreateGarbled(c)
  BY <1>11 DEF CreateGarbled, NoFaults
<1> QED
  BY <1>5, <1>6, <1>7, <1>8, <1>9, <1>10, <1>11 DEF CreateStep

\* What a lookup reads is what the exchange has.
LEMMA ReadingTells ==
  ASSUME NEW id, NEW info \in Reading(id)
  PROVE  info.state = exch[id] /\ info.executed = executed[id]
<1>1. PICK t : info = [state |-> exch[id], executed |-> executed[id], trades |-> t]
  BY Zenon DEF Reading
<1> QED
  BY <1>1

\* Looking for an order whose request was not answered.
LEMMA TruthWhileLooking ==
  ASSUME NoFaults, TypeOK, BookInv, GuardInv, TruthInv, NEW c \in ClientIds, LookupStep(c)
  PROVE  TruthInv'
<1> USE ConstantsAssumption
<1> USE DEF exchangeVars, orderVars, fateVars, callVars, TypeOK, OrderTypeOK, CallTypeOK, ExchangeTypeOK
<1>1. cid = c /\ step = "confirm" /\ UNCHANGED <<exch, executed, attempt, booked>>
  BY DEF LookupStep, LookupFinds, LookupMissing, LookupFails, LookupEmpty
<1>2. status[c] = "NEW" /\ booked[c] = 0 /\ c \notin early
  BY <1>1 DEF BookInv, Deciding, TruthInv, Truth
<1>10. early' = early /\ processed \subseteq processed'
  BY DEF LookupStep, LookupFinds, LookupMissing, LookupFails, LookupEmpty, Watch
<1>3. /\ Identifier(c) \in Ids /\ attempt[c] \in 1..MaxAttempts /\ Identifier(c)' = Identifier(c)
      /\ Identifier(c) = <<c, attempt[c]>>
  BY <1>1, IdentifierType DEF Identifier
<1>4. \A a \in 1..MaxAttempts : exch[<<c, a>>] \notin InBook => executed[<<c, a>>] = 0
  BY DEF TruthInv, Ids
<1>5. CASE LookupFinds(c)
  <2>1. PICK info \in Reading(Identifier(c)) : Watch(c, info)
    BY <1>5 DEF LookupFinds
  <2>2. info.state = exch[Identifier(c)] /\ info.executed = executed[Identifier(c)]
    BY ReadingTells
  <2>3. /\ status' = [status EXCEPT ![c] = "SUBMITTED"] /\ seen' = info /\ cid' = c
        /\ step' = IF IsFinal(info) THEN "trades" ELSE "poll"
    BY <1>1, <2>1 DEF Watch, MoveTo
  <2>4. exch[Identifier(c)] \in InBook
    BY <1>5 DEF LookupFinds
  <2>5. Truth(c)'
    BY <1>10, <1>1, <1>2, <1>3, <2>2, <2>3, <2>4 DEF Truth, Settled, IsFinal, InBook
  <2> QED
    BY <1>1, <1>4, <2>3, <2>5, TruthFrame, <1>10
<1>6. ASSUME NEW absent \in BOOLEAN, LookupEmpty(c, absent),
             absent => exch[Identifier(c)] \notin InBook
      PROVE  TruthInv'
  <2>1. CASE tries + 1 < LookupAttempts
    <3>1. UNCHANGED <<cid, step, seen, status>>
      BY <1>6, <2>1 DEF LookupEmpty
    <3>2. Truth(c)'
      BY <1>10, <1>1, <1>2, <3>1 DEF Truth, Settled
    <3> QED
      BY <1>1, <1>4, <3>1, <3>2, TruthFrame, <1>10
  <2>2. CASE ~(tries + 1 < LookupAttempts)
    <3>1. PICK r \in {"REJECTED", "UNKNOWN"} :
            /\ Return(c, r)
            /\ r = "REJECTED" => missing + (IF absent THEN 1 ELSE 0) = LookupAttempts
      BY <1>6, <2>2 DEF LookupEmpty
    <3>2. ASSUME r = "REJECTED", NEW a \in 1..MaxAttempts PROVE ~Placed(<<c, a>>)'
      <4>1. exch[Identifier(c)] \in InBook => ~absent /\ missing = 0
        BY <1>1, <1>6 DEF GuardInv
      <4>2. exch[Identifier(c)] \notin InBook
        BY <3>1, <3>2, <4>1
      <4>3. ~Placed(<<c, a>>)
        BY <1>3, <4>2, PlacedIsInBook, OthersNotPlaced
      <4> QED
        BY <1>1, <4>3 DEF Placed
    <3> QED
      BY <1>1, <1>2, <1>4, <3>1, <3>2, TruthAtReturn, <1>10
  <2> QED
    BY <2>1, <2>2
<1> QED
  BY <1>5, <1>6 DEF LookupStep, LookupMissing, LookupFails

\* Watching an order and resolving one.
LEMMA TruthWhileWatching ==
  ASSUME NoFaults, TypeOK, BookInv, GuardInv, TruthInv, NEW c \in ClientIds,
         WatchStep(c) \/ BeginResolve(c) \/ ResolveStep(c)
  PROVE  TruthInv'
<1> USE ConstantsAssumption
<1> USE DEF exchangeVars, orderVars, fateVars, callVars, TypeOK, OrderTypeOK, CallTypeOK, ExchangeTypeOK
<1>1. (cid = c \/ cid = NoClient) /\ UNCHANGED <<executed, attempt, booked>>
  BY DEF WatchStep, Poll, CancelUnfilled, ReadAfterCancel, WatchFails, RefreshTrades, BeginResolve,
         ResolveStep, ResolveFails, ResolveMissing, ResolveOpen, ResolveFinal
<1>2. status[c] \in {"SUBMITTED", "UNKNOWN"} /\ booked[c] = 0 /\ c \notin early
  BY DEF WatchStep, Poll, CancelUnfilled, ReadAfterCancel, WatchFails, RefreshTrades, BeginResolve,
         ResolveStep, ResolveFails, ResolveMissing, ResolveOpen, ResolveFinal,
         BookInv, Watching, TruthInv, Truth
<1>3. /\ Identifier(c) \in Ids /\ attempt[c] \in 1..MaxAttempts /\ Identifier(c)' = Identifier(c)
      /\ Identifier(c) = <<c, attempt[c]>>
  BY <1>1, IdentifierType DEF Identifier
<1>4. \A a \in 1..MaxAttempts : exch[<<c, a>>] \notin InBook => executed[<<c, a>>] = 0
  BY DEF TruthInv, Ids
<1>5. Truth(c)
  BY DEF TruthInv
<1>20. early' = early /\ processed' = processed
  BY DEF WatchStep, Poll, CancelUnfilled, ReadAfterCancel, WatchFails, RefreshTrades, BeginResolve,
         ResolveStep, ResolveFails, ResolveMissing, ResolveOpen, ResolveFinal
\* The order itself is left alone.
<1>6. ASSUME UNCHANGED <<exch, status>>, cid' = c, Truth(c)' PROVE TruthInv'
  BY <1>1, <1>4, <1>6, TruthFrame, <1>20
\* The call goes on with its order, and may have read it.
<1>21. ASSUME UNCHANGED status, cid' = c, exch'[Identifier(c)] \in InBook,
              step' \in {"poll", "final"} => status[c] = "SUBMITTED",
              step' = "trades" =>
                /\ seen'.state \in InBook /\ seen'.executed <= executed[Identifier(c)]
                /\ seen'.state # "wait" => /\ exch'[Identifier(c)] # "wait"
                                          /\ seen'.executed = executed[Identifier(c)]
                /\ status[c] = "UNKNOWN" => seen'.state # "wait"
       PROVE  Truth(c)'
  <2>1. IsFinal(seen)' <=> seen'.state \in {"done", "cancel"}
    BY DEF IsFinal
  <2>2. Identifier(c)' = Identifier(c) /\ UNCHANGED <<executed, booked, early>>
    BY <1>1, <1>3, <1>20
  <2> QED
    BY <1>2, <1>21, <2>1, <2>2 DEF Truth, Settled, InBook
\* The call gives up for now; a cancel may have taken effect.
<1>7. ASSUME Return(c, "UNKNOWN"), UNCHANGED exch \/ TryCancel(Identifier(c))
      PROVE  TruthInv'
  <2>1. UNCHANGED exch \/ exch' = [exch EXCEPT ![Identifier(c)] = "cancel"]
    BY <1>7 DEF TryCancel
  <2>2. \A d \in ClientIds \ {c}, a \in 1..MaxAttempts : exch'[<<d, a>>] = exch[<<d, a>>]
    BY <1>3, <2>1 DEF Ids
  <2>3. \A a \in 1..MaxAttempts : exch'[<<c, a>>] \notin InBook => executed[<<c, a>>] = 0
    BY <1>3, <1>4, <2>1 DEF InBook, Ids
  <2> QED
    BY <1>1, <1>2, <1>7, <2>2, <2>3, TruthAtReturn, <1>20
<1>8. CASE Poll(c)
  <2>1. PICK info \in Reading(Identifier(c)) :
          /\ seen' = info
          /\ IF IsFinal(info) THEN MoveTo("trades")
             ELSE tries' = tries + 1 /\ UNCHANGED <<cid, step, missing>>
    BY <1>8 DEF Poll
  <2>2. info.state = exch[Identifier(c)] /\ info.executed = executed[Identifier(c)]
    BY ReadingTells
  <2>3. cid = c /\ step = "poll" /\ UNCHANGED <<exch, status>>
    BY <1>8 DEF Poll
  <2>4. cid' = c /\ step' = IF IsFinal(info) THEN "trades" ELSE "poll"
    BY <2>1, <2>3 DEF MoveTo
  <2>5. exch[Identifier(c)] \in InBook
    BY <1>5, <2>3 DEF Truth
  <2>7. status[c] = "SUBMITTED" /\ executed[Identifier(c)] \in Nat
    BY <1>3, <1>5, <2>3 DEF Truth
  <2>6. Truth(c)'
    BY <1>21, <2>1, <2>2, <2>3, <2>4, <2>5, <2>7 DEF IsFinal
  <2> QED
    BY <1>6, <2>3, <2>4, <2>6
<1>9. CASE CancelUnfilled(c)
  <2>1. /\ cid = c /\ step = "poll" /\ cid' = c /\ step' = "final" /\ UNCHANGED status
        /\ TryCancel(Identifier(c))
    BY <1>9 DEF CancelUnfilled, MoveTo
  <2>2. exch[Identifier(c)] \in InBook
    BY <1>5, <2>1 DEF Truth
  <2>3. UNCHANGED exch \/ exch' = [exch EXCEPT ![Identifier(c)] = "cancel"]
    BY <2>1 DEF TryCancel
  <2>4. exch'[Identifier(c)] \in InBook
    BY <1>3, <2>2, <2>3 DEF InBook
  <2>5. \A d \in ClientIds \ {c}, a \in 1..MaxAttempts : exch'[<<d, a>>] = exch[<<d, a>>]
    BY <1>3, <2>3 DEF Ids
  <2>6. \A a \in 1..MaxAttempts : exch'[<<c, a>>] \notin InBook => executed[<<c, a>>] = 0
    BY <1>3, <1>4, <2>3 DEF InBook, Ids
  <2>8. status[c] = "SUBMITTED"
    BY <1>5, <2>1 DEF Truth
  <2>7. Truth(c)'
    BY <1>21, <2>1, <2>4, <2>8
  <2> QED
    BY <1>1, <2>1, <2>5, <2>6, <2>7, TruthFrame, <1>20
<1>10. CASE ReadAfterCancel(c)
  <2>1. seen' \in Reading(Identifier(c)) /\ UNCHANGED <<exch, status>>
    BY <1>10 DEF ReadAfterCancel
  <2>2. cid = c /\ step = "final" /\ cid' = c /\ step' = "trades"
    BY <1>10 DEF ReadAfterCancel, MoveTo
  <2>3. seen'.executed = executed[Identifier(c)] /\ seen'.state = exch[Identifier(c)]
    BY <2>1, ReadingTells
  <2>5. status[c] = "SUBMITTED"
    BY <1>5, <2>2 DEF Truth
  <2>4. Truth(c)'
    BY <1>20, <1>1, <1>2, <1>3, <1>5, <2>1, <2>2, <2>3, <2>5 DEF Truth, Settled, IsFinal, InBook
  <2> QED
    BY <1>6, <2>1, <2>2, <2>4
<1>11. CASE WatchFails(c)
  <2>1. Return(c, "UNKNOWN") /\ (UNCHANGED exch \/ TryCancel(Identifier(c)))
    BY <1>11 DEF WatchFails
  <2> QED
    BY <1>7, <2>1
<1>12. CASE RefreshTrades(c)
  <2>1. /\ cid = c /\ step = "trades" /\ cid' = c /\ step' = "trades" /\ UNCHANGED <<exch, status>>
        /\ seen' \in Reading(Identifier(c)) \/ UNCHANGED seen
    BY <1>12 DEF RefreshTrades
  <2>2. \/ UNCHANGED seen
        \/ seen'.executed = executed[Identifier(c)] /\ seen'.state = exch[Identifier(c)]
    BY <2>1, ReadingTells
  <2>4. executed[Identifier(c)] \in Nat /\ exch[Identifier(c)] \in InBook
    BY <1>3, <1>5, <2>1 DEF Truth
  <2>5. /\ seen'.state \in InBook /\ seen'.executed <= executed[Identifier(c)]
        /\ seen'.state # "wait" => /\ exch[Identifier(c)] # "wait"
                                  /\ seen'.executed = executed[Identifier(c)]
        /\ status[c] = "UNKNOWN" => seen'.state # "wait"
    <3>1. CASE UNCHANGED seen
      BY <1>5, <2>1, <3>1 DEF Truth, IsFinal, InBook
    <3>2. CASE seen'.executed = executed[Identifier(c)] /\ seen'.state = exch[Identifier(c)]
      BY <1>5, <2>1, <2>4, <3>2 DEF Truth, IsFinal, InBook
    <3> QED
      BY Zenon, <2>2, <3>1, <3>2
  <2>3. Truth(c)'
    BY <1>21, <2>1, <2>4, <2>5
  <2> QED
    BY <1>6, <2>1, <2>3
<1>13. CASE BeginResolve(c)
  <2>1. UNCHANGED <<exch, status>> /\ cid' = c /\ step' = "query"
    BY <1>13 DEF BeginResolve
  <2>2. Truth(c)'
    BY <1>20, <1>1, <1>2, <2>1 DEF Truth, Settled
  <2> QED
    BY <1>6, <2>1, <2>2
<1>14. CASE ResolveFails(c)
  BY <1>7, <1>14 DEF ResolveFails
<1>15. CASE ResolveMissing(c)
  <2>1. Return(c, "REJECTED") /\ UNCHANGED exch /\ exch[Identifier(c)] \notin InBook
    BY <1>15 DEF ResolveMissing
  <2>2. ASSUME NEW a \in 1..MaxAttempts PROVE ~Placed(<<c, a>>)'
    <3>1. ~Placed(<<c, a>>)
      BY <1>3, <2>1, PlacedIsInBook, OthersNotPlaced
    <3> QED
      BY <2>1, <3>1 DEF Placed
  <2> QED
    BY <1>1, <1>2, <1>4, <2>1, <2>2, TruthAtReturn, <1>20
<1>16. CASE ResolveOpen(c)
  BY <1>7, <1>16 DEF ResolveOpen
<1>17. CASE ResolveFinal(c)
  <2>1. /\ exch[Identifier(c)] \in {"done", "cancel"} /\ seen' \in Reading(Identifier(c))
        /\ UNCHANGED <<exch, status>> /\ cid' = c /\ step' = "trades"
    BY <1>17 DEF ResolveFinal, MoveTo
  <2>2. seen'.executed = executed[Identifier(c)] /\ seen'.state = exch[Identifier(c)]
    BY <2>1, ReadingTells
  <2>4. executed[Identifier(c)] \in Nat
    BY <1>3
  <2>3. Truth(c)'
    BY <1>20, <1>1, <1>2, <1>3, <2>1, <2>2, <2>4 DEF Truth, Settled, InBook, IsFinal
  <2> QED
    BY <1>6, <2>1, <2>3
<1> QED
  BY <1>8, <1>9, <1>10, <1>11, <1>12, <1>13, <1>14, <1>15, <1>16, <1>17 DEF WatchStep, ResolveStep

\* The verdict: what was read is booked, or there was nothing to book.
LEMMA TruthWhenApplied ==
  ASSUME NoFaults, TypeOK, BookInv, GuardInv, TruthInv, NEW c \in ClientIds, ApplyStep(c)
  PROVE  TruthInv'
<1> USE ConstantsAssumption
<1> USE DEF exchangeVars, orderVars, fateVars, callVars, TypeOK, OrderTypeOK, CallTypeOK, ExchangeTypeOK
<1>1. cid = c /\ step = "trades" /\ UNCHANGED <<exch, executed, attempt, processed>>
  BY DEF ApplyStep, ApplyNothing, ApplyUnpriced, ApplyFill, ApplyImpossible, ReadyToApply
<1>2. PICK r \in {"CANCELLED", "REJECTED", "UNKNOWN", "PARTIAL", "FILLED"} :
        /\ Return(c, r)
        /\ r \in {"CANCELLED", "REJECTED"} => UNCHANGED booked /\ seen.executed = 0
        /\ r = "UNKNOWN" => UNCHANGED booked /\ early' = early
        /\ r \in {"PARTIAL", "FILLED"} => booked' = [booked EXCEPT ![c] = @ + seen.executed]
        /\ r # "UNKNOWN" => early' = IF IsFinal(seen) THEN early ELSE early \cup {c}
        /\ r \in {"CANCELLED", "PARTIAL"} => IsFinal(seen)
  BY DEF ApplyStep, ApplyNothing, ApplyUnpriced, ApplyFill, ApplyImpossible, NoFaults, Settling,
         IsFinal
<1>3. /\ status[c] \in {"SUBMITTED", "UNKNOWN"} /\ booked[c] = 0
      /\ c \notin early /\ c \in processed
  BY <1>1 DEF BookInv, Watching, TruthInv, Truth
<1>4. /\ exch[Identifier(c)] \in InBook
      /\ seen.executed <= executed[Identifier(c)] /\ seen.executed \in Nat
      /\ IsFinal(seen) => /\ exch[Identifier(c)] # "wait"
                          /\ seen.executed = executed[Identifier(c)]
  BY <1>1 DEF TruthInv, Truth, Infos
<1>5. /\ Identifier(c)' = Identifier(c) /\ Identifier(c) = <<c, attempt[c]>>
      /\ attempt[c] \in 1..MaxAttempts
  BY <1>1 DEF Identifier
<1>6. ASSUME IsFinal(seen) PROVE ExchangeIsDone(c)'
  <2>1. SUFFICES ASSUME NEW a \in 1..MaxAttempts PROVE exch[<<c, a>>] \notin {"transit", "wait"}
    BY <1>1 DEF ExchangeIsDone
  <2>2. CASE a = attempt[c]
    BY <1>4, <1>5, <1>6, <2>2 DEF InBook
  <2>3. CASE a # attempt[c]
    BY <2>3, OthersNotPlaced DEF Placed
  <2> QED
    BY <2>2, <2>3
<1>7. /\ status' = [status EXCEPT ![c] = r] /\ cid' = NoClient
      /\ \A d \in ClientIds \ {c} : booked'[d] = booked[d] /\ (d \in early') = (d \in early)
  BY <1>2 DEF Return
<1>8. Truth(c)'
  <2>1. CASE r = "UNKNOWN"
    BY <1>1, <1>2, <1>3, <1>7, <2>1 DEF Truth, Settled
  <2>2. CASE r # "UNKNOWN"
    <3>1. booked'[c] = seen.executed /\ (r \notin {"FILLED", "PARTIAL"} => booked'[c] = 0)
      BY <1>2, <1>3, <1>4, <2>2
    <3>2. c \notin early' => IsFinal(seen)
      BY <1>2, <2>2
    <3>3. c \in early' => r \in {"REJECTED", "FILLED"}
      BY <1>2, <1>3, <2>2
    <3> QED
      BY <1>1, <1>3, <1>4, <1>5, <1>6, <1>7, <3>1, <3>2, <3>3 DEF Truth, Settled
  <2> QED
    BY <2>1, <2>2
<1>9. \A a \in 1..MaxAttempts : exch[<<c, a>>] \notin InBook => executed[<<c, a>>] = 0
  BY DEF TruthInv, Ids
<1> QED
  BY <1>1, <1>7, <1>8, <1>9, TruthFrame

\* The exchange only goes on with orders that are open, and those are neither
\* settled nor judged.
LEMMA TruthAtExchange ==
  ASSUME TypeOK, GuardInv, TruthInv, NEW id \in Ids, ExchangeStep(id)
  PROVE  TruthInv'
<1> USE DEF exchangeVars, orderVars, fateVars, callVars, TypeOK, OrderTypeOK, CallTypeOK, ExchangeTypeOK
<1>1. PICK c \in ClientIds, a \in 1..MaxAttempts : id = <<c, a>>
  BY DEF Ids
<1>2. exch[id] = "wait" /\ UNCHANGED <<orderVars, callVars>>
  BY DEF ExchangeStep, Arrive, Match, StopShort, GuardInv
<1>3. /\ \E e \in InBook : exch' = [exch EXCEPT ![id] = e]
      /\ \A x \in Ids : x # id => executed'[x] = executed[x]
  BY <1>2 DEF ExchangeStep, Arrive, Match, StopShort, InBook
<1>4. /\ \A x \in Ids : x # id => exch'[x] = exch[x] /\ executed'[x] = executed[x]
      /\ exch'[id] \in InBook
  BY <1>3
<1>5. \A d \in ClientIds \ {c}, b \in 1..MaxAttempts : <<d, b>> \in Ids /\ <<d, b>> # id
  BY <1>1 DEF Ids
<1>6. Truth(c)
  BY DEF TruthInv
<1>7. status[c] \in Settled => c \in early
  BY <1>1, <1>2, <1>6 DEF Truth, ExchangeIsDone
<1>11. \A x \in Ids : executed[x] \in Nat /\ executed'[x] \in Nat /\ executed[x] <= executed'[x]
  BY <1>2 DEF ExchangeStep, Arrive, Match, StopShort
<1>8. Identifier(c)' = Identifier(c) /\ Identifier(c) \in Ids
  BY <1>2, IdentifierType DEF Identifier
<1>9. Truth(c)'
  <2>3. /\ booked[c] \in Nat /\ (booked[c] <= executed[Identifier(c)] => booked[c] <= executed'[Identifier(c)])
        /\ cid = c /\ step = "trades" => seen.executed <= executed'[Identifier(c)]
    BY <1>6, <1>8, <1>11 DEF Truth, Infos
  <2>1. CASE Identifier(c) = id
    BY <1>2, <1>4, <1>6, <1>7, <1>8, <2>1, <2>3 DEF Truth, IsFinal
  <2>2. CASE Identifier(c) # id
    BY <1>2, <1>4, <1>6, <1>7, <1>8, <2>2, <2>3 DEF Truth, IsFinal
  <2> QED
    BY <2>1, <2>2
<1>10. ASSUME NEW b \in 1..MaxAttempts, exch'[<<c, b>>] \notin InBook PROVE executed'[<<c, b>>] = 0
  <2>1. <<c, b>> \in Ids /\ <<c, b>> # id
    BY <1>4, <1>10 DEF Ids
  <2> QED
    BY <1>4, <1>10, <2>1 DEF TruthInv
<1> QED
  BY <1>2, <1>4, <1>5, <1>9, <1>10, TruthFrame

\* Without faults every step keeps verdicts true.
LEMMA TruthStep ==
  ASSUME NoFaults, TypeOK, BookInv, GuardInv, TruthInv, [Next]_vars
  PROVE  TruthInv'
<1>1. ASSUME UNCHANGED <<exch, executed, processed, status, attempt, booked, early, cid, step, seen>>
      PROVE  TruthInv'
  BY <1>1 DEF TruthInv, Truth, Identifier, ExchangeIsDone, IsFinal
<1>2. CASE UNCHANGED vars
  BY <1>1, <1>2 DEF vars, exchangeVars, orderVars, fateVars, callVars
<1>3. ASSUME NEW c \in ClientIds, RejectDuplicate(c) \/ GiveUp(c) PROVE TruthInv'
  BY <1>1, <1>3 DEF RejectDuplicate, GiveUp, exchangeVars, fateVars, callVars
<1> QED
  BY <1>2, <1>3, TruthWhileDeciding, TruthWhileLooking, TruthWhileWatching, TruthWhenApplied,
     TruthAtExchange DEF Next, CallStep

\* What the process says of a settled order is so, and it stays so: without
\* faults, with cancels that fail or are slow, no order is left open or partly
\* booked behind a verdict but those settled on a reading that showed them open.
THEOREM SettledOrderTrue == ASSUME NoFaults PROVE Spec => []SettledIsTrue
<1>1. TypeOK /\ BookInv /\ GuardInv /\ TruthInv /\ [Next]_vars => TruthInv'
  BY TruthStep
<1>2. TruthInv => SettledIsTrue
  BY DEF TruthInv, Truth, SettledIsTrue
<1>3. Spec => []GuardInv
  BY NoFaultDecides, GuardInvariance
<1>4. QED
  BY Typing, BookingInvariance, TruthInit, <1>1, <1>2, <1>3, PTL DEF Spec

(***************************************************************************)
(* OrderExecution implements OrderPromise.  With at most one order per     *)
(* request, the exchange's side of the promise is read off the entry under *)
(* the identifier in hand, and the verdict off the status: a step on a     *)
(* request is then a pair of sides and a pair of verdicts that the promise *)
(* allows.                                                                 *)
(***************************************************************************)

Side(e) ==
  IF e \in {"wait", "transit"} THEN "live" ELSE IF e \in {"done", "cancel"} THEN "closed" ELSE "absent"

Verdict(s, c, E) ==
  IF s = "none" THEN "nothing" ELSE IF s \in {"NEW", "SUBMITTED"} THEN "asked"
  ELSE IF s = "UNKNOWN" THEN "unknown" ELSE IF c \in E THEN "early"
  ELSE IF s \in {"FILLED", "PARTIAL"} THEN "filled" ELSE "rejected"

\* From side p and verdict v to side q and verdict w.
Allowed(p, v, q, w) ==
  \/ p = q /\ v = w
  \/ v \in {"nothing", "rejected"} /\ w = "asked" /\ p = "absent" /\ q = p
  \/ v = "asked" /\ w = v /\ p = "absent" /\ q = "live"
  \/ w = v /\ p = "live" /\ q = "closed"
  \/ v \in {"asked", "unknown"} /\ w = "unknown" /\ (q = p \/ (p = "live" /\ q = "closed"))
  \/ v \in {"asked", "unknown"} /\ q = p
     /\ \/ p = "closed" /\ w = "filled"
        \/ p # "live" /\ w = "rejected"
  \/ v = "asked" /\ w = "early" /\ q = p /\ p # "absent"

\* The entries of a request, of which one may be placed, seen as one side.
LEMMA OneSide ==
  ASSUME NEW f, NEW c, NEW a \in 1..MaxAttempts, NEW entries,
         entries = {f[<<c, b>>] : b \in 1..MaxAttempts},
         \A b \in 1..MaxAttempts \ {a} : f[<<c, b>>] \notin {"transit", "wait", "done", "cancel"}
  PROVE  (IF entries \cap {"wait", "transit"} # {} THEN "live"
          ELSE IF entries \cap {"done", "cancel"} # {} THEN "closed" ELSE "absent")
         = Side(f[<<c, a>>])
<1>1. f[<<c, a>>] \in entries
  OBVIOUS
<1>2. \A e \in entries : e = f[<<c, a>>] \/ e \notin {"transit", "wait", "done", "cancel"}
  OBVIOUS
<1> QED
  BY <1>1, <1>2 DEF Side

\* What OrderPromise sees of a request, before a step and after it.
LEMMA SeenAsSideAndVerdict ==
  ASSUME TypeOK, GuardInv, TypeOK', GuardInv', NEW c \in ClientIds
  PROVE  /\ PlacedAs(c) = Side(exch[Identifier(c)]) /\ ToldAs(c) = Verdict(status[c], c, early)
         /\ PlacedAs(c)' = Side(exch'[Identifier(c)']) /\ ToldAs(c)' = Verdict(status'[c], c, early')
<1>1. attempt[c] \in 1..MaxAttempts /\ attempt'[c] \in 1..MaxAttempts
  BY DEF TypeOK, OrderTypeOK
<1>2. status[c] \in Statuses /\ status'[c] \in Statuses
  BY DEF TypeOK, OrderTypeOK
<1>3. /\ \A b \in 1..MaxAttempts \ {attempt[c]} :
           exch[<<c, b>>] \notin {"transit", "wait", "done", "cancel"}
      /\ \A b \in 1..MaxAttempts \ {attempt'[c]} :
           exch'[<<c, b>>] \notin {"transit", "wait", "done", "cancel"}
  BY DEF GuardInv, OrderKeepsItsHandle, Placed
<1>4. PlacedAs(c) = Side(exch[<<c, attempt[c]>>])
  BY <1>1, <1>3, OneSide DEF PlacedAs
<1>5. PlacedAs(c)' = Side(exch'[<<c, attempt'[c]>>])
  BY <1>1, <1>3, OneSide DEF PlacedAs
<1>6. ToldAs(c) = Verdict(status[c], c, early)
  <2>1. CASE status[c] \in {"none", "NEW", "SUBMITTED", "UNKNOWN"}
    BY <2>1 DEF ToldAs, Verdict, Settled
  <2>2. CASE status[c] \in Settled /\ c \in early
    BY <2>2 DEF ToldAs, Verdict, Settled
  <2>3. CASE status[c] \in Settled /\ c \notin early
    BY <2>3 DEF ToldAs, Verdict, Settled
  <2> QED
    BY <1>2, <2>1, <2>2, <2>3 DEF Statuses, Settled
<1>7. ToldAs(c)' = Verdict(status'[c], c, early')
  <2>1. CASE status'[c] \in {"none", "NEW", "SUBMITTED", "UNKNOWN"}
    BY <2>1 DEF ToldAs, Verdict, Settled
  <2>2. CASE status'[c] \in Settled /\ c \in early'
    BY <2>2 DEF ToldAs, Verdict, Settled
  <2>3. CASE status'[c] \in Settled /\ c \notin early'
    BY <2>3 DEF ToldAs, Verdict, Settled
  <2> QED
    BY <1>2, <2>1, <2>2, <2>3 DEF Statuses, Settled
<1> QED
  BY <1>4, <1>5, <1>6, <1>7 DEF Identifier

\* A step on one request that the promise allows is a step of OrderPromise.
LEMMA AllowedIsPromised ==
  ASSUME TypeOK, GuardInv, TypeOK', GuardInv', NEW c \in ClientIds,
         Allowed(Side(exch[Identifier(c)]), Verdict(status[c], c, early),
                 Side(exch'[Identifier(c)']), Verdict(status'[c], c, early')),
         \A d \in ClientIds \ {c} :
            /\ status'[d] = status[d] /\ attempt'[d] = attempt[d]
            /\ (d \in early') = (d \in early)
            /\ \A a \in 1..MaxAttempts : exch'[<<d, a>>] = exch[<<d, a>>]
  PROVE  [Promise!Next]_(Promise!vars)
<1> DEFINE P == [d \in ClientIds |-> PlacedAs(d)]
           T == [d \in ClientIds |-> ToldAs(d)]
<1>1. ASSUME NEW d \in ClientIds \ {c} PROVE P'[d] = P[d] /\ T'[d] = T[d]
  <2>1. attempt[d] \in 1..MaxAttempts
    BY DEF TypeOK, OrderTypeOK
  <2>2. exch'[Identifier(d)'] = exch[Identifier(d)]
    BY <2>1 DEF Identifier
  <2>3. Verdict(status'[d], d, early') = Verdict(status[d], d, early)
    BY DEF Verdict
  <2> QED
    BY <2>2, <2>3, SeenAsSideAndVerdict
<1>2. /\ P[c] = Side(exch[Identifier(c)]) /\ T[c] = Verdict(status[c], c, early)
      /\ P'[c] = Side(exch'[Identifier(c)']) /\ T'[c] = Verdict(status'[c], c, early')
  BY SeenAsSideAndVerdict
<1>3. /\ P' = [P EXCEPT ![c] = P'[c]] /\ T' = [T EXCEPT ![c] = T'[c]]
      /\ P'[c] = P[c] => P' = P
      /\ T'[c] = T[c] => T' = T
  BY <1>1
<1>4. Allowed(P[c], T[c], P'[c], T'[c])
  BY <1>2
<1> HIDE DEF P, T
<1>5. \/ P' = P /\ T' = T
      \/ T[c] \in {"nothing", "rejected"} /\ P[c] = "absent" /\ T' = [T EXCEPT ![c] = "asked"] /\ P' = P
      \/ T[c] = "asked" /\ P[c] = "absent" /\ P' = [P EXCEPT ![c] = "live"] /\ T' = T
      \/ P[c] = "live" /\ P' = [P EXCEPT ![c] = "closed"] /\ T' = T
      \/ /\ T[c] \in {"asked", "unknown"} /\ T' = [T EXCEPT ![c] = "unknown"]
         /\ P' = P \/ (P[c] = "live" /\ P' = [P EXCEPT ![c] = "closed"])
      \/ /\ T[c] \in {"asked", "unknown"} /\ P' = P
         /\ \/ P[c] = "closed" /\ T' = [T EXCEPT ![c] = "filled"]
            \/ P[c] # "live" /\ T' = [T EXCEPT ![c] = "rejected"]
      \/ T[c] = "asked" /\ P[c] # "absent" /\ P' = P /\ T' = [T EXCEPT ![c] = "early"]
  BY <1>3, <1>4 DEF Allowed
<1>6. \/ P' = P /\ T' = T
      \/ Promise!Ask(c) \/ Promise!Place(c) \/ Promise!Close(c) \/ Promise!StayUnknown(c)
      \/ Promise!Settle(c) \/ Promise!SettleEarly(c)
  BY <1>5 DEF P, T, Promise!Ask, Promise!Place, Promise!Close, Promise!StayUnknown, Promise!Settle,
              Promise!SettleEarly
<1>7. P' = P /\ T' = T => UNCHANGED Promise!vars
  BY DEF P, T, Promise!vars
<1> QED
  BY <1>6, <1>7 DEF Promise!Next

\* A step that touches no entry of the exchange, and of the requests only the
\* status of c.
LEMMA VerdictIsPromised ==
  ASSUME TypeOK, GuardInv, TypeOK', GuardInv', NEW c \in ClientIds, NEW w \in Statuses,
         UNCHANGED <<exch, attempt>>, status' = [status EXCEPT ![c] = w],
         early' \in {early, early \cup {c}},
         Allowed(Side(exch[Identifier(c)]), Verdict(status[c], c, early),
                 Side(exch[Identifier(c)]), Verdict(w, c, early'))
  PROVE  [Promise!Next]_(Promise!vars)
<1>1. /\ status'[c] = w
      /\ \A d \in ClientIds \ {c} : status'[d] = status[d] /\ (d \in early') = (d \in early)
  BY DEF TypeOK, OrderTypeOK
<1>2. Identifier(c)' = Identifier(c)
  BY DEF Identifier
<1> QED
  BY <1>1, <1>2, AllowedIsPromised

\* A step that leaves the exchange, the verdicts and the identifiers alone.
LEMMA StillIsPromised ==
  ASSUME UNCHANGED <<exch, status, early>>
  PROVE  [Promise!Next]_(Promise!vars)
<1>1. \A d \in ClientIds : PlacedAs(d)' = PlacedAs(d) /\ ToldAs(d)' = ToldAs(d)
  BY DEF PlacedAs, ToldAs
<1>2. [d \in ClientIds |-> PlacedAs(d)]' = [d \in ClientIds |-> PlacedAs(d)]
  BY <1>1
<1>3. [d \in ClientIds |-> ToldAs(d)]' = [d \in ClientIds |-> ToldAs(d)]
  BY <1>1
<1> QED
  BY <1>2, <1>3 DEF Promise!vars

\* A step that changes one entry of c, under the identifier in hand.
LEMMA EntryIsPromised ==
  ASSUME TypeOK, GuardInv, TypeOK', GuardInv', NEW c \in ClientIds, NEW e,
         NEW w \in Statuses, status' = [status EXCEPT ![c] = w], early' = early,
         exch' = [exch EXCEPT ![Identifier(c)] = e], attempt' = attempt,
         Allowed(Side(exch[Identifier(c)]), Verdict(status[c], c, early), Side(e), Verdict(w, c, early'))
  PROVE  [Promise!Next]_(Promise!vars)
<1>1. /\ status'[c] = w
      /\ \A d \in ClientIds \ {c} : status'[d] = status[d] /\ (d \in early') = (d \in early)
  BY DEF TypeOK, OrderTypeOK
<1>2. Identifier(c)' = Identifier(c) /\ Identifier(c) \in Ids
  BY IdentifierType DEF TypeOK, OrderTypeOK, Identifier
<1>3. exch'[Identifier(c)] = e
  BY <1>2 DEF TypeOK, ExchangeTypeOK
<1>4. \A d \in ClientIds \ {c}, a \in 1..MaxAttempts : exch'[<<d, a>>] = exch[<<d, a>>]
  BY DEF Ids, Identifier, TypeOK, ExchangeTypeOK
<1> QED
  BY <1>1, <1>2, <1>3, <1>4, AllowedIsPromised

\* Until an order is confirmed: a request is asked for, its order is placed,
\* or it is rejected without one.
LEMMA DecidingIsPromised ==
  ASSUME NoFaults, TypeOK, BookInv, GuardInv, TruthInv, TypeOK', GuardInv', NEW c \in ClientIds,
         BeginExecute(c) \/ Prepare(c) \/ CreateStep(c)
  PROVE  [Promise!Next]_(Promise!vars)
<1> USE DEF exchangeVars, orderVars, fateVars, callVars
<1>1. \A a \in 1..MaxAttempts : ~Placed(<<c, a>>)
  BY NothingPlacedYet DEF BeginExecute, Prepare, CreateStep, CreateAccepted, CreateRefused,
         CreateDuplicated, CreateUnanswered, CreateGarbled, BookInv, Deciding
<1>2. status[c] \in Statuses /\ attempt[c] \in 1..MaxAttempts /\ Identifier(c) \in Ids
  BY IdentifierType DEF TypeOK, OrderTypeOK
<1>3. Side(exch[Identifier(c)]) = "absent"
  BY <1>1, <1>2 DEF Identifier, Placed, Side
<1>6. c \notin early /\ early' = early
  BY DEF BeginExecute, Prepare, CreateStep, CreateAccepted, CreateRefused, CreateDuplicated,
         CreateUnanswered, CreateGarbled, BookInv, Deciding, TruthInv, Truth
<1>4. CASE BeginExecute(c)
  <2>1. /\ exch' = exch /\ status' = [status EXCEPT ![c] = "NEW"]
        /\ attempt' = [attempt EXCEPT ![c] = 1] /\ c \notin processed
    BY <1>4 DEF BeginExecute
  <2>2. status[c] \in {"none", "NEW", "REJECTED"}
    BY <1>2, <2>1 DEF BookInv, Statuses
  <2>3. Identifier(c)' = <<c, 1>> /\ Side(exch'[<<c, 1>>]) = "absent"
    BY <1>1, <1>2, <2>1 DEF Identifier, Placed, Side, TypeOK, OrderTypeOK
  <2>4. Verdict(status[c], c, early) \in {"nothing", "asked", "rejected"} /\ Verdict(status'[c], c, early') = "asked"
    BY <1>6, <2>1, <2>2 DEF Verdict, TypeOK, OrderTypeOK
  <2>5. Allowed(Side(exch[Identifier(c)]), Verdict(status[c], c, early), Side(exch'[Identifier(c)']),
                Verdict(status'[c], c, early'))
    BY <1>3, <2>3, <2>4 DEF Allowed
  <2>6. \A d \in ClientIds \ {c} : status'[d] = status[d] /\ attempt'[d] = attempt[d]
    BY <2>1 DEF TypeOK, OrderTypeOK
  <2> QED
    BY <1>6, <2>1, <2>5, <2>6, AllowedIsPromised
<1>5. CASE Prepare(c) \/ CreateStep(c)
  <2>1. status[c] = "NEW" /\ Verdict(status[c], c, early) = "asked"
    BY <1>5 DEF Prepare, CreateStep, CreateAccepted, CreateRefused, CreateDuplicated,
           CreateUnanswered, CreateGarbled, BookInv, Deciding, Verdict
  <2>2. \A e \in {"none", "refused", exch[Identifier(c)]} : Side(e) = "absent"
    BY <1>3 DEF Side
  \* The call is rejected; the identifier may be burnt.
  <2>3. ASSUME NEW e \in {"none", "refused", exch[Identifier(c)]},
               exch' = [exch EXCEPT ![Identifier(c)] = e], attempt' = attempt, Return(c, "REJECTED")
        PROVE  [Promise!Next]_(Promise!vars)
    <3>1. Allowed(Side(exch[Identifier(c)]), Verdict(status[c], c, early), Side(e), Verdict("REJECTED", c, early'))
      BY <1>6, <1>3, <2>1, <2>2 DEF Allowed, Verdict
    <3> QED
      BY <1>6, <2>3, <3>1, EntryIsPromised DEF Return, Statuses
  \* An order was made, or was not.
  <2>4. ASSUME NEW e \in {"none", "refused", "wait", exch[Identifier(c)]},
               NEW w \in {"NEW", "SUBMITTED"}, status' = [status EXCEPT ![c] = w],
               exch' = [exch EXCEPT ![Identifier(c)] = e], attempt' = attempt
        PROVE  [Promise!Next]_(Promise!vars)
    <3>1. Side(e) \in {"absent", "live"} /\ Verdict(w, c, early') = "asked"
      BY <2>2 DEF Side, Verdict
    <3>2. Allowed(Side(exch[Identifier(c)]), Verdict(status[c], c, early), Side(e), Verdict(w, c, early'))
      BY <1>3, <2>1, <3>1 DEF Allowed
    <3> QED
      BY <1>6, <2>4, <3>2, EntryIsPromised DEF Statuses
  <2>5. exch' = exch => exch' = [exch EXCEPT ![Identifier(c)] = exch[Identifier(c)]]
    BY DEF TypeOK, ExchangeTypeOK
  <2>6. status' = status => status' = [status EXCEPT ![c] = "NEW"]
    BY <2>1 DEF TypeOK, OrderTypeOK
  <2>7. CASE Prepare(c)
    BY <1>6, <2>3, <2>5, <2>7, StillIsPromised DEF Prepare
  <2>8. CASE CreateAccepted(c)
    BY <2>4, <2>8 DEF CreateAccepted, Watch
  <2>9. CASE CreateRefused(c)
    <3>1. PICK e \in {"none", "refused"} : exch' = [exch EXCEPT ![Identifier(c)] = e]
      BY <2>9 DEF CreateRefused, NoFaults
    <3> QED
      BY <2>3, <2>9, <3>1 DEF CreateRefused
  <2>10. CASE CreateDuplicated(c)
    BY <1>6, <2>3, <2>5, <2>10, StillIsPromised DEF CreateDuplicated
  <2>11. CASE CreateUnanswered(c)
    <3>1. PICK e \in {"none", "refused", "wait", exch[Identifier(c)]} :
            exch' = [exch EXCEPT ![Identifier(c)] = e]
      BY <2>5, <2>11 DEF CreateUnanswered, NoFaults
    <3> QED
      BY <2>4, <2>6, <2>11, <3>1 DEF CreateUnanswered
  <2>12. CASE CreateGarbled(c)
    BY <2>12 DEF CreateGarbled, NoFaults
  <2> QED
    BY <1>5, <2>7, <2>8, <2>9, <2>10, <2>11, <2>12 DEF CreateStep
<1> QED
  BY <1>4, <1>5

\* Lookups of an order whose request was not answered: rejected only when the
\* exchange does not have it.
LEMMA LookingIsPromised ==
  ASSUME TypeOK, BookInv, GuardInv, TruthInv, TypeOK', GuardInv', NEW c \in ClientIds, LookupStep(c)
  PROVE  [Promise!Next]_(Promise!vars)
<1> USE ConstantsAssumption
<1> USE DEF exchangeVars, orderVars, fateVars, callVars
<1>1. cid = c /\ step = "confirm" /\ UNCHANGED <<exch, attempt, early>>
  BY DEF LookupStep, LookupFinds, LookupMissing, LookupFails, LookupEmpty
<1>5. c \notin early
  BY <1>1 DEF TruthInv, Truth, BookInv, Deciding
<1>2. Verdict(status[c], c, early) = "asked"
  BY <1>1 DEF BookInv, Deciding, Verdict
<1>3. CASE LookupFinds(c)
  <2>1. status' = [status EXCEPT ![c] = "SUBMITTED"]
    BY <1>3 DEF LookupFinds, Watch
  <2>2. Allowed(Side(exch[Identifier(c)]), Verdict(status[c], c, early), Side(exch[Identifier(c)]),
                Verdict("SUBMITTED", c, early'))
    BY <1>2 DEF Allowed, Verdict
  <2> QED
    BY <1>1, <2>1, <2>2, VerdictIsPromised DEF Statuses
<1>4. ASSUME NEW absent \in BOOLEAN, LookupEmpty(c, absent),
             absent => exch[Identifier(c)] \notin InBook
      PROVE  [Promise!Next]_(Promise!vars)
  <2>1. CASE status' = status
    BY <1>1, <2>1, StillIsPromised
  <2>2. CASE Return(c, "UNKNOWN")
    <3>1. Allowed(Side(exch[Identifier(c)]), Verdict(status[c], c, early), Side(exch[Identifier(c)]),
                  Verdict("UNKNOWN", c, early'))
      BY <1>2 DEF Allowed, Verdict
    <3> QED
      BY <1>1, <2>2, <3>1, VerdictIsPromised DEF Return, Statuses
  <2>3. CASE /\ Return(c, "REJECTED")
             /\ missing + (IF absent THEN 1 ELSE 0) = LookupAttempts
    <3>1. exch[Identifier(c)] \in InBook => ~absent /\ missing = 0
      BY <1>1, <1>4 DEF GuardInv
    <3>2. exch[Identifier(c)] \notin InBook /\ exch[Identifier(c)] # "transit"
      BY <2>3, <3>1, IdentifierType DEF GuardInv, TypeOK
    <3>3. Side(exch[Identifier(c)]) = "absent"
      BY <3>2 DEF Side, InBook
    <3>4. Allowed(Side(exch[Identifier(c)]), Verdict(status[c], c, early), Side(exch[Identifier(c)]),
                  Verdict("REJECTED", c, early'))
      BY <1>1, <1>2, <1>5, <3>3 DEF Allowed, Verdict
    <3> QED
      BY <1>1, <2>3, <3>4, VerdictIsPromised DEF Return, Statuses
  <2> QED
    BY <1>4, <2>1, <2>2, <2>3 DEF LookupEmpty
<1> QED
  BY <1>3, <1>4 DEF LookupStep, LookupMissing, LookupFails

\* Watching an order and resolving one: no verdict, or rejected because the
\* exchange never had it.  A cancel may close the order.
LEMMA WatchingIsPromised ==
  ASSUME NoFaults, TypeOK, BookInv, GuardInv, TruthInv, TypeOK', GuardInv', NEW c \in ClientIds,
         WatchStep(c) \/ BeginResolve(c) \/ ResolveStep(c)
  PROVE  [Promise!Next]_(Promise!vars)
<1> USE DEF exchangeVars, orderVars, fateVars, callVars
<1>1. status[c] \in {"SUBMITTED", "UNKNOWN"} /\ Identifier(c) \in Ids
  BY IdentifierType DEF WatchStep, Poll, CancelUnfilled, ReadAfterCancel, WatchFails,
         RefreshTrades, BeginResolve, ResolveStep, ResolveFails, ResolveMissing, ResolveOpen,
         ResolveFinal, BookInv, Watching, TypeOK
<1>2. Verdict(status[c], c, early) \in {"asked", "unknown"}
  BY <1>1 DEF Verdict
<1>8. c \notin early /\ early' = early
  BY <1>1 DEF TruthInv, Truth, WatchStep, Poll, CancelUnfilled, ReadAfterCancel, WatchFails,
         RefreshTrades, BeginResolve, ResolveStep, ResolveFails, ResolveMissing, ResolveOpen,
         ResolveFinal
\* The call ends without a verdict, after a cancel or not.
<1>3. ASSUME UNCHANGED exch \/ TryCancel(Identifier(c)), attempt' = attempt,
             Return(c, "UNKNOWN")
      PROVE  [Promise!Next]_(Promise!vars)
  <2>1. CASE exch' = exch
    <3>1. Allowed(Side(exch[Identifier(c)]), Verdict(status[c], c, early), Side(exch[Identifier(c)]),
                  Verdict("UNKNOWN", c, early'))
      BY <1>8, <1>2 DEF Allowed, Verdict
    <3> QED
      BY <1>8, <1>3, <2>1, <3>1, VerdictIsPromised DEF Return, Statuses
  <2>2. CASE exch' # exch
    <3>1. exch[Identifier(c)] = "wait" /\ exch' = [exch EXCEPT ![Identifier(c)] = "cancel"]
      BY <1>3, <2>2 DEF TryCancel
    <3>2. Allowed(Side(exch[Identifier(c)]), Verdict(status[c], c, early), Side("cancel"), Verdict("UNKNOWN", c, early'))
      BY <1>8, <1>2, <3>1 DEF Allowed, Verdict, Side
    <3> QED
      BY <1>8, <1>3, <3>1, <3>2, EntryIsPromised DEF Return, Statuses
  <2> QED
    BY <2>1, <2>2
<1>4. CASE CancelUnfilled(c)
  <2>1. TryCancel(Identifier(c)) /\ UNCHANGED <<status, attempt>>
    BY <1>4 DEF CancelUnfilled
  <2>2. CASE exch' = exch
    BY <1>8, <2>1, <2>2, StillIsPromised
  <2>3. CASE exch' # exch
    <3>1. exch[Identifier(c)] = "wait" /\ exch' = [exch EXCEPT ![Identifier(c)] = "cancel"]
      BY <2>1, <2>3 DEF TryCancel
    <3>2. status' = [status EXCEPT ![c] = status[c]] /\ status[c] \in Statuses
      BY <2>1 DEF TypeOK, OrderTypeOK
    <3>3. Allowed(Side(exch[Identifier(c)]), Verdict(status[c], c, early), Side("cancel"), Verdict(status[c], c, early))
      BY <1>8, <3>1 DEF Allowed, Side
    <3> QED
      BY <1>8, <2>1, <3>1, <3>2, <3>3, EntryIsPromised
  <2> QED
    BY <2>2, <2>3
<1>5. CASE Poll(c) \/ ReadAfterCancel(c) \/ RefreshTrades(c) \/ BeginResolve(c) \/ ResolveFinal(c)
  <2>1. UNCHANGED <<exch, status>>
    BY <1>5 DEF Poll, ReadAfterCancel, RefreshTrades, BeginResolve, ResolveFinal
  <2> QED
    BY <1>8, <2>1, StillIsPromised
<1>6. CASE WatchFails(c) \/ ResolveFails(c) \/ ResolveOpen(c)
  BY <1>3, <1>6 DEF WatchFails, ResolveFails, ResolveOpen
<1>7. CASE ResolveMissing(c)
  <2>1. exch[Identifier(c)] \notin InBook /\ exch[Identifier(c)] # "transit"
    BY <1>1, <1>7 DEF ResolveMissing, GuardInv
  <2>2. Allowed(Side(exch[Identifier(c)]), Verdict(status[c], c, early), Side(exch[Identifier(c)]),
                Verdict("REJECTED", c, early'))
    BY <1>8, <1>2, <2>1 DEF Allowed, Verdict, Side, InBook
  <2> QED
    BY <1>8, <1>7, <2>2, VerdictIsPromised DEF ResolveMissing, Return, Statuses
<1> QED
  BY <1>4, <1>5, <1>6, <1>7 DEF WatchStep, ResolveStep

\* The verdict on what was read: the order is closed by then, or the verdict of
\* execute is an early one.
LEMMA ApplyingIsPromised ==
  ASSUME TypeOK, BookInv, GuardInv, TruthInv, TypeOK', GuardInv', NEW c \in ClientIds, ApplyStep(c)
  PROVE  [Promise!Next]_(Promise!vars)
<1> USE DEF exchangeVars, orderVars, fateVars, callVars
<1>1. cid = c /\ step = "trades" /\ UNCHANGED <<exch, attempt>>
  BY DEF ApplyStep, ApplyNothing, ApplyUnpriced, ApplyFill, ApplyImpossible, ReadyToApply
<1>2. PICK r \in {"CANCELLED", "REJECTED", "UNKNOWN", "PARTIAL", "FILLED"} :
        /\ Return(c, r)
        /\ early' = IF r = "UNKNOWN" \/ IsFinal(seen) THEN early ELSE early \cup {c}
  BY DEF ApplyStep, ApplyNothing, ApplyUnpriced, ApplyFill, ApplyImpossible, Settling
<1>3. status[c] \in {"SUBMITTED", "UNKNOWN"} /\ c \notin early
  BY <1>1 DEF BookInv, Watching, TruthInv, Truth
<1>4. Verdict(status[c], c, early) = IF status[c] = "UNKNOWN" THEN "unknown" ELSE "asked"
  BY <1>3 DEF Verdict
<1>5. /\ exch[Identifier(c)] \in InBook
      /\ IsFinal(seen) => exch[Identifier(c)] # "wait"
      /\ ~IsFinal(seen) => status[c] # "UNKNOWN"
  BY <1>1 DEF TruthInv, Truth
<1>6. Side(exch[Identifier(c)]) = IF exch[Identifier(c)] = "wait" THEN "live" ELSE "closed"
  BY <1>5 DEF Side, InBook
<1>7. CASE r = "UNKNOWN"
  <2>1. Verdict(r, c, early') = "unknown"
    BY <1>7 DEF Verdict
  <2>2. Allowed(Side(exch[Identifier(c)]), Verdict(status[c], c, early),
                Side(exch[Identifier(c)]), Verdict(r, c, early'))
    BY <1>4, <2>1 DEF Allowed
  <2> QED
    BY <1>1, <1>2, <1>7, <2>2, VerdictIsPromised DEF Return, Statuses
<1>8. CASE r # "UNKNOWN" /\ IsFinal(seen)
  <2>1. Verdict(r, c, early') \in {"rejected", "filled"}
    BY <1>2, <1>3, <1>8 DEF Verdict
  <2>2. Allowed(Side(exch[Identifier(c)]), Verdict(status[c], c, early),
                Side(exch[Identifier(c)]), Verdict(r, c, early'))
    BY <1>4, <1>5, <1>6, <1>8, <2>1 DEF Allowed
  <2> QED
    BY <1>1, <1>2, <1>8, <2>2, VerdictIsPromised DEF Return, Statuses
<1>9. CASE r # "UNKNOWN" /\ ~IsFinal(seen)
  <2>1. Verdict(r, c, early') = "early"
    BY <1>2, <1>9 DEF Verdict
  <2>2. Allowed(Side(exch[Identifier(c)]), Verdict(status[c], c, early),
                Side(exch[Identifier(c)]), Verdict(r, c, early'))
    BY <1>4, <1>5, <1>6, <1>9, <2>1 DEF Allowed
  <2> QED
    BY <1>1, <1>2, <1>9, <2>2, VerdictIsPromised DEF Return, Statuses
<1> QED
  BY <1>7, <1>8, <1>9

\* The exchange closes an order that is open.
LEMMA ExchangeIsPromised ==
  ASSUME TypeOK, GuardInv, TypeOK', GuardInv', NEW id \in Ids, ExchangeStep(id)
  PROVE  [Promise!Next]_(Promise!vars)
<1>1. PICK c \in ClientIds, a \in 1..MaxAttempts : id = <<c, a>>
  BY DEF Ids
<1>2. exch[id] = "wait" /\ UNCHANGED <<status, attempt, early>>
  BY DEF ExchangeStep, Arrive, Match, StopShort, GuardInv, orderVars, fateVars, callVars
<1>3. PICK e \in InBook : exch' = [exch EXCEPT ![id] = e]
  BY <1>2 DEF ExchangeStep, Arrive, Match, StopShort, InBook
<1>4. id = Identifier(c)
  BY <1>1, <1>2 DEF GuardInv, OrderKeepsItsHandle, Placed, Identifier
<1>5. status' = [status EXCEPT ![c] = status[c]] /\ status[c] \in Statuses
  BY <1>2 DEF TypeOK, OrderTypeOK
<1>6. Allowed(Side(exch[Identifier(c)]), Verdict(status[c], c, early), Side(e), Verdict(status[c], c, early))
  BY <1>2, <1>4 DEF Allowed, Side, InBook, Verdict
<1> QED
  BY <1>2, <1>3, <1>4, <1>5, <1>6, EntryIsPromised

\* Without faults every step is one of OrderPromise or a stutter.
LEMMA PromiseStep ==
  ASSUME NoFaults, TypeOK, BookInv, GuardInv, TruthInv, TypeOK', GuardInv', [Next]_vars
  PROVE  [Promise!Next]_(Promise!vars)
<1>1. CASE UNCHANGED vars
  BY <1>1, StillIsPromised DEF vars, exchangeVars, orderVars, fateVars
<1>2. ASSUME NEW c \in ClientIds, RejectDuplicate(c) \/ GiveUp(c)
      PROVE  [Promise!Next]_(Promise!vars)
  BY <1>2, StillIsPromised DEF RejectDuplicate, GiveUp, exchangeVars, fateVars
<1> QED
  BY <1>1, <1>2, DecidingIsPromised, LookingIsPromised, WatchingIsPromised, ApplyingIsPromised,
     ExchangeIsPromised DEF Next, CallStep

\* KeepsPromise: without faults execute and resolve_order implement
\* OrderPromise, for any number of requests, attempts, lookups and polls.
THEOREM RequestsKeepPromise == ASSUME NoFaults PROVE Spec => KeepsPromise
<1>1. Init => Promise!Init
  <2> SUFFICES ASSUME Init PROVE Promise!Init
    OBVIOUS
  <2>1. ASSUME NEW c \in ClientIds PROVE PlacedAs(c) = "absent" /\ ToldAs(c) = "nothing"
    <3>1. \A e \in {exch[<<c, a>>] : a \in 1..MaxAttempts} : e = "none"
      BY DEF Init, Ids
    <3> QED
      BY <3>1 DEF Init, PlacedAs, ToldAs
  <2> QED
    BY <2>1 DEF Promise!Init
<1>2. TypeOK /\ BookInv /\ GuardInv /\ TruthInv /\ TypeOK' /\ GuardInv' /\ [Next]_vars
      => [Promise!Next]_(Promise!vars)
  BY PromiseStep
<1>3. TypeOK /\ BookInv /\ GuardInv /\ TruthInv /\ [Next]_vars => TruthInv'
  BY TruthStep
<1>4. Spec => []GuardInv
  BY NoFaultDecides, GuardInvariance
<1> QED
  BY Typing, BookingInvariance, TruthInit, <1>1, <1>2, <1>3, <1>4, PTL
     DEF Spec, KeepsPromise, Promise!Spec

=============================================================================
