---------------------------- MODULE OrderPromise ----------------------------
(***************************************************************************)
(* What LiveBroker.execute and resolve_order promise the engine about one  *)
(* request, whatever happens on the way: at most one order reaches the     *)
(* exchange, only while the request is being executed, and a verdict that  *)
(* settles the request is given once: when the exchange is done with it,   *)
(* or, by execute alone, early, and then it says nothing about the order.  *)
(* OrderExecution and LiveTrading are both shown to keep this promise.     *)
(***************************************************************************)

CONSTANT Requests

VARIABLES
  placed,  \* the exchange's side: "absent", "live" or "closed"
  told     \* the verdict: "nothing" yet, "asked", "unknown", "filled", "rejected",
           \* or "early": settled on a reading of the order that was still open

vars == <<placed, told>>

Init ==
  /\ placed = [r \in Requests |-> "absent"]
  /\ told   = [r \in Requests |-> "nothing"]

\* A request that was rejected without an order may be made again.
Ask(r) ==
  /\ told[r] \in {"nothing", "rejected"} /\ placed[r] = "absent"
  /\ told' = [told EXCEPT ![r] = "asked"]
  /\ UNCHANGED placed

Place(r) ==
  /\ told[r] = "asked" /\ placed[r] = "absent"
  /\ placed' = [placed EXCEPT ![r] = "live"]
  /\ UNCHANGED told

Close(r) ==
  /\ placed[r] = "live"
  /\ placed' = [placed EXCEPT ![r] = "closed"]
  /\ UNCHANGED told

\* No verdict yet.  The cancel that was asked for may have closed the order.
StayUnknown(r) ==
  /\ told[r] \in {"asked", "unknown"}
  /\ told' = [told EXCEPT ![r] = "unknown"]
  /\ UNCHANGED placed \/ (placed[r] = "live" /\ placed' = [placed EXCEPT ![r] = "closed"])

\* A verdict that settles: a fill only of an order that is closed, a rejection
\* never of an order that is live.
Settle(r) ==
  /\ told[r] \in {"asked", "unknown"}
  /\ \/ placed[r] = "closed" /\ told' = [told EXCEPT ![r] = "filled"]
     \/ placed[r] # "live" /\ told' = [told EXCEPT ![r] = "rejected"]
  /\ UNCHANGED placed

\* The cancel after the time-out failed or is slow, and the one reading after it
\* shows the order open: whether it is still live, and what becomes of it, is not
\* said, and no later call says it.
SettleEarly(r) ==
  /\ told[r] = "asked" /\ placed[r] # "absent"
  /\ told' = [told EXCEPT ![r] = "early"]
  /\ UNCHANGED placed

Next ==
  \E r \in Requests :
    \/ Ask(r) \/ Place(r) \/ Close(r)
    \/ StayUnknown(r) \/ Settle(r) \/ SettleEarly(r)

Spec == Init /\ [][Next]_vars

=============================================================================
