---------------------------- MODULE Notifications ----------------------------
(* The queue of notifications (app/notify/manager.py).  emit is called from   *)
(* the engine and never waits; one worker takes the events in turn and sends  *)
(* each to every channel, with retries; close waits for the queue to empty    *)
(* for a while and then gives the rest up.  An event is named by its place in *)
(* the order of the calls of emit.                                            *)
EXTENDS Naturals, Sequences, FiniteSets

CONSTANTS
  MaxEvents,     \* bound: calls of emit
  Priority,      \* the calls whose kind is one of PRIORITY_KINDS
  Unlabelled,    \* the calls whose kind has no label: EventKind.ACCOUNT
  Key,           \* per call: the cooldown key, or None
  Channels,      \* the notifiers: 1..Channels, in the order they are served
  Retries,       \* retries of a channel
  MaxQueue,      \* places of the queue
  Cooldown       \* error_cooldown_seconds, in ticks

None == "none"
Events == 1..MaxEvents
Keys == {Key[e] : e \in Events} \ {None}

ASSUME NotifyAssumption ==
  /\ {MaxEvents, Channels, MaxQueue} \subseteq Nat \ {0}
  /\ {Retries, Cooldown} \subseteq Nat
  /\ Priority \subseteq Events /\ Unlabelled \subseteq Events \ Priority
  /\ DOMAIN Key = Events

VARIABLES
  calls,        \* calls of emit so far
  queue,        \* the asyncio queue
  worker,       \* the task: not started, waiting, sending, gone
  event,        \* the event the worker has in hand, 0 for none
  channel,      \* the channel it is at
  attempt,      \* and the attempt there
  lastKeyed,    \* per key: how long it is still to be suppressed
  closing,      \* close has been called: no, draining, given up
  accepted,     \* history: the events emit put into the queue
  taken,        \* history: the events the worker has finished, in order
  dropped,      \* history: the events that made room
  lost          \* history: the events that were out of the queue when emit raised

notifyVars == <<calls, queue, worker, event, channel, attempt, lastKeyed, closing,
                accepted, taken, dropped, lost>>

NotifyInit ==
  /\ calls = 0 /\ queue = <<>>
  /\ worker = "not started" /\ event = 0 /\ channel = 0 /\ attempt = 0
  /\ lastKeyed = [k \in Keys |-> 0]
  /\ closing = "no"
  /\ accepted = {} /\ taken = <<>> /\ dropped = {} /\ lost = {}

-----------------------------------------------------------------------------
(* emit *)

InCooldown(k) == k # None /\ lastKeyed[k] > 0

Without(q, i) == SubSeq(q, 1, i - 1) \o SubSeq(q, i + 1, Len(q))

(* _evict_one: the oldest event that is not a priority one makes room, or     *)
(* else the oldest.                                                           *)
Victim(q) ==
  LET low == {i \in DOMAIN q : q[i] \notin Priority}
  IN IF low = {} THEN 1 ELSE CHOOSE i \in low : \A j \in low : i <= j

Stamp(e) == IF Key[e] = None THEN lastKeyed ELSE [lastKeyed EXCEPT ![Key[e]] = Cooldown]

Suppress(e) ==
  /\ InCooldown(Key[e])
  /\ UNCHANGED <<queue, lastKeyed, accepted, dropped, lost>>

Enqueue(e) ==
  /\ ~InCooldown(Key[e])
  /\ Len(queue) < MaxQueue
  /\ queue' = Append(queue, e)
  /\ lastKeyed' = Stamp(e)
  /\ accepted' = accepted \cup {e}
  /\ UNCHANGED <<dropped, lost>>

\* A mutant of MakeRoom: the rest of the queue is put back behind the event.
MakeRoomInFront(q, e) == <<e>> \o Without(q, Victim(q))

MakeRoom(q, e) == Append(Without(q, Victim(q)), e)

EnqueueFull(e) ==
  /\ ~InCooldown(Key[e])
  /\ Len(queue) >= MaxQueue
  /\ queue[Victim(queue)] \notin Unlabelled
  /\ queue' = MakeRoom(queue, e)
  /\ lastKeyed' = Stamp(e)
  /\ accepted' = accepted \cup {e}
  /\ dropped' = dropped \cup {queue[Victim(queue)]}
  /\ UNCHANGED lost

(* The victim has no label to write into the log: emit raises, while the rest *)
(* of the queue has been taken out and not been put back.                     *)
EmitRaises(e) ==
  /\ ~InCooldown(Key[e])
  /\ Len(queue) >= MaxQueue
  /\ queue[Victim(queue)] \in Unlabelled
  /\ queue' = <<>>
  /\ lastKeyed' = Stamp(e)
  /\ dropped' = dropped \cup {queue[Victim(queue)]}
  /\ lost' = lost \cup {queue[i] : i \in DOMAIN queue \ {Victim(queue)}}
  /\ UNCHANGED accepted

Emit ==
  /\ calls < MaxEvents
  /\ closing # "given up"
  /\ calls' = calls + 1
  /\ Suppress(calls') \/ Enqueue(calls') \/ EnqueueFull(calls') \/ EmitRaises(calls')
  /\ UNCHANGED <<worker, event, channel, attempt, closing, taken>>

-----------------------------------------------------------------------------
(* The worker *)

Start ==
  /\ worker = "not started"
  /\ closing = "no"
  /\ worker' = "waiting"
  /\ UNCHANGED <<calls, queue, event, channel, attempt, lastKeyed, closing,
                 accepted, taken, dropped, lost>>

Take ==
  /\ worker = "waiting"
  /\ queue # <<>>
  /\ event' = Head(queue) /\ queue' = Tail(queue)
  /\ worker' = "sending" /\ channel' = 1 /\ attempt' = 0
  /\ UNCHANGED <<calls, lastKeyed, closing, accepted, taken, dropped, lost>>

(* _deliver serves the channels in turn.                                      *)
ChannelOver(last) ==
  /\ worker = "sending"
  /\ attempt' = 0
  /\ IF channel < last
     THEN /\ channel' = channel + 1
          /\ UNCHANGED <<worker, event, taken>>
     ELSE /\ channel' = 0 /\ event' = 0 /\ worker' = "waiting"
          /\ taken' = Append(taken, event)
  /\ UNCHANGED <<calls, queue, lastKeyed, closing, accepted, dropped, lost>>

(* Sent, refused for good, or failed at the last attempt.                     *)
SentOrFailed ==
  /\ event \notin Unlabelled
  /\ ChannelOver(Channels)

(* A message without a label cannot be written: the first channel fails, the  *)
(* log line about it fails as well, and the other channels are not tried.     *)
Unwritable ==
  /\ event \in Unlabelled
  /\ ChannelOver(1)

(* A time-out, a 429 or a 5xx: once more, after a delay.                      *)
SendAgain ==
  /\ worker = "sending"
  /\ event \notin Unlabelled
  /\ attempt < Retries
  /\ attempt' = attempt + 1
  /\ UNCHANGED <<calls, queue, worker, event, channel, lastKeyed, closing,
                 accepted, taken, dropped, lost>>

-----------------------------------------------------------------------------
(* close *)

Close ==
  /\ closing = "no"
  /\ closing' = IF worker = "not started" THEN "given up" ELSE "draining"
  /\ UNCHANGED <<calls, queue, worker, event, channel, attempt, lastKeyed, accepted, taken,
                 dropped, lost>>

(* join returns when every event is done with, or after drain_seconds; then   *)
(* the worker is cancelled with what it has in hand.                          *)
GiveUp ==
  /\ closing = "draining"
  /\ closing' = "given up"
  /\ worker' = "gone"
  /\ UNCHANGED <<calls, queue, event, channel, attempt, lastKeyed, accepted, taken,
                 dropped, lost>>

Pass ==
  /\ \E k \in Keys : lastKeyed[k] > 0
  /\ lastKeyed' = [k \in Keys |-> IF lastKeyed[k] > 0 THEN lastKeyed[k] - 1 ELSE 0]
  /\ UNCHANGED <<calls, queue, worker, event, channel, attempt, closing, accepted,
                 taken, dropped, lost>>

NotifyNext ==
  \/ Emit
  \/ Start \/ Take \/ SentOrFailed \/ Unwritable \/ SendAgain
  \/ Close \/ GiveUp
  \/ Pass

NotifySpec == NotifyInit /\ [][NotifyNext]_notifyVars

-----------------------------------------------------------------------------
Members(q) == {q[i] : i \in DOMAIN q}
InHand == IF event = 0 THEN <<>> ELSE <<event>>
Course == taken \o InHand \o queue

(* An event that emit took in is in one place: delivered, in the worker's     *)
(* hand, waiting, dropped to make room, or lost; and however often the full   *)
(* queue is emptied and filled again, the events go out in the order they     *)
(* came in.  Lost are the rest of the queue whenever the victim is an event   *)
(* without a label: naming it raises before they are put back (manager.py     *)
(* 117).  Nothing else loses an event.                                        *)
EventsAccounted ==
  /\ \A i, j \in DOMAIN Course : i < j => Course[i] < Course[j]
  /\ accepted = Members(Course) \cup dropped \cup lost
  /\ Members(Course) \cap (dropped \cup lost) = {}
  /\ lost # {} => dropped \cap Unlabelled # {}
=============================================================================
