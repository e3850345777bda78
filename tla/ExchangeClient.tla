--------------------------- MODULE ExchangeClient ---------------------------
(* The REST client (app/exchange/upbit_client.py) and the rate limiter it     *)
(* shares with other clients (app/exchange/rate_limiter.py), seen from the    *)
(* coroutines that call it: every caller sends GET requests of one limit      *)
(* group.  A module that composes it supplies the callers' own steps.         *)
(*                                                                            *)
(* Time is counted in ticks of half a second; nothing is urgent, a sleeper    *)
(* may wake late.  Ages and waits are kept instead of clock readings, so that *)
(* the state space is finite without a bound on time.                         *)
EXTENDS Naturals, Sequences, FiniteSets

CONSTANTS
  Callers,          \* the coroutines that use the limiter
  Limit,            \* SlidingWindowLimiter.limit (rate_limiter.py:155-159)
  Per,              \* rule.per_seconds, in ticks
  Penalty,          \* wait after a 429, and after sec=0 (exhausted_cooldown)
  BlockedCooldown,  \* wait after a 418
  BaseDelay,        \* retry_base_delay
  MaxDelay,         \* the longest backoff (8 s in _retry_delay)
  MaxRetries,       \* max_retries
  MaxTroubles       \* bound: bad answers in a behaviour

ASSUME ClientAssumption ==
  /\ Limit \in Nat \ {0}
  /\ Per \in Nat \ {0}
  /\ {Penalty, BlockedCooldown, BaseDelay, MaxDelay} \subseteq Nat \ {0}
  /\ {MaxRetries, MaxTroubles} \subseteq Nat

VARIABLES
  call,      \* per caller: where its _request stands, the attempt, the sleep
  line,      \* the limiter's asyncio.Lock: its holder and the waiters, in order
  events,    \* _events: the age of every granted request, the oldest first
  blocked,   \* _blocked_until, as the ticks that remain
  quiet,     \* history: ticks for which the exchange has asked for silence
  recent,    \* history: the ages of the requests really sent
  forgotten, \* history: ticks until neither holds what a restart made the client forget
  troubles   \* bad answers so far

clientVars == <<call, line, events, blocked, quiet, recent, forgotten, troubles>>

Steps == {"idle", "acquire", "flight", "backoff", "answered", "failed"}

Longer(a, b) == IF a > b THEN a ELSE b
Shorter(a, b) == IF a < b THEN a ELSE b

Idle == [step |-> "idle", attempt |-> 0, wake |-> 0]

(* _evict: the oldest are taken off until one is within the window.  Ages     *)
(* stop growing at Per.                                                       *)
Young(ages) == {i \in DOMAIN ages : ages[i] < Per}

Evicted(s) ==
  LET young == Young(s)
  IN IF young = {} THEN <<>>
     ELSE SubSeq(s, CHOOSE i \in young : \A j \in young : i <= j, Len(s))

Older(s) == [i \in DOMAIN s |-> Shorter(s[i] + 1, Per)]

ClientInit ==
  /\ call = [c \in Callers |-> Idle]
  /\ line = <<>>
  /\ events = <<>> /\ recent = <<>>
  /\ blocked = 0 /\ quiet = 0 /\ forgotten = 0
  /\ troubles = 0

(* c joins the limiter's lock: acquire, line 177.                             *)
Queue(c, attempt) ==
  /\ call' = [call EXCEPT ![c] = [step |-> "acquire", attempt |-> attempt, wake |-> 0]]
  /\ line' = Append(line, c)

(* A call of _request begins.                                                 *)
Ask(c) ==
  /\ call[c].step \in {"idle", "answered"}
  /\ Queue(c, 1)
  /\ UNCHANGED <<events, blocked, quiet, recent, forgotten, troubles>>

(* The holder of the lock looks at the window: it sleeps, still holding the   *)
(* lock, while the group is blocked or the window full, and looks again.      *)
\* A mutant of Delay: a block matters only when the window is full.
DelayWindowFirst(kept) ==
  IF Len(kept) < Limit THEN 0 ELSE Longer(blocked, Per - Head(kept))

Delay(kept) ==
  IF blocked > 0 THEN blocked
  ELSE IF Len(kept) < Limit THEN 0
  ELSE Per - Head(kept)

Look(c) ==
  LET kept == Evicted(events)
      wait == Delay(kept)
  IN /\ line # <<>> /\ c = Head(line)
     /\ call[c].step = "acquire" /\ call[c].wake = 0
     /\ IF wait > 0
        THEN /\ call' = [call EXCEPT ![c].wake = wait]
             /\ events' = kept
             /\ UNCHANGED <<line, recent>>
        ELSE /\ call' = [call EXCEPT ![c].step = "flight"]
             /\ events' = Append(kept, 0)
             /\ recent' = Append(Evicted(recent), 0)
             /\ line' = Tail(line)
     /\ UNCHANGED <<blocked, quiet, forgotten, troubles>>

(* block_for: a shorter wait never replaces a longer one.                     *)
BlockFor(ticks) == blocked' = Longer(blocked, ticks)

Silence(ticks) ==
  /\ BlockFor(ticks)
  /\ quiet' = Longer(quiet, ticks)

Conclude(c, step) == call' = [call EXCEPT ![c] = [Idle EXCEPT !.step = step]]

RetryDelay(attempt) == Shorter(BaseDelay * 2^(attempt - 1), MaxDelay)

(* A retryable error: another attempt of a GET after a sleep, or the end.     *)
RetryOrFail(c, delay) ==
  IF call[c].attempt <= MaxRetries
  THEN call' = [call EXCEPT ![c].step = "backoff", ![c].wake = delay]
  ELSE Conclude(c, "failed")

(* The exchange answers; a page that is fine, perhaps with sec=0 in the       *)
(* Remaining-Req header.                                                      *)
AnswerGood(c) ==
  /\ call[c].step = "flight"
  /\ Conclude(c, "answered")
  /\ UNCHANGED <<line, events, blocked, quiet, recent, forgotten, troubles>>

AnswerLast(c) ==
  /\ call[c].step = "flight" /\ troubles < MaxTroubles
  /\ Conclude(c, "answered")
  /\ Silence(Penalty)
  /\ troubles' = troubles + 1
  /\ UNCHANGED <<line, events, recent, forgotten>>

Trouble(c) ==
  /\ call[c].step = "flight" /\ troubles < MaxTroubles
  /\ troubles' = troubles + 1
  /\ UNCHANGED <<line, events, recent, forgotten>>

(* 429: the group is penalised and the request retried after the same wait.   *)
AnswerTooMany(c) ==
  /\ Trouble(c)
  /\ Silence(Penalty)
  /\ RetryOrFail(c, Penalty)

(* 418: the group is closed for the time of the block; no retry.              *)
AnswerBlocked(c) ==
  /\ Trouble(c)
  /\ Silence(BlockedCooldown)
  /\ Conclude(c, "failed")

(* No answer in time, a broken connection or a 5xx.                           *)
AnswerNone(c) ==
  /\ Trouble(c)
  /\ RetryOrFail(c, RetryDelay(call[c].attempt))
  /\ UNCHANGED <<blocked, quiet>>

(* Another 4xx, or a body that cannot be read.                                *)
AnswerRefused(c) ==
  /\ Trouble(c)
  /\ Conclude(c, "failed")
  /\ UNCHANGED <<blocked, quiet>>

Answer(c) ==
  \/ AnswerGood(c) \/ AnswerLast(c) \/ AnswerTooMany(c)
  \/ AnswerBlocked(c) \/ AnswerNone(c) \/ AnswerRefused(c)

(* The sleep between two attempts is over.                                    *)
TryAgain(c) ==
  /\ call[c].step = "backoff" /\ call[c].wake = 0
  /\ Queue(c, call[c].attempt + 1)
  /\ UNCHANGED <<events, blocked, quiet, recent, forgotten, troubles>>

(* The caller is cancelled at whatever await it stands: it leaves the lock,   *)
(* held or waited for.  A request in flight stays counted.                    *)
WithoutCaller(c) == SelectSeq(line, LAMBDA other : other # c)

\* A mutant of Abandon: the cancelled caller keeps its place in the lock.
AbandonLocked(c) ==
  /\ call' = [call EXCEPT ![c] = Idle]
  /\ UNCHANGED <<line, events, blocked, quiet, recent, forgotten, troubles>>

Abandon(c) ==
  /\ call' = [call EXCEPT ![c] = Idle]
  /\ line' = WithoutCaller(c)
  /\ UNCHANGED <<events, blocked, quiet, recent, forgotten, troubles>>

(* A new process has a new limiter (line 118): the waits the exchange has     *)
(* asked for and the requests it counts are forgotten, and go on.             *)
Forget ==
  /\ call' = [c \in Callers |-> Idle]
  /\ line' = <<>> /\ events' = <<>> /\ blocked' = 0
  /\ forgotten' = Longer(quiet, IF Young(recent) = {} THEN 0 ELSE Per)
  /\ UNCHANGED <<quiet, recent, troubles>>

Less(ticks) == IF ticks = 0 THEN 0 ELSE ticks - 1

Tick ==
  /\ \/ blocked > 0 \/ quiet > 0 \/ forgotten > 0
     \/ \E c \in Callers : call[c].wake > 0
     \/ Young(events) # {}
  /\ call' = [c \in Callers |-> [call[c] EXCEPT !.wake = Less(@)]]
  /\ events' = Older(events)
  /\ recent' = Older(recent)
  /\ blocked' = Less(blocked)
  /\ quiet' = Less(quiet)
  /\ forgotten' = Less(forgotten)
  /\ UNCHANGED <<line, troubles>>

ClientTypeOK ==
  /\ call \in [Callers -> [step : Steps, attempt : 0..(MaxRetries + 1), wake : Nat]]
  /\ line \in Seq(Callers)
  /\ events \in Seq(0..Per) /\ recent \in Seq(0..Per)
  /\ {blocked, quiet, forgotten, troubles} \subseteq Nat

(* What the exchange may count on, whoever calls and whatever it has answered *)
(* to others: no request is sent while a silence it asked for lasts (429, 418 *)
(* or sec=0, even when it was asked for while the caller slept in acquire),   *)
(* and never more than Limit within a window (rate_limiter.py:176-192).  The  *)
(* client's memory is the exception: a process that began while a silence or  *)
(* a window was under way knows nothing of it.  What is asked for after that  *)
(* is kept again, and nothing is broken any more once what was forgotten is   *)
(* over.                                                                      *)
LimitsKept ==
  [][ \A c \in Callers :
        call[c].step = "acquire" /\ call'[c].step = "flight"
        => /\ quiet <= forgotten
           /\ forgotten = 0 => Cardinality(Young(recent')) <= Limit ]_clientVars
=============================================================================
