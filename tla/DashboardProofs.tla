--------------------------- MODULE DashboardProofs ---------------------------
(* Proofs about the dashboard: its jobs with the client they share            *)
(* (DashboardJobs), and the switches that open live trading (LiveGuard).      *)
EXTENDS Integers, DashboardJobs, LiveGuard, FiniteSetTheorems, SequenceTheorems,
        WellFoundedInduction, TLAPS

-----------------------------------------------------------------------------
(* Windows of requests *)

LEMMA ClientLimits ==
  /\ Limit \in Nat \ {0} /\ Per \in Nat \ {0}
  /\ Penalty \in Nat /\ BlockedCooldown \in Nat
  BY ClientAssumption

\* A set of numbers has a least member.
LEMMA HasLeast ==
  ASSUME NEW S \in SUBSET Nat, S # {}
  PROVE  LET least == CHOOSE i \in S : \A j \in S : i <= j
         IN  least \in S /\ \A s \in S : least <= s
<1>1. PICK x \in S : \A y \in S : ~ (<<y, x>> \in OpToRel(<, Nat))
  BY WFMin, NatLessThanWellFounded, Zenon
<1>2. \A y \in S : x <= y
  <2> SUFFICES ASSUME NEW y \in S PROVE x <= y
    OBVIOUS
  <2>1. ~ (y < x)
    BY <1>1 DEF OpToRel
  <2> QED
    BY <2>1
<1> QED
  BY <1>2

\* What is left of a window begins with the first request within it.
LEMMA EvictedIs ==
  ASSUME NEW s \in Seq(Nat)
  PROVE  \E m \in 1..Len(s) + 1 :
            /\ \A i \in 1..m - 1 : ~(s[i] < Per)
            /\ m <= Len(s) => s[m] < Per
            /\ Evicted(s) \in Seq(Nat) /\ Len(Evicted(s)) = Len(s) - m + 1
            /\ \A i \in 1..Len(s) - m + 1 : Evicted(s)[i] = s[m + i - 1]
<1> DEFINE young == {i \in DOMAIN s : s[i] < Per}
<1>1. Len(s) \in Nat /\ DOMAIN s = 1..Len(s) /\ \A i \in 1..Len(s) : s[i] \in Nat
  BY LenProperties
<1>2. CASE young = {}
  <2>1. Evicted(s) = <<>> /\ <<>> \in Seq(Nat) /\ Len(<<>>) = 0
    BY <1>2, EmptySeq DEF Evicted, Young
  <2>2. Len(s) + 1 \in 1..Len(s) + 1 /\ Len(s) - (Len(s) + 1) + 1 = 0 /\ (Len(s) + 1) - 1 = Len(s)
        /\ ~(Len(s) + 1 <= Len(s)) /\ 1..0 = {}
    BY <1>1
  <2>3. \A i \in 1..Len(s) : ~(s[i] < Per)
    BY <1>1, <1>2
  <2> HIDE DEF young
  <2> WITNESS Len(s) + 1 \in 1..Len(s) + 1
  <2> QED
    BY <2>1, <2>2, <2>3
<1>3. CASE young # {}
  <2> DEFINE m == CHOOSE i \in young : \A j \in young : i <= j
  <2>1. Evicted(s) = SubSeq(s, m, Len(s))
    BY <1>3 DEF Evicted, Young
  <2>2. young \in SUBSET Nat
    BY <1>1
  <2> HIDE DEF young
  <2>3. m \in young /\ \A j \in young : m <= j
    BY <1>3, <2>2, HasLeast
  <2> HIDE DEF m
  <2>4. m \in 1..Len(s) /\ s[m] < Per
    BY <1>1, <2>3 DEF young
  <2>5. \A i \in 1..m - 1 : ~(s[i] < Per)
    <3> SUFFICES ASSUME NEW i \in 1..m - 1, s[i] < Per PROVE FALSE
      OBVIOUS
    <3>1. i \in 1..Len(s) /\ i < m
      BY <1>1, <2>4
    <3>2. i \in young
      BY <1>1, <3>1 DEF young
    <3> QED
      BY <2>3, <2>4, <3>1, <3>2
  <2>6. m \in Int /\ Len(s) \in Int /\ \A i \in m..Len(s) : s[i] \in Nat
    BY <1>1, <2>4
  <2>7. /\ Evicted(s) \in Seq(Nat)
        /\ Len(Evicted(s)) = IF m <= Len(s) THEN Len(s) - m + 1 ELSE 0
        /\ \A i \in 1..Len(s) - m + 1 : Evicted(s)[i] = s[m + i - 1]
    BY <2>1, <2>6, SubSeqProperties
  <2>8. m \in 1..Len(s) + 1 /\ Len(Evicted(s)) = Len(s) - m + 1
    BY <1>1, <2>4, <2>7
  <2> QED
    BY <2>4, <2>5, <2>7, <2>8
<1> QED
  BY <1>2, <1>3

LEMMA OlderIs ==
  ASSUME NEW s \in Seq(Nat)
  PROVE  /\ Older(s) \in Seq(Nat) /\ Len(Older(s)) = Len(s)
         /\ \A i \in 1..Len(s) : Older(s)[i] = Shorter(s[i] + 1, Per)
         /\ \A i \in 1..Len(s) : ~(s[i] < Per) => ~(Older(s)[i] < Per)
<1>1. Len(s) \in Nat /\ DOMAIN s = 1..Len(s) /\ \A i \in 1..Len(s) : s[i] \in Nat
  BY LenProperties
<1>2. Older(s) = [i \in 1..Len(s) |-> Shorter(s[i] + 1, Per)]
  BY <1>1 DEF Older
<1>3. \A i \in 1..Len(s) : Shorter(s[i] + 1, Per) \in Nat
  BY <1>1, ClientLimits DEF Shorter
<1>4. Older(s) \in [1..Len(s) -> Nat]
  BY <1>2, <1>3
<1>5. Older(s) \in Seq(Nat) /\ Len(Older(s)) = Len(s)
  BY <1>1, <1>4, SeqDef, LenProperties
<1>6. \A i \in 1..Len(s) : Older(s)[i] = Shorter(s[i] + 1, Per)
  BY <1>2
<1>7. \A i \in 1..Len(s) : ~(s[i] < Per) => ~(Older(s)[i] < Per)
  BY <1>1, <1>6, ClientLimits DEF Shorter
<1> QED
  BY <1>5, <1>6, <1>7

\* The limiter has every request that was really sent, but for those that are
\* old, or will be once what was forgotten is over.
TrailsBy(e, r, f, d) ==
  /\ Len(r) = Len(e) + d
  /\ \A i \in 1..Len(e) : e[i] = r[d + i]
  /\ \A i \in 1..d : r[i] + f >= Per

Trails(e, r, f) == \E d \in Nat : TrailsBy(e, r, f, d)

LEMMA TrailsOlder ==
  ASSUME NEW e \in Seq(Nat), NEW r \in Seq(Nat), NEW f \in Nat, Trails(e, r, f)
  PROVE  Trails(Older(e), Older(r), Less(f))
<1>1. PICK d \in Nat : TrailsBy(e, r, f, d)
  BY DEF Trails
<1>2. Len(e) \in Nat /\ Len(r) \in Nat
  BY LenProperties
<1>3. \A i \in 1..Len(e) : d + i \in 1..Len(r)
  BY <1>1, <1>2 DEF TrailsBy
<1>4. \A i \in 1..d : i \in 1..Len(r) /\ r[i] \in Nat
  BY <1>1, <1>2, ElementOfSeq DEF TrailsBy
<1>5. TrailsBy(Older(e), Older(r), Less(f), d)
  <2>1. /\ Len(Older(e)) = Len(e) /\ Len(Older(r)) = Len(r)
        /\ \A i \in 1..Len(e) : Older(e)[i] = Shorter(e[i] + 1, Per)
        /\ \A i \in 1..Len(r) : Older(r)[i] = Shorter(r[i] + 1, Per)
    BY OlderIs
  <2>2. \A i \in 1..Len(e) : Older(e)[i] = Older(r)[d + i]
    BY <1>1, <1>3, <2>1 DEF TrailsBy
  <2>3. ASSUME NEW i \in 1..d PROVE Older(r)[i] + Less(f) >= Per
    <3>1. Older(r)[i] = Shorter(r[i] + 1, Per) /\ r[i] + f >= Per /\ r[i] \in Nat
      BY <1>1, <1>4, <2>1, <2>3 DEF TrailsBy
    <3> QED
      BY <3>1, ClientLimits DEF Shorter, Less
  <2> QED
    BY <1>1, <2>1, <2>2, <2>3 DEF TrailsBy
<1> QED
  BY <1>5 DEF Trails

\* What is left of the window begins, for the exchange, no later than for the
\* limiter; at the same request when nothing is forgotten.
LEMMA TrailsEvicted ==
  ASSUME NEW e \in Seq(Nat), NEW r \in Seq(Nat), NEW f \in Nat, Trails(e, r, f)
  PROVE  /\ Trails(Evicted(e), r, f)
         /\ Trails(Evicted(e), Evicted(r), f)
         /\ f = 0 => Evicted(r) = Evicted(e)
<1>1. PICK d \in Nat : TrailsBy(e, r, f, d)
  BY DEF Trails
<1>2. /\ Len(e) \in Nat /\ Len(r) \in Nat /\ Len(r) = Len(e) + d
      /\ \A i \in 1..Len(e) : e[i] \in Nat
      /\ \A i \in 1..Len(r) : r[i] \in Nat
  BY <1>1, LenProperties, ElementOfSeq DEF TrailsBy
<1>3. PICK m \in 1..Len(e) + 1 :
            /\ \A i \in 1..m - 1 : ~(e[i] < Per)
            /\ m <= Len(e) => e[m] < Per
            /\ Evicted(e) \in Seq(Nat) /\ Len(Evicted(e)) = Len(e) - m + 1
            /\ \A i \in 1..Len(e) - m + 1 : Evicted(e)[i] = e[m + i - 1]
  BY EvictedIs
<1>4. PICK n \in 1..Len(r) + 1 :
            /\ \A i \in 1..n - 1 : ~(r[i] < Per)
            /\ n <= Len(r) => r[n] < Per
            /\ Evicted(r) \in Seq(Nat) /\ Len(Evicted(r)) = Len(r) - n + 1
            /\ \A i \in 1..Len(r) - n + 1 : Evicted(r)[i] = r[n + i - 1]
  BY EvictedIs
<1>5. n <= d + m
  <2> SUFFICES ASSUME d + m < n PROVE FALSE
    BY <1>3, <1>4
  <2>1. m <= Len(e) /\ m \in 1..Len(e) /\ d + m \in 1..n - 1
    BY <1>2, <1>3, <1>4
  <2>2. e[m] < Per /\ e[m] = r[d + m]
    BY <1>1, <1>3, <2>1 DEF TrailsBy
  <2> QED
    BY <1>4, <2>1, <2>2
\* All before the first young request of the limiter is old or forgotten.
<1>6. ASSUME NEW i \in 1..d + m - 1 PROVE r[i] + f >= Per /\ r[i] \in Nat
  <2>1. r[i] \in Nat
    BY <1>2, <1>3
  <2>2. CASE i <= d
    <3>1. i \in 1..d
      BY <2>2
    <3> QED
      BY <1>1, <2>1, <3>1 DEF TrailsBy
  <2>3. CASE d < i
    <3>1. i - d \in 1..m - 1 /\ i - d \in 1..Len(e) /\ d + (i - d) = i
      BY <1>2, <1>3, <2>3
    <3>2. e[i - d] = r[i] /\ ~(e[i - d] < Per)
      BY <1>1, <1>3, <3>1 DEF TrailsBy
    <3> QED
      BY <2>1, <3>2, ClientLimits
  <2> QED
    BY <2>2, <2>3
<1>7. ASSUME NEW i \in 1..Len(Evicted(e)) PROVE Evicted(e)[i] = r[(d + m - 1) + i]
  <2>1. /\ i \in 1..Len(e) - m + 1 /\ m + i - 1 \in 1..Len(e)
        /\ d + (m + i - 1) = (d + m - 1) + i
    BY <1>2, <1>3
  <2>2. Evicted(e)[i] = e[m + i - 1]
    BY <1>3, <2>1
  <2>3. e[m + i - 1] = r[d + (m + i - 1)]
    BY <1>1, <2>1 DEF TrailsBy
  <2> QED
    BY <2>1, <2>2, <2>3
<1>8. Trails(Evicted(e), r, f)
  <2>1. Len(r) = Len(Evicted(e)) + (d + m - 1) /\ d + m - 1 \in Nat
    BY <1>2, <1>3
  <2>2. TrailsBy(Evicted(e), r, f, d + m - 1)
    BY <1>6, <1>7, <2>1 DEF TrailsBy
  <2> QED
    BY <2>1, <2>2 DEF Trails
<1>9. Trails(Evicted(e), Evicted(r), f)
  <2> DEFINE k == d + m - n
  <2>1. k \in Nat /\ Len(Evicted(r)) = Len(Evicted(e)) + k
    BY <1>2, <1>3, <1>4, <1>5
  <2>2. ASSUME NEW i \in 1..Len(Evicted(e)) PROVE Evicted(e)[i] = Evicted(r)[k + i]
    <3>0. /\ d \in Nat /\ m \in Nat /\ n \in Nat /\ i \in Nat /\ i >= 1 /\ n >= 1 /\ n <= d + m
          /\ i <= Len(e) - m + 1 /\ Len(e) \in Nat /\ Len(r) = Len(e) + d
      BY <1>2, <1>3, <1>4, <1>5
    <3>1. k + i \in 1..Len(r) - n + 1 /\ n + (k + i) - 1 = (d + m - 1) + i
      <4> DEFINE o == Len(r)
                 l == Len(e)
      <4>1. o \in Nat /\ l \in Nat /\ i >= 1 /\ n >= 1 /\ n <= d + m /\ i <= l - m + 1 /\ o = l + d
            /\ d \in Nat /\ m \in Nat /\ n \in Nat /\ i \in Nat
        BY <3>0
      <4> HIDE DEF o, l
      <4>2. /\ (d + m - n) + i \in 1..o - n + 1
            /\ n + ((d + m - n) + i) - 1 = (d + m - 1) + i
        BY <4>1
      <4> QED
        BY <4>2 DEF o
    <3>2. Evicted(r)[k + i] = r[n + (k + i) - 1]
      BY <1>4, <3>1
    <3> QED
      BY <1>7, <3>1, <3>2
  <2>3. ASSUME NEW i \in 1..k PROVE Evicted(r)[i] + f >= Per
    <3>1. i \in 1..Len(r) - n + 1 /\ n + i - 1 \in 1..d + m - 1
      BY <1>2, <1>3, <1>4, <1>5
    <3>2. Evicted(r)[i] = r[n + i - 1]
      BY <1>4, <3>1
    <3> QED
      BY <1>6, <3>1, <3>2
  <2> HIDE DEF k
  <2>4. TrailsBy(Evicted(e), Evicted(r), f, k)
    BY <2>1, <2>2, <2>3 DEF TrailsBy
  <2> QED
    BY <2>1, <2>4 DEF Trails
<1>10. ASSUME f = 0 PROVE Evicted(r) = Evicted(e)
  <2>1. n = d + m
    <3> SUFFICES ASSUME n < d + m PROVE FALSE
      BY <1>3, <1>4, <1>5
    <3>1. n <= Len(r) /\ n \in 1..d + m - 1
      BY <1>2, <1>3, <1>4
    <3>2. r[n] < Per /\ r[n] + f >= Per /\ r[n] \in Nat
      BY <1>4, <1>6, <3>1
    <3> QED
      BY <1>10, <3>2, ClientLimits
  <2>2. Len(Evicted(r)) = Len(Evicted(e))
    BY <1>2, <1>3, <1>4, <2>1
  <2>3. ASSUME NEW i \in 1..Len(Evicted(e)) PROVE Evicted(r)[i] = Evicted(e)[i]
    <3>1. i \in 1..Len(r) - n + 1 /\ n + i - 1 = (d + m - 1) + i
      BY <1>2, <1>3, <1>4, <2>1
    <3>2. Evicted(r)[i] = r[n + i - 1]
      BY <1>4, <3>1
    <3> QED
      BY <1>7, <3>1, <3>2
  <2> QED
    BY <1>3, <1>4, <2>2, <2>3, SeqEqual
<1> QED
  BY <1>8, <1>9, <1>10

LEMMA TrailsSame ==
  ASSUME NEW e \in Seq(Nat), NEW f \in Nat
  PROVE  Trails(e, e, f)
<1>1. Len(e) \in Nat /\ 0 \in Nat /\ Len(e) = Len(e) + 0 /\ \A i \in 1..Len(e) : 0 + i = i
  BY LenProperties
<1>2. TrailsBy(e, e, f, 0)
  BY <1>1 DEF TrailsBy
<1> QED
  BY <1>1, <1>2 DEF Trails

\* A request granted is the last of both.
LEMMA TrailsAppend ==
  ASSUME NEW e \in Seq(Nat), NEW r \in Seq(Nat), NEW f \in Nat, Trails(e, r, f)
  PROVE  Trails(Append(e, 0), Append(r, 0), f)
<1>1. PICK d \in Nat : TrailsBy(e, r, f, d)
  BY DEF Trails
<1>2. Len(e) \in Nat /\ Len(r) \in Nat /\ Len(r) = Len(e) + d
  BY <1>1, LenProperties DEF TrailsBy
<1>3. /\ Len(Append(e, 0)) = Len(e) + 1 /\ Append(e, 0)[Len(e) + 1] = 0
      /\ \A i \in 1..Len(e) : Append(e, 0)[i] = e[i]
  BY AppendProperties
<1>4. /\ Len(Append(r, 0)) = Len(r) + 1 /\ Append(r, 0)[Len(r) + 1] = 0
      /\ \A i \in 1..Len(r) : Append(r, 0)[i] = r[i]
  BY AppendProperties
<1>5. ASSUME NEW i \in 1..Len(e) + 1 PROVE Append(e, 0)[i] = Append(r, 0)[d + i]
  <2>1. CASE i \in 1..Len(e)
    <3>1. d + i \in 1..Len(r)
      BY <1>2, <2>1
    <3> QED
      BY <1>1, <1>3, <1>4, <2>1, <3>1 DEF TrailsBy
  <2>2. CASE i = Len(e) + 1
    <3>1. d + i = Len(r) + 1
      BY <1>2, <2>2
    <3> QED
      BY <1>3, <1>4, <2>2, <3>1
  <2>3. i \in 1..Len(e) \/ i = Len(e) + 1
    BY <1>2
  <2> QED
    BY <2>1, <2>2, <2>3
<1>6. ASSUME NEW i \in 1..d PROVE Append(r, 0)[i] + f >= Per
  <2>1. i \in 1..Len(r)
    BY <1>2
  <2> QED
    BY <1>1, <1>4, <2>1 DEF TrailsBy
<1>7. TrailsBy(Append(e, 0), Append(r, 0), f, d)
  <2>1. Len(Append(r, 0)) = Len(Append(e, 0)) + d
    BY <1>2, <1>3, <1>4
  <2>2. Len(Append(e, 0)) = Len(e) + 1
    BY <1>3
  <2> QED
    BY <1>5, <1>6, <2>1, <2>2 DEF TrailsBy
<1> QED
  BY <1>7 DEF Trails

\* A new process knows of no request: all of them are old, or forgotten for
\* the length of a window.
LEMMA TrailsForget ==
  ASSUME NEW r \in Seq(Nat), NEW f \in Nat, Young(r) # {} => f >= Per
  PROVE  Trails(<<>>, r, f)
<1>1. Len(r) \in Nat /\ DOMAIN r = 1..Len(r) /\ \A i \in 1..Len(r) : r[i] \in Nat
  BY LenProperties, ElementOfSeq
<1>2. ASSUME NEW i \in 1..Len(r) PROVE r[i] + f >= Per
  <2>1. r[i] < Per => i \in Young(r)
    BY <1>1 DEF Young
  <2> QED
    BY <1>1, <2>1, ClientLimits
<1>3. Len(<<>>) = 0 /\ Len(r) = 0 + Len(r) /\ 1..0 = {}
  BY <1>1, EmptySeq
<1>4. TrailsBy(<<>>, r, f, Len(r))
  BY <1>2, <1>3 DEF TrailsBy
<1> QED
  BY <1>1, <1>4 DEF Trails

-----------------------------------------------------------------------------
\* The client's variables are what they should be; the exchange's silence is
\* known to the limiter, and so is every request of the window, but for what a
\* restart made it forget.
ClientInv ==
  /\ DOMAIN call = Callers /\ \A c \in Callers : "step" \in DOMAIN call[c]
  /\ blocked \in Nat /\ quiet \in Nat /\ forgotten \in Nat
  /\ quiet <= Longer(blocked, forgotten)
  /\ events \in Seq(Nat) /\ recent \in Seq(Nat) /\ Trails(events, recent, forgotten)

\* A step in which nobody is granted a request.
NoGrant == \A c \in Callers : call'[c].step = "flight" => call[c].step = "flight"

Granted(c) ==
  /\ quiet <= forgotten
  /\ forgotten = 0 => Cardinality(Young(recent')) <= Limit

LEMMA ClientInitially == ClientInit => ClientInv
<1> SUFFICES ASSUME ClientInit PROVE ClientInv
  OBVIOUS
<1>1. events \in Seq(Nat) /\ events = <<>> /\ recent = <<>>
  BY EmptySeq DEF ClientInit
<1>2. Trails(events, recent, 0)
  BY <1>1, TrailsSame
<1>3. DOMAIN call = Callers /\ \A c \in Callers : "step" \in DOMAIN call[c]
  BY DEF ClientInit, Idle
<1>4. blocked = 0 /\ quiet = 0 /\ forgotten = 0
  BY DEF ClientInit
<1> QED
  BY <1>1, <1>2, <1>3, <1>4 DEF ClientInv, Longer

\* A step that leaves the windows alone.
LEMMA CallKeeps ==
  ASSUME ClientInv, UNCHANGED <<events, recent, forgotten>>,
         DOMAIN call' = Callers, \A c \in Callers : "step" \in DOMAIN call'[c],
         blocked' \in Nat, quiet' \in Nat, quiet' <= Longer(blocked', forgotten)
  PROVE  ClientInv'
  BY DEF ClientInv

\* Another step of the call of c.
LEMMA StepOf ==
  ASSUME ClientInv, NEW c \in Callers, NEW step, NEW attempt, NEW wake, step # "flight",
         call' = [call EXCEPT ![c] = [step |-> step, attempt |-> attempt, wake |-> wake]]
  PROVE  DOMAIN call' = Callers /\ (\A b \in Callers : "step" \in DOMAIN call'[b]) /\ NoGrant
  BY DEF ClientInv, NoGrant

LEMMA AskStep ==
  ASSUME ClientInv, NEW c \in Callers, NEW n, Queue(c, n), UNCHANGED <<events, blocked, quiet, recent, forgotten, troubles>>
  PROVE  ClientInv' /\ NoGrant
<1>1. call' = [call EXCEPT ![c] = [step |-> "acquire", attempt |-> n, wake |-> 0]]
  BY DEF Queue
<1> QED
  BY <1>1, StepOf, CallKeeps DEF ClientInv

LEMMA ConcludeStep ==
  ASSUME ClientInv, NEW c \in Callers, NEW s, s # "flight", Conclude(c, s),
         UNCHANGED <<events, recent, forgotten>>, blocked' \in Nat, quiet' \in Nat, quiet' <= Longer(blocked', forgotten)
  PROVE  ClientInv' /\ NoGrant
<1>1. [Idle EXCEPT !.step = s] = [step |-> s, attempt |-> 0, wake |-> 0]
  BY DEF Idle
<1>2. call' = [call EXCEPT ![c] = [step |-> s, attempt |-> 0, wake |-> 0]]
  BY <1>1 DEF Conclude
<1>3. DOMAIN call' = Callers /\ (\A b \in Callers : "step" \in DOMAIN call'[b]) /\ NoGrant
  BY <1>2, StepOf
<1> QED
  BY <1>3, CallKeeps

LEMMA SilenceIs ==
  ASSUME ClientInv, NEW t \in Nat, Silence(t)
  PROVE  blocked' \in Nat /\ quiet' \in Nat /\ quiet' <= Longer(blocked', forgotten)
  BY DEF ClientInv, Silence, BlockFor, Longer

LEMMA RetryStep ==
  ASSUME ClientInv, NEW c \in Callers, NEW delay, RetryOrFail(c, delay),
         UNCHANGED <<events, recent, forgotten>>, blocked' \in Nat, quiet' \in Nat, quiet' <= Longer(blocked', forgotten)
  PROVE  ClientInv' /\ NoGrant
<1>1. CASE Conclude(c, "failed")
  BY <1>1, ConcludeStep
<1>2. CASE call' = [call EXCEPT ![c].step = "backoff", ![c].wake = delay]
  <2>1. DOMAIN call' = Callers /\ (\A b \in Callers : "step" \in DOMAIN call'[b]) /\ NoGrant
    BY <1>2 DEF ClientInv, NoGrant
  <2> QED
    BY <2>1, CallKeeps
<1> QED
  BY <1>1, <1>2 DEF RetryOrFail

LEMMA AnswerStep ==
  ASSUME ClientInv, NEW c \in Callers, Answer(c)
  PROVE  ClientInv' /\ NoGrant
<1>1. UNCHANGED <<events, recent, forgotten>>
  BY DEF Answer, AnswerGood, AnswerLast, AnswerTooMany, AnswerBlocked, AnswerNone, AnswerRefused, Trouble
<1>2. blocked' \in Nat /\ quiet' \in Nat /\ quiet' <= Longer(blocked', forgotten)
  <2>1. CASE UNCHANGED <<blocked, quiet>>
    BY <2>1 DEF ClientInv
  <2>2. CASE Silence(Penalty) \/ Silence(BlockedCooldown)
    BY <2>2, SilenceIs, ClientLimits
  <2> QED
    BY <2>1, <2>2 DEF Answer, AnswerGood, AnswerLast, AnswerTooMany, AnswerBlocked, AnswerNone, AnswerRefused
<1>3. CASE Conclude(c, "answered") \/ Conclude(c, "failed")
  BY <1>1, <1>2, <1>3, ConcludeStep
<1>4. ASSUME NEW delay, RetryOrFail(c, delay) PROVE ClientInv' /\ NoGrant
  BY <1>1, <1>2, <1>4, RetryStep
<1> QED
  BY <1>3, <1>4 DEF Answer, AnswerGood, AnswerLast, AnswerTooMany, AnswerBlocked, AnswerNone, AnswerRefused

LEMMA AbandonStep ==
  ASSUME ClientInv, NEW c \in Callers, Abandon(c)
  PROVE  ClientInv' /\ NoGrant
<1>1. call' = [call EXCEPT ![c] = [step |-> "idle", attempt |-> 0, wake |-> 0]]
  BY DEF Abandon, Idle
<1>2. DOMAIN call' = Callers /\ (\A b \in Callers : "step" \in DOMAIN call'[b]) /\ NoGrant
  BY <1>1, StepOf
<1>3. /\ UNCHANGED <<events, recent, forgotten>>
      /\ blocked' \in Nat /\ quiet' \in Nat /\ quiet' <= Longer(blocked', forgotten)
  BY DEF Abandon, ClientInv
<1> QED
  BY <1>2, <1>3, CallKeeps

LEMMA TickStep ==
  ASSUME ClientInv, Tick
  PROVE  ClientInv' /\ NoGrant
<1>1. DOMAIN call' = Callers /\ (\A b \in Callers : "step" \in DOMAIN call'[b]) /\ NoGrant
  BY DEF ClientInv, NoGrant, Tick
<1>2. /\ blocked' \in Nat /\ quiet' \in Nat /\ forgotten' \in Nat
      /\ quiet' <= Longer(blocked', forgotten')
  BY DEF ClientInv, Tick, Less, Longer
<1>3. events' \in Seq(Nat) /\ recent' \in Seq(Nat) /\ Trails(events', recent', forgotten')
  BY OlderIs, TrailsOlder DEF ClientInv, Tick
<1> QED
  BY <1>1, <1>2, <1>3 DEF ClientInv

\* Who is let through found no silence and a window with room, but for what was
\* forgotten.
LEMMA LookStep ==
  ASSUME ClientInv, NEW c \in Callers, Look(c)
  PROVE  ClientInv' /\ (NoGrant \/ Granted(c))
<1> DEFINE kept == Evicted(events)
           wait == Delay(kept)
<1>1. /\ UNCHANGED <<blocked, quiet, forgotten>> /\ call[c].step = "acquire"
      /\ events \in Seq(Nat) /\ recent \in Seq(Nat) /\ Trails(events, recent, forgotten)
      /\ blocked \in Nat /\ quiet \in Nat /\ forgotten \in Nat /\ quiet <= Longer(blocked, forgotten)
  BY DEF Look, ClientInv
<1>2. PICK m \in 1..Len(events) + 1 :
            /\ m <= Len(events) => events[m] < Per
            /\ kept \in Seq(Nat) /\ Len(kept) = Len(events) - m + 1
            /\ \A i \in 1..Len(events) - m + 1 : kept[i] = events[m + i - 1]
  BY <1>1, EvictedIs
<1>3. /\ Trails(kept, recent, forgotten) /\ Trails(kept, Evicted(recent), forgotten)
      /\ forgotten = 0 => Evicted(recent) = kept
  BY <1>1, TrailsEvicted
<1>9. Evicted(recent) \in Seq(Nat)
  BY <1>1, EvictedIs
<1>4. Len(kept) \in Nat /\ Len(events) \in Nat
  BY <1>1, <1>2, LenProperties
<1>5. \/ /\ wait > 0 /\ call' = [call EXCEPT ![c].wake = wait]
         /\ events' = kept /\ recent' = recent
      \/ /\ ~(wait > 0) /\ call' = [call EXCEPT ![c].step = "flight"]
         /\ events' = Append(kept, 0) /\ recent' = Append(Evicted(recent), 0)
  BY DEF Look
<1> HIDE DEF kept
<1> HIDE DEF wait
<1>6. DOMAIN call' = Callers /\ (\A b \in Callers : "step" \in DOMAIN call'[b])
  BY <1>5 DEF ClientInv
<1>7. CASE /\ wait > 0 /\ call' = [call EXCEPT ![c].wake = wait]
           /\ events' = kept /\ recent' = recent
  <2>1. NoGrant
    BY <1>7 DEF NoGrant, ClientInv
  <2> QED
    BY <1>1, <1>2, <1>3, <1>6, <1>7, <2>1 DEF ClientInv
<1>8. CASE /\ ~(wait > 0) /\ call' = [call EXCEPT ![c].step = "flight"]
           /\ events' = Append(kept, 0) /\ recent' = Append(Evicted(recent), 0)
  <2>1. events' \in Seq(Nat) /\ recent' \in Seq(Nat) /\ Trails(events', recent', forgotten')
    <3>1. Trails(Append(kept, 0), Append(Evicted(recent), 0), forgotten)
      BY <1>1, <1>2, <1>3, <1>9, TrailsAppend
    <3> QED
      BY <1>1, <1>2, <1>8, <1>9, <3>1, AppendProperties
  <2>2. ClientInv'
    BY <1>1, <1>6, <2>1 DEF ClientInv
  <2>3. blocked = 0 /\ Len(kept) < Limit
    <3>1. blocked = 0
      BY <1>1, <1>8 DEF wait, Delay
    <3>2. ASSUME ~(Len(kept) < Limit) PROVE FALSE
      <4>1. wait = Per - Head(kept)
        BY <3>1, <3>2 DEF wait, Delay
      <4>2. Len(kept) >= 1
        BY <1>4, <3>2, ClientLimits
      <4>3. 1 \in 1..Len(events) - m + 1 /\ m <= Len(events) /\ m + 1 - 1 = m
        BY <1>2, <1>4, <4>2
      <4>4. kept[1] = events[m] /\ events[m] < Per /\ events[m] \in Nat
        <5>1. m \in 1..Len(events)
          BY <1>2, <1>4, <4>3
        <5> QED
          BY <1>1, <1>2, <4>3, <5>1, ElementOfSeq
      <4>5. Head(kept) = kept[1]
        BY <1>2
      <4> QED
        BY <1>8, <4>1, <4>4, <4>5, ClientLimits
    <3> QED
      BY <3>1, <3>2
  <2>4. ASSUME forgotten = 0 PROVE Cardinality(Young(recent')) <= Limit
    <3> DEFINE n == Len(recent')
               young == Young(recent')
    <3>0. n = Len(kept) + 1
      BY <1>2, <1>3, <1>8, <2>4, AppendProperties
    <3>1. n \in Nat /\ DOMAIN recent' = 1..n /\ n <= Limit
      BY <1>4, <2>1, <2>3, <3>0, ClientLimits, LenProperties
    <3>2. young \subseteq 1..n
      BY <3>1 DEF Young
    <3> HIDE DEF n
    <3> HIDE DEF young
    <3>3. IsFiniteSet(1..n) /\ Cardinality(1..n) = n
      <4>1. 1 \in Int /\ n \in Int
        BY <3>1
      <4>2. IsFiniteSet(1..n) /\ Cardinality(1..n) = IF 1 > n THEN 0 ELSE n - 1 + 1
        BY <4>1, FS_Interval, Zenon
      <4> QED
        BY <3>1, <4>2
    <3>4. Cardinality(young) <= n /\ Cardinality(young) \in Nat
      <4>1. IsFiniteSet(young) /\ Cardinality(young) <= Cardinality(1..n)
        BY <3>2, <3>3, FS_Subset, Zenon
      <4> QED
        BY <3>3, <4>1, FS_CardinalityType
    <3> QED
      BY <3>1, <3>4, ClientLimits DEF young
  <2>5. quiet <= forgotten
    BY <1>1, <2>3 DEF Longer
  <2> QED
    BY <2>2, <2>4, <2>5 DEF Granted
<1> QED
  BY <1>5, <1>7, <1>8

-----------------------------------------------------------------------------
\* The steps of the jobs are steps of their calls, or leave the client alone.

LEMMA TaskLimits ==
  ASSUME ClientInv, NEW j \in Jobs, TaskStep(j)
  PROVE  ClientInv' /\ (NoGrant \/ Granted(j))
<1>0. j \in Callers
  BY JobsAssumption
<1>1. CASE UNCHANGED clientVars
  BY <1>1 DEF clientVars, ClientInv, NoGrant
<1>2. CASE LoadPages(j) \/ NextPage(j)
  <2>1. Ask(j)
    BY <1>2 DEF LoadPages, NextPage
  <2>2. Queue(j, 1) /\ UNCHANGED <<events, blocked, quiet, recent, forgotten, troubles>>
    BY <2>1 DEF Ask
  <2> QED
    BY <1>0, <2>2, AskStep
<1>3. CASE SaveFile(j) \/ LoadFails(j)
  <2>1. Conclude(j, "idle") /\ UNCHANGED <<events, recent, forgotten, blocked, quiet>>
    BY <1>3 DEF SaveFile, LoadFails
  <2>2. blocked' \in Nat /\ quiet' \in Nat /\ quiet' <= Longer(blocked', forgotten)
    BY <2>1 DEF ClientInv
  <2> QED
    BY <1>0, <2>1, <2>2, ConcludeStep
<1>4. CASE Unwind(j)
  BY <1>0, <1>4, AbandonStep DEF Unwind
<1>5. CASE ClientStep(j)
  <2>1. CASE Look(j)
    BY <1>0, <2>1, LookStep
  <2>2. CASE Answer(j)
    BY <1>0, <2>2, AnswerStep
  <2>3. CASE TryAgain(j)
    <3>1. Queue(j, call[j].attempt + 1) /\ UNCHANGED <<events, blocked, quiet, recent, forgotten, troubles>>
      BY <2>3 DEF TryAgain
    <3> QED
      BY <1>0, <3>1, AskStep
  <2> QED
    BY <1>5, <2>1, <2>2, <2>3 DEF ClientStep
<1>6. CASE Enter(j) \/ LoadFile(j) \/ KeepFrame(j) \/ StartThread(j) \/ Done(j)
           \/ NothingLoaded(j) \/ UnwindEarly(j)
  <2>1. UNCHANGED clientVars
    BY <1>6 DEF Enter, LoadFile, KeepFrame, StartThread, Done, NothingLoaded, UnwindEarly
  <2> QED
    BY <1>1, <2>1
<1> QED
  BY <1>2, <1>3, <1>4, <1>5, <1>6 DEF TaskStep

LEMMA RestartLimits ==
  ASSUME ClientInv, Restart
  PROVE  ClientInv' /\ NoGrant
<1> DEFINE f == Longer(quiet, IF Young(recent) = {} THEN 0 ELSE Per)
<1>1. /\ events' = <<>> /\ recent' = recent /\ blocked' = 0 /\ quiet' = quiet
      /\ forgotten' = f /\ call' = [c \in Callers |-> Idle]
  BY DEF Restart, Forget
<1>2. f \in Nat /\ quiet <= f /\ (Young(recent) # {} => f >= Per)
  BY ClientLimits DEF ClientInv, Longer
<1> HIDE DEF f
<1>3. DOMAIN call' = Callers /\ \A c \in Callers : "step" \in DOMAIN call'[c] /\ call'[c].step = "idle"
  BY <1>1 DEF Idle
<1>4. recent \in Seq(Nat) /\ quiet \in Nat
  BY DEF ClientInv
<1>5. events' \in Seq(Nat) /\ Trails(events', recent', forgotten')
  BY <1>1, <1>2, <1>4, EmptySeq, TrailsForget
<1>6. quiet' <= Longer(blocked', forgotten')
  BY <1>1, <1>2, <1>4 DEF Longer
<1> QED
  BY <1>1, <1>2, <1>3, <1>4, <1>5, <1>6 DEF ClientInv, NoGrant

LEMMA NextLimits ==
  ASSUME ClientInv, [Next]_vars
  PROVE  ClientInv' /\ (NoGrant \/ \E c \in Callers : Granted(c))
<1>1. CASE UNCHANGED clientVars
  BY <1>1 DEF clientVars, ClientInv, NoGrant
<1>2. ASSUME NEW j \in Jobs, TaskStep(j)
      PROVE ClientInv' /\ (NoGrant \/ \E c \in Callers : Granted(c))
  BY <1>2, TaskLimits, JobsAssumption
<1>3. CASE TimePasses
  BY <1>3, TickStep DEF TimePasses
<1>4. CASE Restart
  BY <1>4, RestartLimits
<1>5. ASSUME NEW j \in Jobs, ThreadEnds(j) \/ ThreadRaises(j) \/ RequestEnds(j) \/ Submit(j)
      PROVE UNCHANGED clientVars
  BY <1>5 DEF ThreadEnds, ThreadRaises, RequestEnds, CancelReturns, DeleteReturns, Submit
<1>6. ASSUME NEW j \in Jobs, NEW what, AskCancel(j, what) PROVE UNCHANGED clientVars
  BY <1>6 DEF AskCancel
<1>7. ASSUME NEW b \in Backtests, DeleteRow(b) PROVE UNCHANGED clientVars
  BY <1>7 DEF DeleteRow
<1>8. CASE UNCHANGED vars
  BY <1>1, <1>8 DEF vars
<1> QED
  BY <1>1, <1>2, <1>3, <1>4, <1>5, <1>6, <1>7, <1>8 DEF Next

\* A request is only sent once the silence the exchange asked for is over, and
\* never more than Limit are sent within a window, whatever the other callers
\* do and whatever becomes of them (rate_limiter.py 176-192); excepted is, for
\* as long as it lasts, what a restart in the middle of it made the client
\* forget (upbit_client.py 118).
THEOREM LimitsKeptHolds == Spec => LimitsKept
<1>1. Init => ClientInv
  BY ClientInitially DEF Init
<1>2. ClientInv /\ [Next]_vars => ClientInv'
  BY NextLimits
<1>3. ClientInv /\ [Next]_vars
      => [ \A c \in Callers :
             call[c].step = "acquire" /\ call'[c].step = "flight"
             => /\ quiet <= forgotten
                /\ forgotten = 0 => Cardinality(Young(recent')) <= Limit ]_clientVars
  <2> SUFFICES ASSUME ClientInv, [Next]_vars, NEW c \in Callers,
                      call[c].step = "acquire", call'[c].step = "flight"
               PROVE  Granted(c)
    BY DEF Granted
  <2>1. ~NoGrant
    BY DEF NoGrant
  <2> QED
    BY <2>1, NextLimits DEF Granted
<1> QED
  BY <1>1, <1>2, <1>3, PTL DEF Spec, LimitsKept

-----------------------------------------------------------------------------
(* What the database says of a backtest *)

Submitted == {order[i] : i \in DOMAIN order}

\* Nothing of the task of j is still to come.
Settled(j) == job[j].at \in {"ended", "never began", "nowhere"}

\* What is told of one backtest: RecordsTrue; a deleted one is settled and out
\* of memory, and so is any that memory has let go.
Told(b) ==
  /\ b \in deleted => rows[b] = None /\ Settled(b) /\ b \notin memory
  /\ job[b].at = "ended" => rows[b] \in {job[b].status, None}
  /\ job[b].at = "ended" => job[b].status \in Over
  /\ job[b].status \in Over => TaskDone(b)
  /\ b \in Submitted => b \in memory \/ Settled(b)
  /\ b \notin Submitted => /\ rows[b] = None /\ b \notin deleted /\ b \notin memory
                           /\ job[b].at = "nowhere"

RecordsInv ==
  /\ DOMAIN job = Jobs /\ \A j \in Jobs : {"status", "at", "progress", "kept"} \subseteq DOMAIN job[j]
  /\ DOMAIN rows = Backtests
  /\ order \in Seq(Jobs)
  /\ memory \subseteq Jobs /\ \A j \in memory : job[j].at # "nowhere"
  /\ \A b \in Backtests : Told(b)

LEMMA RecordsInitially == Init => RecordsInv
<1> SUFFICES ASSUME Init PROVE RecordsInv
  OBVIOUS
<1>1. order \in Seq(Jobs) /\ order = <<>> /\ Submitted = {}
  BY EmptySeq DEF Init, Submitted
<1>2. /\ job = [j \in Jobs |-> Blank] /\ rows = [b \in Backtests |-> None]
      /\ memory = {} /\ deleted = {}
  BY DEF Init
<1>3. \A b \in Backtests : job[b] = Blank
  BY <1>2 DEF Jobs
<1>4. \A b \in Backtests : Told(b)
  BY <1>1, <1>2, <1>3 DEF Told, Blank, Over, None
<1> QED
  BY <1>1, <1>2, <1>4 DEF RecordsInv, Blank

\* A backtest that a step does not work on, but whose row or place in memory it
\* may take.
LEMMA OtherTold ==
  ASSUME RecordsInv, NEW b \in Backtests, job'[b] = job[b], rows'[b] \in {rows[b], None},
         b \in memory' => b \in memory,
         b \in memory => b \in memory' \/ job[b].status \in Over,
         (b \in deleted') = (b \in deleted), (b \in Submitted') = (b \in Submitted)
  PROVE  Told(b)'
<1>1. Told(b)
  BY DEF RecordsInv
<1>2. (b \in deleted') <=> (b \in deleted)
  OBVIOUS
<1>3. (b \in Submitted') <=> (b \in Submitted)
  OBVIOUS
<1>4. Settled(b)' <=> Settled(b)
  BY DEF Settled
<1>5. TaskDone(b)' <=> TaskDone(b)
  BY DEF TaskDone
<1>6. TaskDone(b) => Settled(b)
  BY DEF TaskDone, Settled
<1> QED
  BY <1>1, <1>2, <1>3, <1>4, <1>5, <1>6 DEF Told

\* What a step of the task of j makes of its job: it goes on, or ends with its
\* record.
TaskGoesOn(j, r) ==
  /\ r.at \notin {"ended", "nowhere"} /\ r.status \in {job[j].status, "running"}
  /\ rows' \in {rows, Saved(j, "running")}

TaskIsOver(j, r) ==
  /\ r.at = "ended" /\ r.status \in Over
  /\ rows' = Saved(j, r.status)

LEMMA TaskRecords ==
  ASSUME RecordsInv, NEW j \in Jobs, ~Settled(j),
         UNCHANGED <<memory, deleted, order>>,
         NEW r, job' = [job EXCEPT ![j] = r], {"status", "at", "progress", "kept"} \subseteq DOMAIN r,
         TaskGoesOn(j, r) \/ TaskIsOver(j, r)
  PROVE  RecordsInv'
<1>1. /\ DOMAIN job' = Jobs /\ \A i \in Jobs : {"status", "at", "progress", "kept"} \subseteq DOMAIN job'[i]
      /\ job'[j] = r /\ \A i \in Jobs : i # j => job'[i] = job[i]
  BY DEF RecordsInv
<1>2. Submitted' = Submitted /\ memory' = memory /\ deleted' = deleted
  BY DEF Submitted
<1>3. DOMAIN rows' = Backtests /\ \A b \in Backtests : b # j => rows'[b] = rows[b]
  BY DEF TaskGoesOn, TaskIsOver, Saved, RecordsInv
<1>4. ASSUME NEW b \in Backtests, b # j PROVE Told(b)'
  <2>1. job'[b] = job[b] /\ rows'[b] = rows[b]
    BY <1>1, <1>3, <1>4 DEF Jobs
  <2> QED
    BY <1>2, <2>1, OtherTold
<1>5. ASSUME j \in Backtests PROVE Told(j)'
  <2>1. Told(j) /\ ~TaskDone(j)
    BY <1>5 DEF RecordsInv, Settled, TaskDone
  <2>2. j \in Submitted /\ j \in memory /\ j \notin deleted /\ job[j].status \notin Over
    BY <2>1 DEF Told, Settled
  <2>3. CASE TaskGoesOn(j, r)
    <3>1. job'[j].at # "ended" /\ job'[j].status \notin Over
      BY <1>1, <2>2, <2>3 DEF TaskGoesOn, Over
    <3> QED
      BY <1>2, <2>2, <3>1 DEF Told
  <2>4. CASE TaskIsOver(j, r)
    <3>1. job'[j].at = "ended" /\ job'[j].status \in Over /\ rows'[j] = job'[j].status
      BY <1>1, <1>5, <2>4 DEF TaskIsOver, Saved, RecordsInv
    <3>2. TaskDone(j)'
      BY <3>1 DEF TaskDone
    <3> QED
      BY <1>2, <2>2, <3>1, <3>2 DEF Told
  <2> QED
    BY <2>3, <2>4
<1>6. \A b \in Backtests : Told(b)'
  BY <1>4, <1>5
<1>7. order' \in Seq(Jobs)
  BY DEF RecordsInv
<1>8. memory' \subseteq Jobs /\ \A i \in memory' : job'[i].at # "nowhere"
  BY <1>1 DEF RecordsInv, TaskGoesOn, TaskIsOver
<1> QED
  BY <1>1, <1>3, <1>6, <1>7, <1>8 DEF RecordsInv

\* The same for a step that takes the rows from a list of fields.
LEMMA FinishRecords ==
  ASSUME RecordsInv, NEW j \in Jobs, ~Settled(j), UNCHANGED <<memory, deleted, order>>,
         NEW s \in Over, Finish(j, s)
  PROVE  RecordsInv'
<1> DEFINE r == [job[j] EXCEPT !.status = s, !.at = "ended"]
<1>1. job' = [job EXCEPT ![j] = r] /\ rows' = Saved(j, s)
  BY DEF Finish, RecordsInv
<1>2. {"status", "at", "progress", "kept"} \subseteq DOMAIN r /\ r.at = "ended" /\ r.status = s
  BY DEF RecordsInv
<1> HIDE DEF r
<1> QED
  BY <1>1, <1>2, TaskRecords DEF TaskIsOver

LEMMA CountRecords ==
  ASSUME RecordsInv, NEW j \in Jobs, ~Settled(j), UNCHANGED <<memory, deleted, order>>,
         NEW n, CountFrame(j, n)
  PROVE  RecordsInv'
<1> DEFINE r == [job[j] EXCEPT !.progress = @ + 1, !.kept = @ + n, !.at = "load"]
<1>1. job' = [job EXCEPT ![j] = r] /\ rows' = Saved(j, "running")
  BY DEF CountFrame, RecordsInv
<1>2. {"status", "at", "progress", "kept"} \subseteq DOMAIN r /\ r.at = "load" /\ r.status = job[j].status
  BY DEF RecordsInv
<1> HIDE DEF r
<1> QED
  BY <1>1, <1>2, TaskRecords DEF TaskGoesOn

\* A step that only moves the task on.
LEMMA MoveRecords ==
  ASSUME RecordsInv, NEW j \in Jobs, ~Settled(j), UNCHANGED <<memory, deleted, order, rows>>,
         NEW w, w \notin {"ended", "nowhere"}, job' = [job EXCEPT ![j].at = w]
  PROVE  RecordsInv'
<1> DEFINE r == [job[j] EXCEPT !.at = w]
<1>1. job' = [job EXCEPT ![j] = r]
  BY DEF RecordsInv
<1>2. {"status", "at", "progress", "kept"} \subseteq DOMAIN r /\ r.at = w /\ r.status = job[j].status
  BY DEF RecordsInv
<1> HIDE DEF r
<1> QED
  BY <1>1, <1>2, TaskRecords DEF TaskGoesOn

LEMMA SameRecords ==
  ASSUME RecordsInv, UNCHANGED <<job, memory, order, rows, deleted>>
  PROVE  RecordsInv'
<1>1. Submitted' = Submitted
  BY DEF Submitted
<1>2. \A b \in Backtests : Told(b)'
  BY <1>1 DEF RecordsInv, Told, Settled, TaskDone
<1> QED
  BY <1>2 DEF RecordsInv

LEMMA TaskStepRecords ==
  ASSUME RecordsInv, NEW j \in Jobs, TaskStep(j)
  PROVE  RecordsInv'
<1>1. CASE Enter(j)
  <2>1. ~Settled(j) /\ UNCHANGED <<memory, deleted, order>>
    BY <1>1 DEF Enter, Settled
  <2>2. CASE Finish(j, "done")
    BY <2>1, <2>2, FinishRecords DEF Over
  <2>3. CASE job' = [job EXCEPT ![j].status = "running", ![j].at = "load"] /\ rows' = Saved(j, "running")
    <3> DEFINE r == [job[j] EXCEPT !.status = "running", !.at = "load"]
    <3>1. job' = [job EXCEPT ![j] = r]
      BY <2>3 DEF RecordsInv
    <3>2. {"status", "at", "progress", "kept"} \subseteq DOMAIN r /\ r.at = "load" /\ r.status = "running"
      BY DEF RecordsInv
    <3> HIDE DEF r
    <3> QED
      BY <2>1, <2>3, <3>1, <3>2, TaskRecords DEF TaskGoesOn
  <2> QED
    BY <1>1, <2>2, <2>3 DEF Enter
<1>2. CASE LoadFile(j)
  <2>1. ~Settled(j) /\ UNCHANGED <<memory, deleted, order, rows>>
    BY <1>2 DEF LoadFile, ToLoad, Settled
  <2>2. job' = [job EXCEPT ![j].at = "loaded"]
    BY <1>2 DEF LoadFile
  <2>3. "loaded" \notin {"ended", "nowhere"}
    OBVIOUS
  <2> QED
    BY <2>1, <2>2, <2>3, MoveRecords
<1>3. CASE LoadPages(j)
  <2>1. ~Settled(j) /\ UNCHANGED <<memory, deleted, order, rows>>
    BY <1>3 DEF LoadPages, ToLoad, Settled
  <2>2. job' = [job EXCEPT ![j].at = "paging"]
    BY <1>3 DEF LoadPages
  <2>3. "paging" \notin {"ended", "nowhere"}
    OBVIOUS
  <2> QED
    BY <2>1, <2>2, <2>3, MoveRecords
<1>4. CASE SaveFile(j)
  <2>1. ~Settled(j) /\ UNCHANGED <<memory, deleted, order, rows>>
    BY <1>4 DEF SaveFile, Settled
  <2>2. job' = [job EXCEPT ![j].at = "loaded"]
    BY <1>4 DEF SaveFile
  <2>3. "loaded" \notin {"ended", "nowhere"}
    OBVIOUS
  <2> QED
    BY <2>1, <2>2, <2>3, MoveRecords
<1>5. CASE StartThread(j)
  <2>1. ~Settled(j) /\ UNCHANGED <<memory, deleted, order, rows>>
    BY <1>5 DEF StartThread, PhaseOver, Settled
  <2>2. job' = [job EXCEPT ![j].at = "thread"]
    BY <1>5 DEF StartThread
  <2>3. "thread" \notin {"ended", "nowhere"}
    OBVIOUS
  <2> QED
    BY <2>1, <2>2, <2>3, MoveRecords
<1>6. CASE UnwindEarly(j)
  <2>1. ~Settled(j) /\ UNCHANGED <<memory, deleted, order, rows>>
    BY <1>6 DEF UnwindEarly, Settled
  <2>2. job' = [job EXCEPT ![j].at = "never began"]
    BY <1>6 DEF UnwindEarly
  <2>3. "never began" \notin {"ended", "nowhere"}
    OBVIOUS
  <2> QED
    BY <2>1, <2>2, <2>3, MoveRecords
<1>7. CASE LoadFails(j)
  BY <1>7, CountRecords DEF LoadFails, Settled
<1>8. CASE KeepFrame(j)
  BY <1>8, CountRecords DEF KeepFrame, Settled
<1>9. CASE Done(j)
  BY <1>9, FinishRecords DEF Done, PhaseOver, Settled, Over
<1>10. CASE NothingLoaded(j)
  BY <1>10, FinishRecords DEF NothingLoaded, PhaseOver, Settled, Over
<1>11. CASE Unwind(j)
  BY <1>11, FinishRecords DEF Unwind, Settled, Over
<1>12. CASE NextPage(j) \/ ClientStep(j)
  BY <1>12, SameRecords DEF NextPage, ClientStep, jobVars
<1> QED
  BY <1>1, <1>2, <1>3, <1>4, <1>5, <1>6, <1>7, <1>8, <1>9, <1>10, <1>11, <1>12 DEF TaskStep

LEMMA ThreadRecords ==
  ASSUME RecordsInv, NEW j \in Jobs, ThreadEnds(j) \/ ThreadRaises(j)
  PROVE  RecordsInv'
<1>1. UNCHANGED <<memory, deleted, order>>
  BY DEF ThreadEnds, ThreadRaises
<1>2. CASE ThreadRaises(j)
  <2>1. ~Settled(j) /\ Finish(j, "error")
    BY <1>2 DEF ThreadRaises, Settled
  <2> QED
    BY <1>1, <2>1, FinishRecords DEF Over
<1>3. CASE ThreadEnds(j) /\ job[j].at # "thread"
  <2>1. job' = job /\ rows' = rows
    BY <1>3 DEF ThreadEnds
  <2> QED
    BY <1>1, <2>1, SameRecords
<1>4. CASE ThreadEnds(j) /\ job[j].at = "thread"
  <2>1. ~Settled(j)
    BY <1>4 DEF Settled
  <2>2. CASE j \in Backtests
    <3>1. CountFrame(j, 1)
      BY <1>4, <2>2, JobsAssumption DEF ThreadEnds
    <3> QED
      BY <1>1, <2>1, <3>1, CountRecords
  <2>3. CASE j \notin Backtests
    <3> DEFINE r == [job[j] EXCEPT !.phase = "verify", !.kept = 0, !.at = "load"]
    <3>1. job' = [job EXCEPT ![j] = r] /\ rows' = rows
      BY <1>4, <2>3 DEF ThreadEnds, RecordsInv
    <3>2. {"status", "at", "progress", "kept"} \subseteq DOMAIN r /\ r.at = "load" /\ r.status = job[j].status
      BY DEF RecordsInv
    <3> HIDE DEF r
    <3> QED
      BY <1>1, <2>1, <3>1, <3>2, TaskRecords DEF TaskGoesOn
  <2> QED
    BY <2>2, <2>3
<1> QED
  BY <1>2, <1>3, <1>4

\* The requests of the page.
LEMMA CancelRecords ==
  ASSUME RecordsInv, NEW j \in Jobs, NEW what, AskCancel(j, what)
  PROVE  RecordsInv'
<1>1. UNCHANGED <<memory, order, rows, deleted>> /\ j \in memory
  BY DEF AskCancel
<1>2. CASE TaskDone(j)
  BY <1>1, <1>2, SameRecords DEF AskCancel
<1>3. CASE ~TaskDone(j)
  <2> DEFINE w == IF job[j].at \in {"gate", "unwinding early"} THEN "unwinding early" ELSE "unwinding"
  <2>1. job' = [job EXCEPT ![j].at = w]
    BY <1>3 DEF AskCancel
  <2>2. w \notin {"ended", "nowhere"}
    OBVIOUS
  <2> HIDE DEF w
  <2>3. ~Settled(j)
    BY <1>1, <1>3 DEF RecordsInv, Settled, TaskDone
  <2> QED
    BY <1>1, <2>1, <2>2, <2>3, MoveRecords
<1> QED
  BY <1>2, <1>3

\* What cancel leaves of a job whose task is over.
LEMMA AfterCancelIs ==
  ASSUME RecordsInv, NEW j \in Jobs, TaskDone(j), job' = AfterCancel(j)
  PROVE  /\ DOMAIN job' = Jobs
         /\ \A i \in Jobs : {"status", "at", "progress", "kept"} \subseteq DOMAIN job'[i]
         /\ \A i \in Jobs : i # j => job'[i] = job[i]
         /\ job'[j].at = job[j].at
         /\ j \in Backtests => job'[j].status = IF job[j].status \in Live THEN "cancelled" ELSE job[j].status
<1>1. DOMAIN job = Jobs /\ \A i \in Jobs : {"status", "at", "progress", "kept"} \subseteq DOMAIN job[i]
  BY DEF RecordsInv
<1>2. CASE job' = [job EXCEPT ![j].status = "cancelled"] /\ (j \in Searches \/ job[j].status \in Live)
  <2>1. j \in Backtests => job[j].status \in Live
    BY <1>2, JobsAssumption
  <2>2. /\ job'[j] = [job[j] EXCEPT !.status = "cancelled"]
        /\ DOMAIN job' = Jobs /\ \A i \in Jobs : i # j => job'[i] = job[i]
    BY <1>1, <1>2
  <2>3. /\ job'[j].status = "cancelled" /\ job'[j].at = job[j].at
        /\ {"status", "at", "progress", "kept"} \subseteq DOMAIN job'[j]
    BY <1>1, <2>2
  <2> QED
    BY <1>1, <2>1, <2>2, <2>3
<1>3. CASE job' = job /\ ~(job[j].status \in Live)
  BY <1>1, <1>3
<1> QED
  BY <1>2, <1>3 DEF AfterCancel

LEMMA ReturnRecords ==
  ASSUME RecordsInv, NEW j \in Jobs, TaskDone(j), job' = AfterCancel(j), order' = order,
         \/ UNCHANGED <<memory, rows, deleted>>
         \/ /\ memory' = memory \ {j} /\ rows' = [rows EXCEPT ![j] = None]
            /\ deleted' = deleted \cup {j}
  PROVE  RecordsInv'
<1>1. /\ DOMAIN job' = Jobs
      /\ \A i \in Jobs : {"status", "at", "progress", "kept"} \subseteq DOMAIN job'[i]
      /\ \A i \in Jobs : i # j => job'[i] = job[i]
      /\ job'[j].at = job[j].at
      /\ j \in Backtests => job'[j].status = IF job[j].status \in Live THEN "cancelled" ELSE job[j].status
  BY AfterCancelIs
<1>2. Submitted' = Submitted
  BY DEF Submitted
<1>3. DOMAIN rows' = Backtests
  BY DEF RecordsInv
<1>4. ASSUME NEW b \in Backtests, b # j PROVE Told(b)'
  <2>1. /\ job'[b] = job[b] /\ rows'[b] = rows[b] /\ (b \in memory') = (b \in memory)
        /\ (b \in deleted') = (b \in deleted)
    BY <1>1, <1>4 DEF RecordsInv, Jobs
  <2> QED
    BY <1>2, <2>1, OtherTold
<1>5. ASSUME j \in Backtests PROVE Told(j)'
  <2>1. Told(j) /\ TaskDone(j) /\ Settled(j)
    BY <1>5 DEF RecordsInv, Settled, TaskDone
  <2>2. TaskDone(j)' /\ Settled(j)'
    BY <1>1, <2>1 DEF TaskDone, Settled
  <2>3. j \in Submitted /\ j \in Submitted'
    BY <1>2, <2>1 DEF Told, TaskDone
  <2>4. job[j].at = "ended" => job'[j].status = job[j].status /\ job[j].status \in Over
    BY <1>1, <1>5, <2>1 DEF Told, Over, Live
  <2>5. CASE UNCHANGED <<memory, rows, deleted>>
    BY <1>1, <2>1, <2>2, <2>3, <2>4, <2>5 DEF Told
  <2>6. CASE /\ memory' = memory \ {j} /\ rows' = [rows EXCEPT ![j] = None]
             /\ deleted' = deleted \cup {j}
    <3>1. rows'[j] = None /\ j \notin memory'
      BY <1>5, <2>6 DEF RecordsInv
    <3> QED
      BY <1>1, <2>2, <2>3, <2>4, <3>1 DEF Told
  <2> QED
    BY <2>5, <2>6
<1>6. \A b \in Backtests : Told(b)'
  BY <1>4, <1>5
<1>7. memory' \subseteq Jobs /\ \A i \in memory' : job'[i].at # "nowhere"
  BY <1>1 DEF RecordsInv
<1> QED
  BY <1>1, <1>3, <1>6, <1>7 DEF RecordsInv

LEMMA DeleteRowRecords ==
  ASSUME RecordsInv, NEW b \in Backtests, DeleteRow(b)
  PROVE  RecordsInv'
<1>1. /\ UNCHANGED <<job, memory, order>> /\ b \notin memory /\ rows[b] # None
      /\ rows' = [rows EXCEPT ![b] = None] /\ deleted' = deleted \cup {b}
  BY DEF DeleteRow
<1>2. Submitted' = Submitted
  BY <1>1 DEF Submitted
<1>3. ASSUME NEW a \in Backtests, a # b PROVE Told(a)'
  <2>1. rows'[a] = rows[a] /\ (a \in deleted') = (a \in deleted)
    BY <1>1, <1>3 DEF RecordsInv
  <2> QED
    BY <1>1, <1>2, <2>1, OtherTold
<1>4. Told(b)'
  <2>1. Told(b) /\ Settled(b) /\ b \in Submitted
    BY <1>1 DEF RecordsInv, Told
  <2>2. rows'[b] = None /\ Settled(b)' /\ (TaskDone(b)' <=> TaskDone(b))
    BY <1>1, <2>1 DEF RecordsInv, Settled, TaskDone
  <2> QED
    BY <1>1, <1>2, <2>1, <2>2 DEF Told
<1> QED
  BY <1>1, <1>3, <1>4 DEF RecordsInv

\* A new job: it takes the place of jobs that are over, and rows that are gone
\* stay gone.
LEMMA SubmitRecords ==
  ASSUME RecordsInv, NEW j \in Jobs, Submit(j)
  PROVE  RecordsInv'
<1> DEFINE r == [Blank EXCEPT !.status = "queued", !.at = "gate"]
<1>1. /\ order' = Append(order, j) /\ \A i \in DOMAIN order : order[i] # j
      /\ memory' = (memory \ Trimmed(Runner(j))) \cup {j} /\ job' = [job EXCEPT ![j] = r]
      /\ rows' = KeptRows(Saved(j, "queued"), j) /\ deleted' = deleted
  BY DEF Submit
<1>2. r.status = "queued" /\ r.at = "gate" /\ {"status", "at", "progress", "kept"} \subseteq DOMAIN r
  BY DEF Blank
<1> HIDE DEF r
<1>3. order' \in Seq(Jobs) /\ Submitted' = Submitted \cup {j} /\ j \notin Submitted
  <2>1. order \in Seq(Jobs) /\ Len(order) \in Nat /\ DOMAIN order = 1..Len(order)
    BY LenProperties DEF RecordsInv
  <2>2. /\ order' \in Seq(Jobs) /\ Len(order') = Len(order) + 1
        /\ \A i \in 1..Len(order) : order'[i] = order[i]
        /\ order'[Len(order) + 1] = j
    BY <1>1, <2>1, AppendProperties
  <2>3. DOMAIN order' = 1..Len(order) + 1
    BY <2>1, <2>2, LenProperties
  <2>4. 1..Len(order) + 1 = (1..Len(order)) \cup {Len(order) + 1}
    BY <2>1
  <2>5. Submitted' = Submitted \cup {j}
    BY <2>1, <2>2, <2>3, <2>4 DEF Submitted
  <2> QED
    BY <1>1, <2>2, <2>5 DEF Submitted
<1>4. \A i \in Trimmed(Runner(j)) : job[i].status \in Over
  BY DEF Trimmed
<1>5. DOMAIN rows' = Backtests /\ \A b \in Backtests : b # j => rows'[b] \in {rows[b], None}
  <2>1. DOMAIN rows' = Backtests
    BY <1>1 DEF KeptRows
  <2>2. ASSUME NEW b \in Backtests, b # j PROVE rows'[b] \in {Saved(j, "queued")[b], None}
    BY <1>1 DEF KeptRows
  <2>3. ASSUME NEW b \in Backtests, b # j PROVE Saved(j, "queued")[b] = rows[b]
    BY <2>3 DEF Saved, RecordsInv
  <2> QED
    BY <2>1, <2>2, <2>3
<1>6. /\ DOMAIN job' = Jobs /\ \A i \in Jobs : {"status", "at", "progress", "kept"} \subseteq DOMAIN job'[i]
      /\ job'[j] = r /\ \A i \in Jobs : i # j => job'[i] = job[i]
  BY <1>1, <1>2 DEF RecordsInv
<1>7. ASSUME NEW b \in Backtests, b # j PROVE Told(b)'
  <2>1. job'[b] = job[b] /\ rows'[b] \in {rows[b], None} /\ (b \in Submitted') = (b \in Submitted)
    BY <1>3, <1>5, <1>6, <1>7 DEF Jobs
  <2>2. (b \in memory' => b \in memory) /\ (b \in memory => b \in memory' \/ job[b].status \in Over)
    BY <1>1, <1>4, <1>7
  <2> QED
    BY <1>1, <2>1, <2>2, OtherTold
<1>8. ASSUME j \in Backtests PROVE Told(j)'
  <2>1. j \notin deleted'
    BY <1>1, <1>3, <1>8 DEF RecordsInv, Told
  <2>2. j \in memory' /\ j \in Submitted' /\ job'[j].at = "gate" /\ job'[j].status \notin Over
    BY <1>1, <1>2, <1>3, <1>6 DEF Over
  <2> QED
    BY <2>1, <2>2 DEF Told
<1>9. memory' \subseteq Jobs /\ \A i \in memory' : job'[i].at # "nowhere"
  BY <1>1, <1>2, <1>6 DEF RecordsInv
<1> QED
  BY <1>3, <1>5, <1>6, <1>7, <1>8, <1>9 DEF RecordsInv

LEMMA RestartRecords ==
  ASSUME RecordsInv, Restart
  PROVE  RecordsInv'
<1>1. /\ job' = [j \in Jobs |-> Blank] /\ memory' = {} /\ UNCHANGED <<order, rows, deleted>>
  BY DEF Restart
<1>2. Submitted' = Submitted
  BY <1>1 DEF Submitted
<1>3. ASSUME NEW b \in Backtests PROVE Told(b)'
  <2>1. job'[b].at = "nowhere" /\ job'[b].status = None
    BY <1>1 DEF Blank, Jobs
  <2>2. Told(b)
    BY DEF RecordsInv
  <2> QED
    BY <1>1, <1>2, <2>1, <2>2 DEF Told, Settled, Over, None
<1> QED
  BY <1>1, <1>3 DEF RecordsInv, Blank

LEMMA NextRecords == RecordsInv /\ [Next]_vars => RecordsInv'
<1> SUFFICES ASSUME RecordsInv, [Next]_vars PROVE RecordsInv'
  OBVIOUS
<1>1. ASSUME NEW j \in Jobs, TaskStep(j) PROVE RecordsInv'
  BY <1>1, TaskStepRecords
<1>2. ASSUME NEW j \in Jobs, ThreadEnds(j) \/ ThreadRaises(j) PROVE RecordsInv'
  BY <1>2, ThreadRecords
<1>3. ASSUME NEW j \in Jobs, RequestEnds(j) PROVE RecordsInv'
  BY <1>3, ReturnRecords DEF RequestEnds, CancelReturns, DeleteReturns
<1>4. ASSUME NEW j \in Jobs, Submit(j) PROVE RecordsInv'
  BY <1>4, SubmitRecords
<1>5. ASSUME NEW j \in Jobs, NEW what, AskCancel(j, what) PROVE RecordsInv'
  BY <1>5, CancelRecords
<1>6. ASSUME NEW b \in Backtests, DeleteRow(b) PROVE RecordsInv'
  BY <1>6, DeleteRowRecords
<1>7. CASE TimePasses \/ UNCHANGED vars
  BY <1>7, SameRecords DEF TimePasses, jobVars, vars
<1>8. CASE Restart
  BY <1>8, RestartRecords
<1> QED
  BY <1>1, <1>2, <1>3, <1>4, <1>5, <1>6, <1>7, <1>8 DEF Next

\* A deleted backtest stays deleted and the row of one that is over says how,
\* whatever requests, trims, restarts and its own task do in between
\* (backtests.py 341-362, 437-439).
THEOREM RecordsTrueHolds == Spec => []RecordsTrue
<1>1. RecordsInv => RecordsTrue
  BY DEF RecordsInv, Told, RecordsTrue
<1> QED
  BY <1>1, RecordsInitially, NextRecords, PTL DEF Spec

-----------------------------------------------------------------------------
(* What a candle file holds *)

\* A set of numbers below a bound is finite, and has a greatest member.
LEMMA BoundedIsFinite ==
  ASSUME NEW t \in Nat, NEW S \in SUBSET Nat, \A s \in S : s < t
  PROVE  IsFiniteSet(S) /\ Cardinality(S) \in Nat
<1>1. S \subseteq 0..t
  <2> SUFFICES ASSUME NEW s \in S PROVE s \in 0..t
    OBVIOUS
  <2>1. s \in Nat /\ s < t
    OBVIOUS
  <2> QED
    BY <2>1
<1>2. IsFiniteSet(0..t)
  <2>1. 0 \in Int /\ t \in Int
    OBVIOUS
  <2> QED
    BY <2>1, FS_Interval, Zenon
<1>3. IsFiniteSet(S)
  BY <1>1, <1>2, FS_Subset, Zenon
<1> QED
  BY <1>3, FS_CardinalityType

LEMMA HasGreatest ==
  ASSUME NEW t \in Nat, NEW S \in SUBSET Nat, \A s \in S : s < t, S # {}
  PROVE  \E g \in S : \A s \in S : s <= g
<1> DEFINE D == {t - s : s \in S}
<1>1. D \in SUBSET Nat
  <2> SUFFICES ASSUME NEW s \in S PROVE t - s \in Nat
    OBVIOUS
  <2>1. s \in Nat /\ s < t
    OBVIOUS
  <2> QED
    BY <2>1
<1>2. D # {}
  OBVIOUS
<1>3. PICK d \in D : \A x \in D : d <= x
  <2> HIDE DEF D
  <2> QED
    BY <1>1, <1>2, HasLeast
<1>4. PICK g \in S : d = t - g
  OBVIOUS
<1>5. \A s \in S : s <= g
  <2> SUFFICES ASSUME NEW s \in S PROVE s <= g
    OBVIOUS
  <2>1. t - g <= t - s /\ s \in Nat /\ g \in Nat
    BY <1>3, <1>4
  <2> QED
    BY <2>1
<1> QED
  BY <1>5

\* The candles of a range, and those of them from a candle on.
RangeOf(k) == {n \in Held[k] : First[k] <= n /\ n < Last[k]}
RangeFrom(k, to) == {n \in RangeOf(k) : to <= n}

LEMMA KeyTypes ==
  ASSUME NEW k \in Keys
  PROVE  Held[k] \subseteq Nat /\ First[k] \in Nat /\ Last[k] \in Nat
  BY JobsAssumption

LEMMA PageLimits == PageSize \in Nat /\ PageSize > 0 /\ MaxRequests \in Nat /\ MaxRequests > 0
  BY JobsAssumption

\* A page is all candles before `to` from some candle on: whoever is later than
\* a candle of the page is on it.
LEMMA BatchIsUpper ==
  ASSUME NEW k \in Keys, NEW to \in Nat
  PROVE  /\ Batch(k, to) \subseteq Held[k] /\ \A n \in Batch(k, to) : n \in Nat /\ n < to
         /\ IsFiniteSet(Batch(k, to)) /\ Cardinality(Batch(k, to)) \in Nat
         /\ \A n \in Batch(k, to), m \in Held[k] : n <= m /\ m < to => m \in Batch(k, to)
<1> DEFINE before == {n \in Held[k] : n < to}
           above(n) == {m \in before : m > n}
<1>1. Held[k] \subseteq Nat
  BY KeyTypes
<1>2. /\ Batch(k, to) \subseteq before
      /\ \A n \in before : n \in Batch(k, to) <=> Cardinality(above(n)) < PageSize
  BY DEF Batch
<1>3. \A n \in before : n \in Nat /\ n < to /\ n \in Held[k]
  BY <1>1
<1>4. \A n \in Nat : above(n) \in SUBSET Nat /\ \A m \in above(n) : m < to
  BY <1>3
<1>5. ASSUME NEW n \in Batch(k, to), NEW m \in Held[k], n <= m, m < to
      PROVE  m \in Batch(k, to)
  <2>1. n \in Nat /\ n \in before /\ m \in Nat /\ m \in before
    BY <1>1, <1>2, <1>3, <1>5
  <2>2. above(m) \subseteq above(n)
    <3> SUFFICES ASSUME NEW x \in above(m) PROVE x \in above(n)
      OBVIOUS
    <3>1. x \in before /\ x \in Nat /\ x > m
      BY <1>3
    <3>2. x > n
      BY <1>5, <2>1, <3>1
    <3> QED
      BY <3>1, <3>2
  <2>3. IsFiniteSet(above(n))
    <3>1. above(n) \in SUBSET Nat /\ \A x \in above(n) : x < to
      BY <1>4, <2>1
    <3> HIDE DEF above
    <3> QED
      BY <3>1, BoundedIsFinite, Zenon
  <2>4. /\ Cardinality(above(m)) <= Cardinality(above(n))
        /\ Cardinality(above(m)) \in Nat /\ Cardinality(above(n)) \in Nat
    <3> HIDE DEF above
    <3>1. IsFiniteSet(above(m)) /\ Cardinality(above(m)) <= Cardinality(above(n))
      BY <2>2, <2>3, FS_Subset, Zenon
    <3> QED
      BY <2>3, <3>1, FS_CardinalityType
  <2>5. Cardinality(above(n)) < PageSize
    BY <1>2, <2>1
  <2>6. Cardinality(above(m)) < PageSize
    BY <2>4, <2>5, PageLimits
  <2> QED
    BY <1>2, <2>1, <2>6
<1>6. Batch(k, to) \in SUBSET Nat /\ \A n \in Batch(k, to) : n < to
  BY <1>2, <1>3
<1>7. IsFiniteSet(Batch(k, to)) /\ Cardinality(Batch(k, to)) \in Nat
  BY <1>6, BoundedIsFinite, Zenon
<1>8. Batch(k, to) \subseteq Held[k]
  BY <1>2
<1> QED
  BY <1>5, <1>6, <1>7, <1>8

\* A page that is not full is all there is before `to`.
LEMMA ShortBatch ==
  ASSUME NEW k \in Keys, NEW to \in Nat, Cardinality(Batch(k, to)) < PageSize
  PROVE  Batch(k, to) = {n \in Held[k] : n < to}
<1> DEFINE before == {n \in Held[k] : n < to}
           above(n) == {m \in before : m > n}
           rest == before \ Batch(k, to)
<1>1. Held[k] \subseteq Nat
  BY KeyTypes
<1>2. /\ Batch(k, to) \subseteq before
      /\ \A n \in before : n \in Batch(k, to) <=> Cardinality(above(n)) < PageSize
  BY DEF Batch
<1>3. ASSUME rest # {} PROVE FALSE
  <2>1. rest \in SUBSET Nat /\ \A n \in rest : n < to
    BY <1>1
  <2>2. PICK g \in rest : \A n \in rest : n <= g
    <3> HIDE DEF rest
    <3> QED
      BY <1>3, <2>1, HasGreatest
  <2>3. above(g) \subseteq Batch(k, to)
    <3> SUFFICES ASSUME NEW x \in above(g), x \notin Batch(k, to) PROVE FALSE
      OBVIOUS
    <3>1. x \in rest /\ x > g /\ x \in Nat /\ g \in Nat
      BY <1>1
    <3> QED
      BY <2>2, <3>1
  <2>4. g \in before /\ ~(Cardinality(above(g)) < PageSize)
    BY <1>2
  <2>5. IsFiniteSet(Batch(k, to)) /\ Cardinality(Batch(k, to)) \in Nat
    BY BatchIsUpper
  <2>6. /\ Cardinality(above(g)) <= Cardinality(Batch(k, to))
        /\ Cardinality(above(g)) \in Nat
    <3> HIDE DEF above
    <3>1. IsFiniteSet(above(g)) /\ Cardinality(above(g)) <= Cardinality(Batch(k, to))
      BY <2>3, <2>5, FS_Subset, Zenon
    <3> QED
      BY <3>1, FS_CardinalityType
  <2> QED
    BY <2>4, <2>5, <2>6, PageLimits
<1> QED
  BY <1>2, <1>3

-----------------------------------------------------------------------------
\* Ranges that max_requests pages can hold.
Enough == \A k \in Keys : Cardinality(RangeOf(k)) <= PageSize * MaxRequests

\* Where get_candles_range stands with the frame of j.
PagesAt(k, p) ==
  /\ p.to \in Nat /\ p.to <= Last[k]
  /\ p.left \in Nat /\ p.left >= 1 /\ p.left <= MaxRequests
  /\ p.got = RangeFrom(k, p.to)
  /\ Cardinality(p.got) >= PageSize * (MaxRequests - p.left)

PagesOf(j) ==
  /\ job[j].progress \in Nat /\ job[j].progress < Len(Wants[j])
  /\ PagesAt(Frame(j), page[j])

PagesInv ==
  /\ DOMAIN job = Jobs /\ \A j \in Jobs : {"status", "at", "progress", "kept"} \subseteq DOMAIN job[j]
  /\ \A j \in Jobs : job[j].progress \in Nat
  /\ DOMAIN page = Jobs
  /\ DOMAIN files = Keys
  /\ \A j \in Jobs : job[j].at = "paging" => PagesOf(j)
  /\ FramesComplete

LEMMA FrameIsKey ==
  ASSUME NEW j \in Jobs, job[j].progress \in Nat, job[j].progress < Len(Wants[j])
  PROVE  Frame(j) \in Keys
<1>1. Wants[j] \in Seq(Keys) /\ Len(Wants[j]) \in Nat
  BY JobsAssumption, LenProperties
<1>2. job[j].progress + 1 \in 1..Len(Wants[j])
  BY <1>1
<1> QED
  BY <1>1, <1>2, ElementOfSeq DEF Frame

LEMMA RangeIsFinite ==
  ASSUME NEW k \in Keys, NEW to \in Nat
  PROVE  /\ IsFiniteSet(RangeOf(k)) /\ Cardinality(RangeOf(k)) \in Nat
         /\ IsFiniteSet(RangeFrom(k, to)) /\ Cardinality(RangeFrom(k, to)) \in Nat
<1>1. RangeOf(k) \in SUBSET Nat /\ Last[k] \in Nat /\ \A n \in RangeOf(k) : n < Last[k]
  BY KeyTypes DEF RangeOf
<1>2. RangeFrom(k, to) \in SUBSET Nat /\ \A n \in RangeFrom(k, to) : n < Last[k]
  BY <1>1 DEF RangeFrom
<1> QED
  BY <1>1, <1>2, BoundedIsFinite, Zenon

\* What is collected with a page of candles, all of them after the start.
LEMMA CollectedBeyond ==
  ASSUME NEW j \in Jobs, PagesOf(j), 
         \A n \in Batch(Frame(j), page[j].to) : n > First[Frame(j)]
  PROVE  LET k == Frame(j)
             batch == Batch(k, page[j].to)
         IN /\ Collected(j) = page[j].got \cup batch
            /\ Collected(j) \subseteq RangeOf(k)
            /\ Cardinality(Collected(j)) = Cardinality(page[j].got) + Cardinality(batch)
            /\ Cardinality(page[j].got) \in Nat
<1> DEFINE k == Frame(j)
           to == page[j].to
           batch == Batch(k, to)
<1>1. k \in Keys /\ to \in Nat /\ to <= Last[k] /\ page[j].got = RangeFrom(k, to)
  BY FrameIsKey DEF PagesOf, PagesAt
<1>2. /\ batch \subseteq Held[k] /\ \A n \in batch : n \in Nat /\ n < to
      /\ IsFiniteSet(batch)
  BY <1>1, BatchIsUpper
<1>3. Held[k] \subseteq Nat /\ First[k] \in Nat /\ Last[k] \in Nat
  BY <1>1, KeyTypes
<1>4. \A n \in batch : n > First[k]
  OBVIOUS
<1>5. Collected(j) = page[j].got \cup InRange(k, batch)
  BY DEF Collected
<1> HIDE DEF k
<1> HIDE DEF to
<1> HIDE DEF batch
<1>6. \A n \in batch : First[k] <= n /\ n <= Last[k] /\ n < Last[k]
  <2> SUFFICES ASSUME NEW n \in batch PROVE First[k] <= n /\ n <= Last[k] /\ n < Last[k]
    OBVIOUS
  <2>1. n \in Nat /\ n < to /\ n > First[k]
    BY <1>2, <1>4
  <2> QED
    BY <1>1, <1>3, <2>1
<1>7. InRange(k, batch) = batch
  BY <1>6 DEF InRange
<1>8. batch \subseteq RangeOf(k) /\ page[j].got \subseteq RangeOf(k)
  BY <1>1, <1>2, <1>6 DEF RangeOf, RangeFrom
<1>9. page[j].got \cap batch = {}
  <2> SUFFICES ASSUME NEW n \in page[j].got, n \in batch PROVE FALSE
    OBVIOUS
  <2>1. to <= n /\ n < to /\ n \in Nat
    BY <1>1, <1>2 DEF RangeFrom
  <2> QED
    BY <1>1, <2>1
<1>10. IsFiniteSet(page[j].got) /\ Cardinality(page[j].got) \in Nat
  BY <1>1, RangeIsFinite
<1>11. Cardinality(page[j].got \cup batch) = Cardinality(page[j].got) + Cardinality(batch)
  <2>1. Cardinality(page[j].got \cup batch)
          = Cardinality(page[j].got) + Cardinality(batch) - Cardinality(page[j].got \cap batch)
    BY <1>2, <1>10, FS_Union, Zenon
  <2>2. Cardinality(page[j].got \cap batch) = 0 /\ Cardinality(batch) \in Nat
    BY <1>2, <1>9, FS_EmptySet, FS_CardinalityType
  <2> QED
    BY <1>10, <2>1, <2>2
<1> QED
  BY <1>5, <1>7, <1>8, <1>10, <1>11 DEF k, batch, to

\* The last page completes the range.
LEMMA LastCompletes ==
  ASSUME Enough, NEW j \in Jobs, PagesOf(j), LastPage(j)
  PROVE  Collected(j) = RangeOf(Frame(j))
<1> DEFINE k == Frame(j)
           to == page[j].to
           batch == Batch(k, to)
<1>1. k \in Keys /\ to \in Nat /\ to <= Last[k] /\ page[j].got = RangeFrom(k, to)
  BY FrameIsKey DEF PagesOf, PagesAt
<1>2. /\ batch \subseteq Held[k] /\ \A n \in batch : n \in Nat /\ n < to
      /\ IsFiniteSet(batch) /\ Cardinality(batch) \in Nat
      /\ \A n \in batch, m \in Held[k] : n <= m /\ m < to => m \in batch
  BY <1>1, BatchIsUpper
<1>3. Held[k] \subseteq Nat /\ First[k] \in Nat /\ Last[k] \in Nat
  BY <1>1, KeyTypes
<1>4. Collected(j) = page[j].got \cup InRange(k, batch)
  BY DEF Collected
<1>5. \/ Cardinality(batch) < PageSize
      \/ \E n \in batch : n <= First[k]
      \/ page[j].left = 1
  BY DEF LastPage
<1>6. Cardinality(batch) < PageSize => batch = {n \in Held[k] : n < to}
  BY <1>1, ShortBatch
<1>7. ASSUME \A n \in RangeOf(k) : n < to => n \in batch
      PROVE  Collected(j) = RangeOf(k)
  <2> HIDE DEF batch
  <2> HIDE DEF k
  <2> HIDE DEF to
  <2>1. Collected(j) \subseteq RangeOf(k)
    <3> SUFFICES ASSUME NEW n \in InRange(k, batch) PROVE n \in RangeOf(k)
      BY <1>1, <1>4 DEF RangeFrom
    <3>1. n \in batch /\ n \in Nat /\ n < to /\ First[k] <= n /\ n \in Held[k]
      BY <1>2 DEF InRange
    <3>2. n < Last[k]
      BY <1>1, <1>3, <3>1
    <3> QED
      BY <3>1, <3>2 DEF RangeOf
  <2>2. RangeOf(k) \subseteq Collected(j)
    <3> SUFFICES ASSUME NEW n \in RangeOf(k) PROVE n \in Collected(j)
      OBVIOUS
    <3>1. n \in Nat /\ First[k] <= n /\ n < Last[k] /\ n <= Last[k]
      BY <1>3 DEF RangeOf
    <3>2. CASE to <= n
      BY <1>1, <1>4, <3>2 DEF RangeFrom
    <3>3. CASE n < to
      BY <1>4, <1>7, <3>1, <3>3 DEF InRange
    <3> QED
      BY <1>1, <3>1, <3>2, <3>3
  <2> QED
    BY <2>1, <2>2
<1>8. CASE Cardinality(batch) < PageSize
  BY <1>6, <1>7, <1>8 DEF RangeOf
<1>9. CASE \E n \in batch : n <= First[k]
  <2>1. PICK n \in batch : n <= First[k]
    BY <1>9
  <2>2. \A m \in RangeOf(k) : m < to => m \in batch
    <3> SUFFICES ASSUME NEW m \in RangeOf(k), m < to PROVE m \in batch
      OBVIOUS
    <3>1. m \in Held[k] /\ m \in Nat /\ First[k] <= m /\ n \in Nat
      BY <1>2, <1>3 DEF RangeOf
    <3>2. n <= m
      BY <1>3, <2>1, <3>1
    <3> QED
      BY <1>2, <3>1, <3>2
  <2> QED
    BY <1>7, <2>2
<1>10. CASE page[j].left = 1 /\ ~(Cardinality(batch) < PageSize) /\ ~\E n \in batch : n <= First[k]
  <2>1. \A n \in batch : n > First[k]
    BY <1>2, <1>3, <1>10
  <2>2. /\ Collected(j) \subseteq RangeOf(k)
        /\ Cardinality(Collected(j)) = Cardinality(page[j].got) + Cardinality(batch)
        /\ Cardinality(page[j].got) \in Nat
    BY <2>1, CollectedBeyond
  <2>3. Cardinality(page[j].got) >= PageSize * (MaxRequests - 1)
    BY <1>10 DEF PagesOf, PagesAt
  <2>4. PageSize * (MaxRequests - 1) + PageSize = PageSize * MaxRequests
    BY PageLimits
  <2>5. PageSize * (MaxRequests - 1) \in Nat /\ PageSize * MaxRequests \in Nat
    <3>1. MaxRequests - 1 \in Nat
      BY PageLimits
    <3> QED
      BY <3>1, PageLimits
  <2>6. Cardinality(Collected(j)) >= PageSize * MaxRequests
    BY <1>2, <1>10, <2>2, <2>3, <2>4, <2>5, PageLimits
  <2>7. IsFiniteSet(RangeOf(k)) /\ Cardinality(RangeOf(k)) \in Nat
    BY <1>1, RangeIsFinite
  <2>8. Cardinality(RangeOf(k)) <= PageSize * MaxRequests
    BY <1>1 DEF Enough
  <2>9. /\ IsFiniteSet(Collected(j)) /\ Cardinality(Collected(j)) <= Cardinality(RangeOf(k))
        /\ (Cardinality(Collected(j)) = Cardinality(RangeOf(k)) => Collected(j) = RangeOf(k))
    BY <2>2, <2>7, FS_Subset, Zenon
  <2>10. Cardinality(Collected(j)) \in Nat
    BY <2>9, FS_CardinalityType
  <2> QED
    BY <2>5, <2>6, <2>7, <2>8, <2>9, <2>10
<1> QED
  BY <1>5, <1>8, <1>9, <1>10

LEMMA PagesInitially == Init => PagesInv
<1> SUFFICES ASSUME Init PROVE PagesInv
  OBVIOUS
<1>1. /\ job = [j \in Jobs |-> Blank] /\ page = [j \in Jobs |-> NoPage] /\ files = [k \in Keys |-> {}]
  BY DEF Init
<1>2. FramesComplete
  BY <1>1 DEF FramesComplete
<1>3. \A j \in Jobs : job[j] = Blank
  BY <1>1
<1> QED
  BY <1>1, <1>2, <1>3 DEF PagesInv, Blank

\* A step that leaves the files alone and the pages of whoever is still paging.
LEMMA OthersPage ==
  ASSUME PagesInv, files' = files, DOMAIN page' = Jobs, DOMAIN job' = Jobs,
         \A j \in Jobs : {"status", "at", "progress", "kept"} \subseteq DOMAIN job'[j]
                         /\ job'[j].progress \in Nat,
         \A j \in Jobs : job'[j].at = "paging" =>
            \/ PagesOf(j)'
            \/ job[j].at = "paging" /\ job'[j].progress = job[j].progress /\ page'[j] = page[j]
  PROVE  PagesInv'
<1>1. FramesComplete'
  BY DEF PagesInv, FramesComplete
<1>2. ASSUME NEW j \in Jobs, job'[j].at = "paging" PROVE PagesOf(j)'
  <2>1. CASE job[j].at = "paging" /\ job'[j].progress = job[j].progress /\ page'[j] = page[j]
    BY <2>1 DEF PagesInv, PagesOf, Frame
  <2> QED
    BY <1>2, <2>1
<1> QED
  BY <1>1, <1>2 DEF PagesInv

\* The step of one job: it stops paging or does not begin to.
LEMMA JobsPage ==
  ASSUME PagesInv, files' = files, NEW j \in Jobs, NEW r, job' = [job EXCEPT ![j] = r],
         {"status", "at", "progress", "kept"} \subseteq DOMAIN r, r.progress \in Nat, r.at # "paging",
         page' \in {page, [page EXCEPT ![j] = NoPage]}
  PROVE  PagesInv'
<1>1. DOMAIN page' = Jobs /\ DOMAIN job' = Jobs /\ job'[j] = r
  BY DEF PagesInv
<1>2. \A i \in Jobs : i # j => job'[i] = job[i] /\ page'[i] = page[i]
  BY DEF PagesInv
<1>3. \A i \in Jobs : {"status", "at", "progress", "kept"} \subseteq DOMAIN job'[i] /\ job'[i].progress \in Nat
  BY <1>1, <1>2 DEF PagesInv
<1>4. \A i \in Jobs : job'[i].at = "paging" =>
         job[i].at = "paging" /\ job'[i].progress = job[i].progress /\ page'[i] = page[i]
  BY <1>1, <1>2
<1> QED
  BY <1>1, <1>3, <1>4, OthersPage

LEMMA MovePages ==
  ASSUME PagesInv, files' = files, NEW j \in Jobs, NEW w, w # "paging",
         job' = [job EXCEPT ![j].at = w], page' \in {page, [page EXCEPT ![j] = NoPage]}
  PROVE  PagesInv'
<1> DEFINE r == [job[j] EXCEPT !.at = w]
<1>1. job' = [job EXCEPT ![j] = r]
  BY DEF PagesInv
<1>2. {"status", "at", "progress", "kept"} \subseteq DOMAIN r /\ r.at = w /\ r.progress \in Nat
  BY DEF PagesInv
<1> HIDE DEF r
<1> QED
  BY <1>1, <1>2, JobsPage

LEMMA FinishPages ==
  ASSUME PagesInv, files' = files, NEW j \in Jobs, NEW s, Finish(j, s)
  PROVE  PagesInv'
<1> DEFINE r == [job[j] EXCEPT !.status = s, !.at = "ended"]
<1>1. job' = [job EXCEPT ![j] = r] /\ page' = [page EXCEPT ![j] = NoPage]
  BY DEF Finish, PagesInv
<1>2. {"status", "at", "progress", "kept"} \subseteq DOMAIN r /\ r.at = "ended" /\ r.progress \in Nat
  BY DEF PagesInv
<1> HIDE DEF r
<1> QED
  BY <1>1, <1>2, JobsPage

LEMMA CountPages ==
  ASSUME PagesInv, files' = files, NEW j \in Jobs, NEW n, CountFrame(j, n),
         page' \in {page, [page EXCEPT ![j] = NoPage]}
  PROVE  PagesInv'
<1> DEFINE r == [job[j] EXCEPT !.progress = @ + 1, !.kept = @ + n, !.at = "load"]
<1>1. job' = [job EXCEPT ![j] = r]
  BY DEF CountFrame, PagesInv
<1>2. {"status", "at", "progress", "kept"} \subseteq DOMAIN r /\ r.at = "load" /\ r.progress = job[j].progress + 1
  BY DEF PagesInv
<1>3. r.progress \in Nat
  BY <1>2 DEF PagesInv
<1> HIDE DEF r
<1> QED
  BY <1>1, <1>2, <1>3, JobsPage

LEMMA SamePages ==
  ASSUME PagesInv, UNCHANGED <<job, page, files>>
  PROVE  PagesInv'
<1>1. \A j \in Jobs : job'[j].at = "paging" =>
            job[j].at = "paging" /\ job'[j].progress = job[j].progress /\ page'[j] = page[j]
  OBVIOUS
<1>2. \A j \in Jobs : {"status", "at", "progress", "kept"} \subseteq DOMAIN job'[j]
                         /\ job'[j].progress \in Nat
  BY DEF PagesInv
<1>3. files' = files /\ DOMAIN page' = Jobs /\ DOMAIN job' = Jobs
  BY DEF PagesInv
<1> QED
  BY <1>1, <1>2, <1>3, OthersPage

\* The first page is asked for.
LEMMA LoadPagesPages ==
  ASSUME PagesInv, NEW j \in Jobs, LoadPages(j)
  PROVE  PagesInv'
<1>1. /\ job[j].progress \in Nat /\ job[j].progress < Len(Wants[j]) /\ files' = files
      /\ job' = [job EXCEPT ![j].at = "paging"] /\ page' = [page EXCEPT ![j] = FirstPage(Frame(j))]
  BY DEF LoadPages, ToLoad, PagesInv
<1>2. /\ DOMAIN job' = Jobs /\ DOMAIN page' = Jobs
      /\ page'[j] = FirstPage(Frame(j)) /\ job'[j].progress = job[j].progress
      /\ \A i \in Jobs : {"status", "at", "progress", "kept"} \subseteq DOMAIN job'[i]
                         /\ job'[i].progress \in Nat
      /\ \A i \in Jobs : i # j => job'[i] = job[i] /\ page'[i] = page[i]
  BY <1>1 DEF PagesInv
<1>3. PagesOf(j)'
  <2> DEFINE k == Frame(j)
  <2>1. k \in Keys /\ Frame(j)' = k
    BY <1>1, <1>2, FrameIsKey DEF Frame
  <2>2. page'[j].to = Last[k] /\ page'[j].got = {} /\ page'[j].left = MaxRequests
    BY <1>2 DEF FirstPage
  <2>3. Last[k] \in Nat /\ Held[k] \subseteq Nat
    BY <2>1, KeyTypes
  <2>4. RangeFrom(k, Last[k]) = {}
    <3> SUFFICES ASSUME NEW n \in RangeFrom(k, Last[k]) PROVE FALSE
      OBVIOUS
    <3>1. n < Last[k] /\ Last[k] <= n /\ n \in Nat
      BY <2>3 DEF RangeFrom, RangeOf
    <3> QED
      BY <2>3, <3>1
  <2>5. Cardinality({}) = 0 /\ PageSize * (MaxRequests - MaxRequests) = 0
    BY PageLimits, FS_EmptySet
  <2> HIDE DEF k
  <2>6. PagesAt(k, page'[j])
    BY <2>2, <2>3, <2>4, <2>5, PageLimits DEF PagesAt
  <2> QED
    BY <1>1, <1>2, <2>1, <2>6 DEF PagesOf
<1> QED
  BY <1>1, <1>2, <1>3, OthersPage

\* A page is collected and the next one asked for.
LEMMA NextPagePages ==
  ASSUME PagesInv, NEW j \in Jobs, NextPage(j)
  PROVE  PagesInv'
<1>1. /\ job[j].at = "paging" /\ ~LastPage(j) /\ UNCHANGED <<job, files>>
      /\ page' = [page EXCEPT ![j] = [to |-> NextTo(j), got |-> Collected(j), left |-> @.left - 1]]
  BY DEF NextPage
<1>2. PagesOf(j)
  BY <1>1 DEF PagesInv
<1>3. /\ DOMAIN page' = Jobs
      /\ page'[j].to = NextTo(j) /\ page'[j].got = Collected(j) /\ page'[j].left = page[j].left - 1
      /\ \A i \in Jobs : i # j => page'[i] = page[i]
  BY <1>1 DEF PagesInv
<1>4. PagesOf(j)'
  <2> DEFINE k == Frame(j)
             to == page[j].to
             batch == Batch(k, to)
             least == NextTo(j)
  <2>1. k \in Keys /\ to \in Nat /\ to <= Last[k] /\ page[j].got = RangeFrom(k, to) /\ Frame(j)' = k
    BY <1>1, <1>2, FrameIsKey DEF PagesOf, PagesAt, Frame
  <2>2. /\ batch \subseteq Held[k] /\ \A n \in batch : n \in Nat /\ n < to
        /\ IsFiniteSet(batch) /\ Cardinality(batch) \in Nat
        /\ \A n \in batch, m \in Held[k] : n <= m /\ m < to => m \in batch
    BY <2>1, BatchIsUpper
  <2>3. Held[k] \subseteq Nat /\ First[k] \in Nat /\ Last[k] \in Nat
    BY <2>1, KeyTypes
  <2>4. /\ ~(Cardinality(batch) < PageSize) /\ page[j].left # 1
        /\ ~\E n \in batch : n <= First[k]
    BY <1>1 DEF LastPage
  <2>5. least = Oldest(batch)
    BY DEF NextTo
  <2> HIDE DEF k
  <2> HIDE DEF to
  <2> HIDE DEF batch
  <2> HIDE DEF least
  <2>6. \A n \in batch : n > First[k]
    BY <2>2, <2>3, <2>4
  <2>7. batch \in SUBSET Nat /\ batch # {}
    <3>1. Cardinality({}) = 0
      BY FS_EmptySet
    <3> QED
      BY <2>2, <2>4, <3>1, PageLimits
  <2>8. least \in batch /\ \A n \in batch : least <= n
    BY <2>5, <2>7, HasLeast DEF Oldest
  <2>9. /\ Collected(j) = page[j].got \cup batch
        /\ Cardinality(Collected(j)) = Cardinality(page[j].got) + Cardinality(batch)
        /\ Cardinality(page[j].got) \in Nat
    BY <1>2, <2>6, CollectedBeyond DEF k, to, batch
  <2>10. least \in Nat /\ least < to /\ least <= Last[k] /\ least > First[k]
    BY <2>1, <2>2, <2>3, <2>6, <2>8
  <2>11. Collected(j) = RangeFrom(k, least)
    <3>1. ASSUME NEW n \in Collected(j) PROVE n \in RangeFrom(k, least)
      <4>1. CASE n \in page[j].got
        <5>1. n \in RangeOf(k) /\ to <= n /\ n \in Nat
          BY <2>1, <2>3, <4>1 DEF RangeFrom, RangeOf
        <5>2. least <= n
          BY <2>1, <2>10, <5>1
        <5> QED
          BY <5>1, <5>2 DEF RangeFrom
      <4>2. CASE n \in batch
        <5>1. n \in Held[k] /\ n \in Nat /\ n < to /\ n > First[k] /\ least <= n
          BY <2>2, <2>6, <2>8, <4>2
        <5>2. First[k] <= n /\ n < Last[k]
          BY <2>1, <2>3, <5>1
        <5> QED
          BY <5>1, <5>2 DEF RangeFrom, RangeOf
      <4> QED
        BY <2>9, <3>1, <4>1, <4>2
    <3>2. ASSUME NEW n \in RangeFrom(k, least) PROVE n \in Collected(j)
      <4>1. n \in RangeOf(k) /\ n \in Held[k] /\ n \in Nat /\ least <= n
        BY <2>3, <3>2 DEF RangeFrom, RangeOf
      <4>2. CASE to <= n
        BY <2>1, <2>9, <4>1, <4>2 DEF RangeFrom
      <4>3. CASE n < to
        BY <2>2, <2>8, <2>9, <4>1, <4>3
      <4> QED
        BY <2>1, <4>1, <4>2, <4>3
    <3> QED
      BY <3>1, <3>2
  <2>12. /\ page[j].left \in Nat /\ page[j].left >= 1 /\ page[j].left <= MaxRequests
         /\ Cardinality(page[j].got) >= PageSize * (MaxRequests - page[j].left)
         /\ job[j].progress \in Nat /\ job[j].progress < Len(Wants[j])
    BY <1>2 DEF PagesOf, PagesAt
  <2>13. /\ page'[j].left \in Nat /\ page'[j].left >= 1 /\ page'[j].left <= MaxRequests
    BY <1>3, <2>4, <2>12, PageLimits
  <2>14. Cardinality(Collected(j)) >= PageSize * (MaxRequests - page'[j].left)
    <3>1. MaxRequests - page[j].left \in Nat
      BY <2>12, PageLimits
    <3>2. MaxRequests - page'[j].left = (MaxRequests - page[j].left) + 1
      BY <1>3, <2>12, PageLimits
    <3>3. PageSize * ((MaxRequests - page[j].left) + 1) = PageSize * (MaxRequests - page[j].left) + PageSize
      BY <3>1, PageLimits
    <3>4. PageSize * (MaxRequests - page[j].left) \in Nat
      BY <3>1, PageLimits
    <3>5. Cardinality(Collected(j)) >= Cardinality(page[j].got) + PageSize
      BY <2>2, <2>4, <2>9, PageLimits
    <3>6. Cardinality(page[j].got) >= PageSize * (MaxRequests - page[j].left)
      BY <2>12
    <3>7. PageSize * (MaxRequests - page'[j].left)
            = PageSize * (MaxRequests - page[j].left) + PageSize
      BY <3>2, <3>3
    <3> QED
      <4> DEFINE all == Cardinality(Collected(j))
                 got == Cardinality(page[j].got)
                 full == PageSize * (MaxRequests - page[j].left)
                 more == PageSize * (MaxRequests - page'[j].left)
      <4>1. got \in Nat /\ full \in Nat /\ PageSize \in Nat /\ all \in Nat
        BY <2>2, <2>9, <3>4, PageLimits
      <4>2. all >= got + PageSize /\ got >= full /\ more = full + PageSize
        BY <3>5, <3>6, <3>7
      <4> HIDE DEF all, got, full, more
      <4>3. all >= more
        BY <4>1, <4>2
      <4> QED
        BY <4>3 DEF all, more
  <2>15. PagesAt(k, page'[j])
    <3>1. page'[j].to = least
      BY <1>3 DEF least
    <3> QED
      BY <1>3, <2>10, <2>11, <2>13, <2>14, <3>1 DEF PagesAt
  <2> QED
    BY <1>1, <2>1, <2>12, <2>15 DEF PagesOf
<1>5. \A i \in Jobs : job'[i].at = "paging" =>
         \/ PagesOf(i)'
         \/ job[i].at = "paging" /\ job'[i].progress = job[i].progress /\ page'[i] = page[i]
  BY <1>1, <1>3, <1>4
<1>6. DOMAIN job' = Jobs /\ files' = files
      /\ \A i \in Jobs : {"status", "at", "progress", "kept"} \subseteq DOMAIN job'[i]
                         /\ job'[i].progress \in Nat
  BY <1>1 DEF PagesInv
<1> QED
  BY <1>3, <1>5, <1>6, OthersPage

\* The file is written: it holds the whole range.
LEMMA SaveFilePages ==
  ASSUME Enough, PagesInv, NEW j \in Jobs, SaveFile(j)
  PROVE  PagesInv'
<1>1. /\ job[j].at = "paging" /\ LastPage(j)
      /\ files' = [files EXCEPT ![Frame(j)] = Collected(j)]
      /\ page' = [page EXCEPT ![j] = NoPage] /\ job' = [job EXCEPT ![j].at = "loaded"]
  BY DEF SaveFile
<1>2. PagesOf(j)
  BY <1>1 DEF PagesInv
<1>3. Frame(j) \in Keys /\ Collected(j) = RangeOf(Frame(j))
  BY <1>1, <1>2, LastCompletes, FrameIsKey DEF PagesOf, PagesAt
<1>4. DOMAIN files' = Keys /\ FramesComplete'
  <2>1. DOMAIN files' = Keys /\ \A k \in Keys : files'[k] = IF k = Frame(j) THEN Collected(j) ELSE files[k]
    BY <1>1 DEF PagesInv
  <2>2. ASSUME NEW k \in Keys, files'[k] # {}
        PROVE  files'[k] = {n \in Held[k] : First[k] <= n /\ n < Last[k]}
    <3>1. CASE k = Frame(j)
      BY <1>3, <2>1, <3>1 DEF RangeOf
    <3>2. CASE k # Frame(j)
      BY <2>1, <2>2, <3>2 DEF PagesInv, FramesComplete
    <3> QED
      BY <3>1, <3>2
  <2> QED
    BY <2>1, <2>2 DEF FramesComplete
<1>5. /\ DOMAIN page' = Jobs /\ DOMAIN job' = Jobs /\ job'[j].at = "loaded"
      /\ \A i \in Jobs : {"status", "at", "progress", "kept"} \subseteq DOMAIN job'[i]
                         /\ job'[i].progress \in Nat
      /\ \A i \in Jobs : i # j => job'[i] = job[i] /\ page'[i] = page[i]
  BY <1>1 DEF PagesInv
<1>6. ASSUME NEW i \in Jobs, job'[i].at = "paging" PROVE PagesOf(i)'
  <2>1. job[i].at = "paging" /\ job'[i].progress = job[i].progress /\ page'[i] = page[i]
    BY <1>5, <1>6
  <2> QED
    BY <2>1 DEF PagesInv, PagesOf, Frame
<1> QED
  BY <1>4, <1>5, <1>6 DEF PagesInv

LEMMA TaskStepPages ==
  ASSUME Enough, PagesInv, NEW j \in Jobs, TaskStep(j)
  PROVE  PagesInv'
<1>0. /\ DOMAIN job = Jobs /\ {"status", "at", "progress", "kept"} \subseteq DOMAIN job[j]
      /\ job[j].progress \in Nat
  BY DEF PagesInv
<1>1. CASE Enter(j)
  <2>1. CASE Finish(j, "done") /\ files' = files
    BY <2>1, FinishPages
  <2>2. CASE job' = [job EXCEPT ![j].status = "running", ![j].at = "load"] /\ UNCHANGED <<page, files>>
    <3> DEFINE r == [job[j] EXCEPT !.status = "running", !.at = "load"]
    <3>1. job' = [job EXCEPT ![j] = r] /\ page' = page /\ files' = files
      BY <1>0, <2>2
    <3>2. {"status", "at", "progress", "kept"} \subseteq DOMAIN r /\ r.at = "load" /\ r.progress \in Nat
      BY <1>0
    <3> HIDE DEF r
    <3> QED
      BY <3>1, <3>2, JobsPage
  <2> QED
    BY <1>1, <2>1, <2>2 DEF Enter
<1>2. CASE LoadFile(j) \/ StartThread(j) \/ UnwindEarly(j)
  <2>1. PICK w \in {"loaded", "thread", "never began"} : job' = [job EXCEPT ![j].at = w]
    BY <1>2 DEF LoadFile, StartThread, UnwindEarly
  <2>2. w # "paging" /\ page' = page /\ files' = files
    BY <1>2 DEF LoadFile, StartThread, UnwindEarly
  <2> QED
    BY <2>1, <2>2, MovePages
<1>3. CASE LoadPages(j)
  BY <1>3, LoadPagesPages
<1>4. CASE NextPage(j)
  BY <1>4, NextPagePages
<1>5. CASE SaveFile(j)
  BY <1>5, SaveFilePages
<1>6. CASE LoadFails(j) \/ KeepFrame(j)
  <2>1. (CountFrame(j, 0) \/ CountFrame(j, 1)) /\ files' = files /\ page' \in {page, [page EXCEPT ![j] = NoPage]}
    BY <1>6 DEF LoadFails, KeepFrame
  <2> QED
    BY <2>1, CountPages
<1>7. CASE Done(j) \/ NothingLoaded(j) \/ Unwind(j)
  <2>1. (Finish(j, "done") \/ Finish(j, "error") \/ Finish(j, "cancelled")) /\ files' = files
    BY <1>7 DEF Done, NothingLoaded, Unwind
  <2> QED
    BY <2>1, FinishPages
<1>8. CASE ClientStep(j)
  BY <1>8, SamePages DEF ClientStep, jobVars
<1> QED
  BY <1>1, <1>2, <1>3, <1>4, <1>5, <1>6, <1>7, <1>8 DEF TaskStep

LEMMA OtherStepPages ==
  ASSUME PagesInv, NEW j \in Jobs,
         ThreadEnds(j) \/ ThreadRaises(j) \/ RequestEnds(j) \/ Submit(j) \/ \E what : AskCancel(j, what)
  PROVE  PagesInv'
<1>0. /\ DOMAIN job = Jobs /\ {"status", "at", "progress", "kept"} \subseteq DOMAIN job[j]
      /\ job[j].progress \in Nat
  BY DEF PagesInv
<1>1. CASE ThreadRaises(j)
  BY <1>1, FinishPages DEF ThreadRaises
<1>2. CASE ThreadEnds(j)
  <2>1. files' = files /\ page' = page
    BY <1>2 DEF ThreadEnds
  <2>2. CASE job' = job
    BY <2>1, <2>2, SamePages
  <2>3. CASE CountFrame(j, 1)
    BY <2>1, <2>3, CountPages
  <2>4. CASE job' = [job EXCEPT ![j].phase = "verify", ![j].kept = 0, ![j].at = "load"]
    <3> DEFINE r == [job[j] EXCEPT !.phase = "verify", !.kept = 0, !.at = "load"]
    <3>1. job' = [job EXCEPT ![j] = r]
      BY <1>0, <2>4
    <3>2. {"status", "at", "progress", "kept"} \subseteq DOMAIN r /\ r.at = "load" /\ r.progress \in Nat
      BY <1>0
    <3> HIDE DEF r
    <3> QED
      BY <2>1, <3>1, <3>2, JobsPage
  <2> QED
    BY <1>2, <2>2, <2>3, <2>4 DEF ThreadEnds
<1>3. CASE RequestEnds(j)
  <2>1. files' = files /\ page' = page /\ job' = AfterCancel(j) /\ TaskDone(j)
    BY <1>3 DEF RequestEnds, CancelReturns, DeleteReturns
  <2>2. CASE job' = job
    BY <2>1, <2>2, SamePages
  <2>3. CASE job' = [job EXCEPT ![j].status = "cancelled"]
    <3> DEFINE r == [job[j] EXCEPT !.status = "cancelled"]
    <3>1. job' = [job EXCEPT ![j] = r]
      BY <1>0, <2>3
    <3>2. {"status", "at", "progress", "kept"} \subseteq DOMAIN r /\ r.at = job[j].at /\ r.progress \in Nat
      BY <1>0
    <3>3. r.at # "paging"
      BY <2>1, <3>2 DEF TaskDone
    <3> HIDE DEF r
    <3> QED
      BY <2>1, <3>1, <3>2, <3>3, JobsPage
  <2> QED
    BY <2>1, <2>2, <2>3 DEF AfterCancel
<1>4. CASE Submit(j)
  <2> DEFINE r == [Blank EXCEPT !.status = "queued", !.at = "gate"]
  <2>1. job' = [job EXCEPT ![j] = r] /\ files' = files /\ page' = page
    BY <1>4 DEF Submit
  <2>2. {"status", "at", "progress", "kept"} \subseteq DOMAIN r /\ r.at = "gate" /\ r.progress \in Nat
    BY DEF Blank
  <2> HIDE DEF r
  <2> QED
    BY <2>1, <2>2, JobsPage
<1>5. ASSUME NEW what, AskCancel(j, what) PROVE PagesInv'
  <2>1. files' = files /\ page' = page
    BY <1>5 DEF AskCancel
  <2>2. CASE job' = job
    BY <2>1, <2>2, SamePages
  <2>3. CASE job' # job
    <3> DEFINE w == IF job[j].at \in {"gate", "unwinding early"} THEN "unwinding early" ELSE "unwinding"
    <3>1. job' = [job EXCEPT ![j].at = w]
      BY <1>5, <2>3 DEF AskCancel
    <3>2. w # "paging"
      OBVIOUS
    <3> HIDE DEF w
    <3> QED
      BY <2>1, <3>1, <3>2, MovePages
  <2> QED
    BY <2>2, <2>3
<1> QED
  BY <1>1, <1>2, <1>3, <1>4, <1>5

LEMMA RestartPages ==
  ASSUME PagesInv, Restart
  PROVE  PagesInv'
<1>1. job' = [j \in Jobs |-> Blank] /\ page' = [j \in Jobs |-> NoPage] /\ files' = files
  BY DEF Restart
<1>2. DOMAIN job' = Jobs /\ DOMAIN page' = Jobs /\ \A j \in Jobs : job'[j] = Blank
  BY <1>1
<1>3. \A j \in Jobs : {"status", "at", "progress", "kept"} \subseteq DOMAIN job'[j]
                         /\ job'[j].progress \in Nat /\ job'[j].at # "paging"
  BY <1>2 DEF Blank
<1> QED
  BY <1>1, <1>2, <1>3, OthersPage

LEMMA NextPages == Enough /\ PagesInv /\ [Next]_vars => PagesInv'
<1> SUFFICES ASSUME Enough, PagesInv, [Next]_vars PROVE PagesInv'
  OBVIOUS
<1>1. ASSUME NEW j \in Jobs, TaskStep(j) PROVE PagesInv'
  BY <1>1, TaskStepPages
<1>2. ASSUME NEW j \in Jobs, ThreadEnds(j) \/ ThreadRaises(j) \/ RequestEnds(j) \/ Submit(j) PROVE PagesInv'
  BY <1>2, OtherStepPages
<1>3. ASSUME NEW j \in Jobs, NEW what, AskCancel(j, what) PROVE PagesInv'
  BY <1>3, OtherStepPages
<1>4. CASE TimePasses \/ UNCHANGED vars
  BY <1>4, SamePages DEF TimePasses, jobVars, vars
<1>5. ASSUME NEW b \in Backtests, DeleteRow(b) PROVE PagesInv'
  BY <1>5, SamePages DEF DeleteRow
<1>6. CASE Restart
  BY <1>6, RestartPages
<1> QED
  BY <1>1, <1>2, <1>3, <1>4, <1>5, <1>6 DEF Next

\* When max_requests pages can hold the range, a candle file holds all candles
\* the exchange has of it and nothing else, however the range falls on the
\* pages (get_candles_range 263-280, load_candles 74-86).
THEOREM FramesCompleteHolds ==
  ASSUME Enough
  PROVE  Spec => []FramesComplete
<1>1. PagesInv => FramesComplete
  BY DEF PagesInv
<1>2. PagesInv /\ [Next]_vars => PagesInv'
  BY NextPages
<1> QED
  BY <1>1, <1>2, PagesInitially, PTL DEF Spec

-----------------------------------------------------------------------------
(* The switches of live trading *)

Stages == {"none", "launched", "reading", "guarded", "running", "over"}

GuardTypeOK ==
  /\ file \in Settings /\ dashboard \in Settings
  /\ stage \in [Processes -> Stages]
  /\ override \in [Processes -> {"file", "PAPER", "LIVE"}]
  /\ argument \in [Processes -> Phrases]
  /\ settings \in [Processes -> Settings]
  /\ broker \in [Processes -> {"paper", "live"}]
  /\ armed \in [Processes -> BOOLEAN]
  /\ typed \in [Processes -> Phrases]
  /\ orders \subseteq Processes

(* The phrase reaches a process only when it was typed, and never one that    *)
(* was started as PAPER.                                                      *)
PhraseWasTyped ==
  \A p \in Processes :
    argument[p] = LIVE_CONFIRM_PHRASE => typed[p] = LIVE_CONFIRM_PHRASE /\ override[p] # "PAPER"

(* A process beyond cmd_run with a LiveBroker has passed every guard.         *)
LiveIsGuarded ==
  \A p \in Processes :
    stage[p] \in {"guarded", "running"} /\ broker[p] = "live" =>
      Allowed(settings[p]) /\ argument[p] = LIVE_CONFIRM_PHRASE

(* A process that made an order has kept what it was guarded by.              *)
OrdersAreGuarded ==
  \A p \in orders :
    /\ stage[p] \in {"running", "over"}
    /\ Allowed(settings[p]) /\ argument[p] = LIVE_CONFIRM_PHRASE

GuardInv == GuardTypeOK /\ PhraseWasTyped /\ LiveIsGuarded /\ OrdersAreGuarded

\* No process has read anything.
LEMMA GuardInitially == GuardInit => GuardInv
<1> SUFFICES ASSUME GuardInit PROVE GuardInv
  OBVIOUS
<1> USE DEF GuardInit
<1>1. Default \in Settings  BY DEF Default, Settings, Modes
<1>2. "" \in Phrases /\ "" # LIVE_CONFIRM_PHRASE  BY DEF Phrases, LIVE_CONFIRM_PHRASE
<1>3. GuardTypeOK  BY <1>1, <1>2 DEF GuardTypeOK, Stages
<1>4. PhraseWasTyped  BY <1>2 DEF PhraseWasTyped
<1>5. LiveIsGuarded /\ OrdersAreGuarded  BY DEF LiveIsGuarded, OrdersAreGuarded
<1> QED  BY <1>3, <1>4, <1>5 DEF GuardInv

-----------------------------------------------------------------------------
(* A launch, whoever asks for it.                                             *)
LEMMA LaunchKeeps ==
  ASSUME GuardInv, NEW p \in Processes, NEW mode \in {"file", "PAPER", "LIVE"},
         NEW phrase \in Phrases, NEW given \in Phrases,
         given = LIVE_CONFIRM_PHRASE => phrase = LIVE_CONFIRM_PHRASE /\ mode # "PAPER",
         Launch(p, mode, phrase, given)
  PROVE  GuardInv'
<1> USE DEF GuardInv, Launch
<1>1. GuardTypeOK'  BY DEF GuardTypeOK, Stages
<1>2. PhraseWasTyped'  BY DEF GuardTypeOK, PhraseWasTyped
<1>3. LiveIsGuarded'  BY DEF GuardTypeOK, LiveIsGuarded, Allowed
<1>4. OrdersAreGuarded'
  <2>1. p \notin orders  BY DEF GuardTypeOK, OrdersAreGuarded
  <2> QED  BY <2>1 DEF GuardTypeOK, OrdersAreGuarded, Allowed
<1> QED  BY <1>1, <1>2, <1>3, <1>4

\* A process reads the file of this moment, its mode overridden or not.
LEMMA ReadSettingsKeeps ==
  ASSUME GuardInv, NEW p \in Processes, ReadSettings(p)
  PROVE  GuardInv'
<1> USE DEF GuardInv, ReadSettings
<1>1. GuardTypeOK'
  <2>1. [file EXCEPT !.mode = IF override[p] = "file" THEN file.mode ELSE override[p]]
          \in Settings
    BY DEF GuardTypeOK, Settings, Modes
  <2> QED  BY <2>1 DEF GuardTypeOK, Stages
<1>2. PhraseWasTyped'  BY DEF PhraseWasTyped
<1>3. LiveIsGuarded'  BY DEF GuardTypeOK, LiveIsGuarded, Allowed
<1>4. OrdersAreGuarded'
  <2>1. p \notin orders  BY DEF GuardTypeOK, OrdersAreGuarded
  <2> QED  BY <2>1 DEF GuardTypeOK, OrdersAreGuarded, Allowed
<1> QED  BY <1>1, <1>2, <1>3, <1>4

(* cmd_run is where the phrase and the switches are looked at together.       *)
LEMMA RunBeginsKeeps ==
  ASSUME GuardInv, NEW p \in Processes, RunBegins(p)
  PROVE  GuardInv'
<1> USE DEF GuardInv, RunBegins
<1>1. GuardTypeOK'  BY DEF GuardTypeOK, Stages, Allowed
<1>2. PhraseWasTyped'  BY DEF PhraseWasTyped
<1>3. LiveIsGuarded'  BY DEF GuardTypeOK, LiveIsGuarded, MayRun, Allowed
<1>4. OrdersAreGuarded'
  <2>1. p \notin orders  BY DEF GuardTypeOK, OrdersAreGuarded
  <2> QED  BY <2>1 DEF GuardTypeOK, OrdersAreGuarded, Allowed
<1> QED  BY <1>1, <1>2, <1>3, <1>4

\* Refusing, running and ending send no order.
LEMMA StageKeeps ==
  ASSUME GuardInv, NEW p \in Processes, RunRefused(p) \/ EngineRuns(p) \/ ProcessEnds(p)
  PROVE  GuardInv'
<1> USE DEF GuardInv, RunRefused, EngineRuns, ProcessEnds
<1>1. GuardTypeOK'  BY DEF GuardTypeOK, Stages
<1>2. PhraseWasTyped'  BY DEF PhraseWasTyped
<1>3. LiveIsGuarded'  BY DEF GuardTypeOK, LiveIsGuarded, Allowed
<1>4. OrdersAreGuarded'  BY DEF GuardTypeOK, OrdersAreGuarded, Allowed
<1> QED  BY <1>1, <1>2, <1>3, <1>4

\* A real order comes from a process past the guard (live_guard.py).
LEMMA RealOrderKeeps ==
  ASSUME GuardInv, NEW p \in Processes, RealOrder(p)
  PROVE  GuardInv'
<1> USE DEF GuardInv, RealOrder
<1>1. GuardTypeOK'  BY DEF GuardTypeOK
<1>2. PhraseWasTyped'  BY DEF PhraseWasTyped
<1>3. LiveIsGuarded'  BY DEF LiveIsGuarded, Allowed
<1>4. OrdersAreGuarded'  BY DEF OrdersAreGuarded, LiveIsGuarded, Allowed
<1> QED  BY <1>1, <1>2, <1>3, <1>4

\* Editing the file changes nothing for the processes that have read it.
LEMMA FileKeeps ==
  ASSUME GuardInv, EditFile \/ DashboardRestarts \/ UNCHANGED guardVars
  PROVE  GuardInv'
  BY DEF GuardInv, EditFile, DashboardRestarts, guardVars, GuardTypeOK, PhraseWasTyped,
         LiveIsGuarded, OrdersAreGuarded, Allowed

\* Every step keeps the invariant.
LEMMA GuardStep == GuardInv /\ [GuardNext]_guardVars => GuardInv'
<1> SUFFICES ASSUME GuardInv, [GuardNext]_guardVars PROVE GuardInv'
  OBVIOUS
<1>1. CASE EditFile \/ DashboardRestarts \/ UNCHANGED guardVars  BY <1>1, FileKeeps
<1>2. CASE \E p \in Processes, phrase \in Phrases : StartLive(p, phrase)
  BY <1>2, LaunchKeeps DEF StartLive, LIVE_CONFIRM_PHRASE, Phrases
<1>3. CASE \E p \in Processes, phrase \in Phrases : StartPaper(p, phrase)
  BY <1>3, LaunchKeeps DEF StartPaper, LIVE_CONFIRM_PHRASE, Phrases
<1>4. CASE \E p \in Processes, phrase \in Phrases : StartFromShell(p, phrase)
  BY <1>4, LaunchKeeps DEF StartFromShell
<1>5. CASE \E p \in Processes : ReadSettings(p)  BY <1>5, ReadSettingsKeeps
<1>6. CASE \E p \in Processes : RunBegins(p)  BY <1>6, RunBeginsKeeps
<1>7. CASE \E p \in Processes : RunRefused(p) \/ EngineRuns(p) \/ ProcessEnds(p)
  BY <1>7, StageKeeps
<1>8. CASE \E p \in Processes : RealOrder(p)  BY <1>8, RealOrderKeeps
<1> QED
  BY <1>1, <1>2, <1>3, <1>4, <1>5, <1>6, <1>7, <1>8 DEF GuardNext

-----------------------------------------------------------------------------
(* A real order comes only from a process that read both switches on and for  *)
(* whose start the phrase was typed, and not as a PAPER start: live_guard,    *)
(* cmd_run and api_bot_start together.                                        *)
THEOREM RealMoneyAskedFor == GuardSpec => []RealOrdersAskedFor
<1>1. GuardInv => RealOrdersAskedFor
  BY DEF GuardInv, GuardTypeOK, OrdersAreGuarded, PhraseWasTyped, RealOrdersAskedFor
<1> QED
  BY GuardInitially, GuardStep, <1>1, PTL DEF GuardSpec
==============================================================================
