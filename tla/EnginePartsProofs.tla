------------------------- MODULE EnginePartsProofs --------------------------
(* The parts the engine rests on, for every value of the bounds: the candles  *)
(* of a market and the rounds that act on them, the queue of notifications,   *)
(* the holding exits are judged by, and the prices of the feed.               *)
EXTENDS Integers, MarketRound, Notifications, Holdings, PriceFeed,
        FiniteSetTheorems, SequenceTheorems, WellFoundedInduction, TLAPS

-----------------------------------------------------------------------------
(* Sets of candles                                                            *)

\* The bounds are numbers.
LEMMA RoundSizes ==
  /\ Interval \in Nat \ {0} /\ Warmup \in Nat \ {0}
  /\ Refresh \in Nat \ {0} /\ MaxRows \in Nat \ {0}
  /\ Grace \in Nat /\ MaxLag \in Nat
  BY RoundAssumption

\* The candle of a moment has begun by then and is not over.
LEMMA CandleOf ==
  ASSUME NEW t \in Nat
  PROVE  /\ t \div Interval \in Nat
         /\ (t \div Interval) * Interval <= t
         /\ t < (t \div Interval + 1) * Interval
  BY RoundSizes

\* Later candles begin later.
LEMMA LaterBegins ==
  ASSUME NEW a \in Nat, NEW b \in Nat, a <= b
  PROVE  a * Interval <= b * Interval /\ a * Interval \in Nat
  BY RoundSizes

LEMMA NextBegins ==
  ASSUME NEW a \in Nat
  PROVE  (a + 1) * Interval = a * Interval + Interval
  BY RoundSizes

\* What began by t has a number up to that of the candle of t.
LEMMA BegunBy ==
  ASSUME NEW t \in Nat, NEW a \in Nat, a * Interval <= t
  PROVE  a <= t \div Interval
<1>1. t \div Interval \in Nat /\ t < (t \div Interval + 1) * Interval
  BY CandleOf
<1> SUFFICES ASSUME t \div Interval + 1 <= a PROVE FALSE
  BY <1>1
<1>2. (t \div Interval + 1) * Interval <= a * Interval /\ (t \div Interval + 1) * Interval \in Nat
      /\ a * Interval \in Nat
  BY <1>1, LaterBegins
<1> QED
  BY <1>1, <1>2

\* A set of numbers has a least member.
LEMMA HasOldest ==
  ASSUME NEW S \in SUBSET Nat, S # {}
  PROVE  Oldest(S) \in S /\ \A s \in S : Oldest(S) <= s
<1>1. PICK x \in S : \A y \in S : ~ (<<y, x>> \in OpToRel(<, Nat))
  BY WFMin, NatLessThanWellFounded, Zenon
<1>2. \A y \in S : x <= y
  <2> SUFFICES ASSUME NEW y \in S PROVE x <= y
    OBVIOUS
  <2>1. ~ (y < x)
    BY <1>1 DEF OpToRel
  <2> QED
    BY <2>1
<1> QED
  BY <1>2 DEF Oldest

\* A set of numbers with a bound has a greatest member.
LEMMA HasNewest ==
  ASSUME NEW n \in Nat, NEW S \in SUBSET (0..n), S # {}
  PROVE  Newest(S) \in S /\ \A s \in S : s <= Newest(S)
<1>0. \A s \in S : s \in Nat /\ s <= n
  OBVIOUS
<1> DEFINE Above == {k \in Nat : \A s \in S : s <= k}
<1>1. Above \in SUBSET Nat /\ n \in Above
  BY <1>0
<1>2. PICK x \in Above : \A y \in Above : ~ (<<y, x>> \in OpToRel(<, Nat))
  BY <1>1, WFMin, NatLessThanWellFounded, Zenon
<1>3. x \in S
  <2> SUFFICES ASSUME x \notin S PROVE FALSE
    OBVIOUS
  <2>1. x \in Nat /\ \A s \in S : s <= x
    BY <1>2
  <2>2. \A s \in S : s <= x - 1
    BY <1>0, <2>1
  <2>3. x - 1 \in Nat
    <3>1. PICK y \in S : TRUE
      OBVIOUS
    <3>2. y \in Nat /\ y <= x - 1
      BY <1>0, <2>2, <3>1
    <3> QED
      BY <2>1, <3>2
  <2>4. x - 1 \in Above /\ x - 1 < x
    BY <2>1, <2>2, <2>3
  <2> QED
    BY <1>2, <2>4, <2>1, <2>3 DEF OpToRel
<1>4. \A s \in S : s <= x
  BY <1>2
<1> QED
  BY <1>3, <1>4 DEF Newest

After(s, S) == {t \in S : t > s}

\* The latest of a set: the newest is among them, and whatever is newer than
\* one of them; a candle with fewer than k candles of time behind it as well.
LEMMA LatestOf ==
  ASSUME NEW n \in Nat, NEW S \in SUBSET (0..n), NEW k \in Nat \ {0}
  PROVE  /\ Latest(k, S) \subseteq S
         /\ S # {} => Newest(S) \in Latest(k, S)
         /\ \A s \in Latest(k, S), t \in S : s <= t => t \in Latest(k, S)
         /\ \A s \in S : n - s < k => s \in Latest(k, S)
<1>0. \A s \in S : s \in Nat /\ s <= n
  OBVIOUS
<1>1. \A s \in 0..n : IsFiniteSet(After(s, S)) /\ Cardinality(After(s, S)) \in Nat /\ Cardinality(After(s, S)) <= n - s
  <2> SUFFICES ASSUME NEW s \in 0..n
               PROVE  IsFiniteSet(After(s, S)) /\ Cardinality(After(s, S)) \in Nat /\ Cardinality(After(s, S)) <= n - s
    OBVIOUS
  <2>1. \A t \in After(s, S) : t \in (s + 1)..n
    BY <1>0 DEF After
  <2>4. s \in Nat /\ s + 1 \in Int /\ n \in Int
    OBVIOUS
  <2>5. /\ IsFiniteSet((s + 1)..n)
        /\ Cardinality((s + 1)..n) = IF s + 1 > n THEN 0 ELSE n - (s + 1) + 1
    BY <2>4, FS_Interval, Zenon
  <2>2. IsFiniteSet((s + 1)..n) /\ Cardinality((s + 1)..n) = n - s
    BY <2>5
  <2>3. IsFiniteSet(After(s, S)) /\ Cardinality(After(s, S)) <= Cardinality((s + 1)..n)
    BY <2>1, <2>2, FS_Subset, Zenon
  <2> QED
    BY <2>2, <2>3, FS_CardinalityType
<1>2. \A s, t \in 0..n : s <= t => Cardinality(After(t, S)) <= Cardinality(After(s, S))
  <2> SUFFICES ASSUME NEW s \in 0..n, NEW t \in 0..n, s <= t
               PROVE  Cardinality(After(t, S)) <= Cardinality(After(s, S))
    OBVIOUS
  <2>1. \A u \in After(t, S) : u \in After(s, S)
    BY <1>0 DEF After
  <2> QED
    BY <1>1, <2>1, FS_Subset, Zenon
<1>3. Latest(k, S) = {s \in S : Cardinality(After(s, S)) < k}
  BY DEF Latest, After
<1>4. ASSUME S # {} PROVE Newest(S) \in Latest(k, S)
  <2>1. Newest(S) \in S /\ \A s \in S : s <= Newest(S)
    BY <1>4, HasNewest
  <2>4. ASSUME NEW x \in S, \A s \in S : s <= x, NEW t \in After(x, S) PROVE FALSE
    BY <1>0, <2>4 DEF After
  <2>2. \A t \in After(Newest(S), S) : FALSE
    BY <2>1, <2>4
  <2>3. Cardinality(After(Newest(S), S)) = 0
    BY <2>2, FS_EmptySet
  <2> QED
    BY <1>3, <2>1, <2>3
<1>5. \A s \in Latest(k, S), t \in S : s <= t => t \in Latest(k, S)
  <2> SUFFICES ASSUME NEW s \in Latest(k, S), NEW t \in S, s <= t
               PROVE  t \in Latest(k, S)
    OBVIOUS
  <2>1. s \in S /\ s \in 0..n /\ t \in 0..n /\ Cardinality(After(s, S)) < k
    BY <1>0, <1>3
  <2>2. Cardinality(After(t, S)) < k
    BY <2>1, <1>1, <1>2
  <2> QED
    BY <1>3, <2>2
<1>6. \A s \in S : n - s < k => s \in Latest(k, S)
  BY <1>1, <1>3
<1> QED
  BY <1>3, <1>4, <1>5, <1>6

\* The newest apart, two of the latest reach every candle.
LEMMA NextNewest ==
  ASSUME NEW n \in Nat, NEW S \in SUBSET (0..n), NEW k \in Nat, k >= 2, NEW s \in S
  PROVE  s = Newest(S) \/ \E m \in Latest(k, S) : s <= m /\ m < Newest(S)
<1> SUFFICES ASSUME s # Newest(S) PROVE \E m \in Latest(k, S) : s <= m /\ m < Newest(S)
  OBVIOUS
<1> DEFINE T == S \ {Newest(S)}
<1>1. Newest(S) \in S /\ \A x \in S : x <= Newest(S)
  BY HasNewest
<1>2. T \in SUBSET (0..n) /\ s \in T
  OBVIOUS
<1> HIDE DEF T
<1>3. Newest(T) \in T /\ \A x \in T : x <= Newest(T)
  BY <1>2, HasNewest
<1> DEFINE m == Newest(T)
<1>4. m \in S /\ m # Newest(S) /\ s <= m /\ \A x \in S : x = Newest(S) \/ x <= m
  BY <1>2, <1>3 DEF T
<1>5. \A x \in S : x \in Nat
  OBVIOUS
<1> HIDE DEF m
<1>9. m < Newest(S)
  <2>1. m \in Nat /\ Newest(S) \in Nat /\ m <= Newest(S)
    BY <1>1, <1>4, <1>5
  <2> QED
    BY <1>4, <2>1
<1>6. After(m, S) = {Newest(S)}
  <2>1. \A x \in After(m, S) : x = Newest(S)
    BY <1>4, <1>5 DEF After
  <2>2. Newest(S) \in After(m, S)
    BY <1>1, <1>9 DEF After
  <2> QED
    BY <2>1, <2>2
<1>7. Cardinality(After(m, S)) = 1
  BY <1>6, FS_Singleton
<1>8. m \in Latest(k, S)
  BY <1>4, <1>7 DEF Latest, After
<1> QED
  BY <1>4, <1>8, <1>9

-----------------------------------------------------------------------------
(* The invariant *)

Waiting == {"fetch", "refill", "act"}
Handling == {"refill", "act"}

\* The candles of all executions so far.
ActedOn == {acted[i] : i \in DOMAIN acted}

\* Whatever was seen, merged or acted on was published, and nothing is
\* published before its interval begins.
RoundTypes ==
  /\ time \in Nat /\ now \in 0..time /\ target \in Nat /\ lag \in Nat
  /\ published \subseteq 0..(time \div Interval)
  /\ frame \subseteq published /\ due \subseteq published
  /\ ActedOn \subseteq published /\ seen \subseteq published

\* The frame has closed candles only.
FrameClosed == \A f \in frame \cup ActedOn : (f + 1) * Interval <= time

\* An interval, and the grace, lie between the end of candle f and t.
Beyond(f, t) == t >= (f + 2) * Interval + Grace

\* A round begins that long after every candle of the frame has ended.
RoundsApart ==
  /\ phase = "idle" => \A f \in frame : Beyond(f, target)
  /\ phase = "fetch" => \A f \in frame : Beyond(f, now)
  /\ phase \in Handling => \A f \in frame \ due : Beyond(f, now)

\* The frame reaches as far as the new candles of the round.
DueBehind == phase \in Handling => due # {} /\ \A d \in due : \E f \in frame : d <= f

\* It reaches as far as whatever was acted on, and further if that is new again.
ActedBehind == phase # "down" => \A s \in ActedOn : \E f \in frame : s <= f /\ (s \in due => s < f)

\* Outside a round nothing is due.
DueInRounds == phase \notin Handling => due = {}

RoundInv == /\ RoundTypes /\ FrameClosed /\ RoundsApart
            /\ DueBehind /\ ActedBehind /\ DueInRounds

\* What an answer of k candles makes of the frame: only closed candles come
\* in; only the candle in progress is left out; the oldest make room.
LEMMA MergeOf ==
  ASSUME RoundTypes, NEW k \in Nat \ {0}, NEW at \in 0..time
  PROVE  LET answer == Latest(k, published)
             new    == Closed(answer, at)
             all    == frame \cup new
             merged == Merged(answer, at)
         IN  /\ new \subseteq published
             /\ \A c \in new : (c + 1) * Interval <= time
             /\ \A s \in answer \ new : \A p \in published : p <= s
             /\ \A s \in answer \ new : (s + 1) * Interval > at
             /\ merged \subseteq all
             /\ \A f \in all : \E g \in merged : f <= g
             /\ \A s \in merged, t \in all : s <= t => t \in merged
<1> DEFINE n == time \div Interval
           answer == Latest(k, published)
           new    == Closed(answer, at)
           all    == frame \cup new
           merged == Merged(answer, at)
<1>1. n \in Nat /\ n * Interval <= time /\ time < (n + 1) * Interval
  BY CandleOf DEF RoundTypes
<1>2. published \in SUBSET (0..n) /\ \A p \in published : p \in Nat /\ p <= n
  BY <1>1 DEF RoundTypes
<1> HIDE DEF n
<1>3. /\ answer \subseteq published
      /\ published # {} => Newest(published) \in answer
  BY <1>1, <1>2, LatestOf
<1>4. answer \in SUBSET (0..n)
  BY <1>2, <1>3
<1>5. ASSUME answer # {}
      PROVE  Newest(answer) \in answer /\ \A p \in published : p <= Newest(answer)
  <2>1. Newest(answer) \in answer /\ \A p \in answer : p <= Newest(answer)
    BY <1>1, <1>4, <1>5, HasNewest
  <2>2. Newest(published) \in answer /\ \A p \in published : p <= Newest(published)
    BY <1>1, <1>2, <1>3, <1>5, HasNewest
  <2>3. Newest(published) <= Newest(answer) /\ Newest(answer) \in Nat /\ Newest(published) \in Nat
    BY <1>2, <1>3, <2>1, <2>2
  <2>4. ASSUME NEW p \in published PROVE p <= Newest(answer)
    <3>1. p \in Nat /\ p <= Newest(published)
      BY <1>2, <2>2
    <3> QED
      BY <2>3, <3>1
  <2> QED
    BY <2>1, <2>4
<1> DEFINE latest == Newest(answer)
<1>6. \/ new = answer /\ (answer # {} => (latest + 1) * Interval <= at)
      \/ answer # {} /\ new = answer \ {latest} /\ (latest + 1) * Interval > at
  <2>1. ASSUME answer # {} PROVE latest + 1 \in Nat
    <3>1. latest \in Nat
      BY <1>2, <1>3, <1>5, <2>1
    <3> QED
      BY <3>1
  <2>2. answer # {} => (latest + 1) * Interval \in Nat
    BY <2>1, LaterBegins
  <2>3. at \in Nat
    BY DEF RoundTypes
  <2>4. CASE answer # {} /\ (latest + 1) * Interval > at
    BY <2>4 DEF Closed
  <2>5. CASE ~ (answer # {} /\ (latest + 1) * Interval > at)
    <3>1. new = answer
      BY <2>5 DEF Closed
    <3> QED
      BY <2>5, <2>2, <2>3, <3>1
  <2> QED
    BY <2>4, <2>5
<1> HIDE DEF new
<1>7. new \subseteq answer
  BY <1>6
<1>8. ASSUME NEW c \in new PROVE (c + 1) * Interval <= time
  <2>1. c \in answer /\ c \in Nat /\ c <= n /\ latest \in Nat /\ latest <= n /\ c <= latest
    BY <1>2, <1>3, <1>5, <1>7
  <2>2. CASE c < latest
    <3>1. (c + 1) * Interval <= n * Interval /\ (c + 1) * Interval \in Nat /\ n * Interval \in Nat
      BY <1>1, <2>1, <2>2, LaterBegins
    <3> QED
      BY <1>1, <3>1 DEF RoundTypes
  <2>3. CASE c = latest
    <3>1. (latest + 1) * Interval <= at /\ (latest + 1) * Interval \in Nat
      BY <1>6, <2>1, <2>3, LaterBegins
    <3> QED
      BY <2>3, <3>1 DEF RoundTypes
  <2> QED
    BY <2>1, <2>2, <2>3
<1>9. \A s \in answer \ new : s = latest /\ answer # {} /\ (latest + 1) * Interval > at
  BY <1>6
<1>10. all \in SUBSET (0..n) /\ MaxRows \in Nat \ {0}
  BY <1>2, <1>3, <1>7, RoundSizes DEF RoundTypes
<1>11. CASE new = {}
  <2>1. merged = frame /\ all = frame
    BY <1>11 DEF Merged, new
  <2>2. \A f \in frame : f <= f
    BY <1>2 DEF RoundTypes
  <2> HIDE DEF merged, all, answer
  <2>3. \A f \in all : \E g \in merged : f <= g
    BY <2>1, <2>2
  <2> QED
    BY <1>3, <1>5, <1>7, <1>8, <1>9, <2>1, <2>3 DEF new, all, merged, answer
<1>12. CASE new # {}
  <2>1. merged = Latest(MaxRows, all)
    BY <1>12 DEF Merged, new
  <2> HIDE DEF merged, all, answer, latest
  <2>2. /\ merged \subseteq all
        /\ all # {} => Newest(all) \in merged
        /\ \A s \in merged, t \in all : s <= t => t \in merged
    BY <1>1, <1>10, <2>1, LatestOf
  <2>3. \A f \in all : f <= Newest(all)
    BY <1>1, <1>10, HasNewest
  <2>4. \A f \in all : \E g \in merged : f <= g
    BY <2>2, <2>3
  <2>5. \A s \in answer \ new : (\A p \in published : p <= s) /\ (s + 1) * Interval > at
    BY <1>5, <1>9 DEF latest
  <2> QED
    BY <1>3, <1>7, <1>8, <2>2, <2>4, <2>5 DEF new, all, merged, answer
<1> QED
  BY <1>11, <1>12

\* After the end of candle f the next round is due an interval later.
LEMMA BoundaryBeyond ==
  ASSUME NEW t \in Nat, NEW f \in Nat, (f + 1) * Interval <= t
  PROVE  Beyond(f, NextBoundary(t)) /\ NextBoundary(t) \in Nat
<1>1. f + 1 <= t \div Interval /\ t \div Interval \in Nat
  BY BegunBy, CandleOf
<1>2. f + 2 <= t \div Interval + 1
  BY <1>1
<1>3. (f + 2) * Interval <= (t \div Interval + 1) * Interval
  BY <1>1, <1>2, LaterBegins
<1>4. (t \div Interval + 1) * Interval \in Nat /\ (f + 2) * Interval \in Nat
  BY <1>1, LaterBegins
<1> QED
  BY <1>3, <1>4, RoundSizes DEF Beyond, NextBoundary

\* The next boundary is a time.
LEMMA BoundaryIsTime ==
  ASSUME NEW t \in Nat
  PROVE  NextBoundary(t) \in Nat
<1>1. (t \div Interval + 1) * Interval \in Nat
  BY CandleOf, LaterBegins
<1> QED
  BY <1>1, RoundSizes DEF NextBoundary

\* A round may end at any time, whatever it has acted on was the newest.
LEMMA EndRoundKeeps ==
  ASSUME RoundInv, EndRound, UNCHANGED <<time, published, frame, seen, lag>>,
         phase \in Waiting, now' = now,
         ActedOn' \subseteq ActedOn \cup {f \in frame : \A g \in frame : g <= f}
  PROVE  RoundInv'
<1> USE DEF RoundInv
<1>1. RoundTypes' /\ DueInRounds' /\ DueBehind'
  BY BoundaryIsTime DEF RoundTypes, EndRound, DueInRounds, DueBehind, Handling
<1>2. FrameClosed'
  BY DEF FrameClosed
<1>3. RoundsApart'
  <2>1. \A f \in frame : f \in Nat /\ time \in Nat /\ (f + 1) * Interval <= time
    BY CandleOf DEF RoundTypes, FrameClosed
  <2>2. \A f \in frame : Beyond(f, target')
    BY <2>1, BoundaryBeyond DEF EndRound
  <2> QED
    BY <2>2 DEF RoundsApart, EndRound, Handling
<1>4. ActedBehind'
  <2>1. \A f \in frame : f <= f
    BY CandleOf DEF RoundTypes
  <2> QED
    BY <2>1 DEF ActedBehind, EndRound, Waiting
<1> QED
  BY <1>1, <1>2, <1>3, <1>4

\* Time goes on and candles appear; nothing else depends on either.
LEMMA ClockKeeps ==
  ASSUME RoundInv, Tick \/ Publish
  PROVE  RoundInv'
<1> USE DEF RoundInv
<1>1. UNCHANGED <<frame, phase, now, target, due, patched, seen, ActedOn>>
  BY DEF Tick, Publish, ActedOn
<1>2. time' \in Nat /\ time <= time' /\ lag' \in Nat /\ now' \in 0..time'
  BY DEF Tick, Publish, RoundTypes
<1>3. published \subseteq published' /\ published' \subseteq 0..(time' \div Interval)
  <2>1. CASE Publish
    BY <2>1 DEF Publish, RoundTypes
  <2>2. CASE Tick
    <3>1. time \in Nat /\ time' = time + 1 /\ published' = published
      BY <2>2 DEF Tick, RoundTypes
    <3>2. /\ time \div Interval \in Nat /\ time' \div Interval \in Nat
          /\ (time \div Interval) * Interval <= time /\ (time \div Interval) * Interval \in Nat
      BY <1>2, <3>1, CandleOf, LaterBegins
    <3>3. (time \div Interval) * Interval <= time'
      BY <3>1, <3>2
    <3>4. time \div Interval <= time' \div Interval
      BY <1>2, <3>2, <3>3, BegunBy
    <3>5. published \subseteq 0..(time \div Interval)
      BY DEF RoundTypes
    <3> QED
      BY <3>1, <3>2, <3>4, <3>5
  <2> QED
    BY <2>1, <2>2
<1>4. RoundTypes'
  BY <1>1, <1>2, <1>3 DEF RoundTypes
<1>5. FrameClosed'
  <2> SUFFICES ASSUME NEW f \in frame \cup ActedOn PROVE (f + 1) * Interval <= time'
    BY <1>1 DEF FrameClosed
  <2>1. f \in Nat
    BY CandleOf DEF RoundTypes
  <2>2. (f + 1) * Interval <= time /\ time \in Nat
    BY DEF FrameClosed, RoundTypes
  <2>3. (f + 1) * Interval \in Nat
    BY <2>1, LaterBegins
  <2> QED
    BY <1>2, <2>2, <2>3
<1>6. RoundsApart' /\ DueBehind' /\ ActedBehind' /\ DueInRounds'
  BY <1>1 DEF RoundsApart, DueBehind, ActedBehind, DueInRounds, Beyond
<1> QED
  BY <1>4, <1>5, <1>6

\* Before a restart everything acted on was closed, so it is in the warm-up.
LEMMA WarmUpKeeps ==
  ASSUME RoundInv, WarmUp
  PROVE  RoundInv'
<1> USE DEF RoundInv
<1> DEFINE answer == Latest(Warmup + 1, published)
           new    == Closed(answer, time)
           all    == frame \cup new
<1>1. Warmup + 1 \in Nat \ {0} /\ Warmup + 1 >= 2 /\ time \in 0..time
  BY RoundSizes DEF RoundTypes
<1>2. /\ frame' = Merged(answer, time) /\ phase' = "idle" /\ target' = NextBoundary(time)
      /\ UNCHANGED <<time, published, now, due, seen, ActedOn, lag>>
      /\ phase = "down"
  BY DEF WarmUp, ActedOn
<1>3. /\ new \subseteq published
      /\ \A c \in new : (c + 1) * Interval <= time
      /\ \A s \in answer \ new : (\A p \in published : p <= s) /\ (s + 1) * Interval > time
      /\ frame' \subseteq all
      /\ \A f \in all : \E g \in frame' : f <= g
  BY <1>1, <1>2, MergeOf
<1>4. published \in SUBSET (0..(time \div Interval)) /\ time \div Interval \in Nat /\ time \in Nat
  BY CandleOf DEF RoundTypes
<1>5. \A p \in published : p \in Nat
  BY <1>4
<1>6. RoundTypes'
  <2>1. target' \in Nat
    BY <1>2, <1>4, BoundaryIsTime
  <2> QED
    BY <1>2, <1>3, <2>1 DEF RoundTypes
<1>7. FrameClosed'
  BY <1>2, <1>3 DEF FrameClosed
<1>8. \A f \in frame' : Beyond(f, target')
  <2>1. \A f \in frame' : f \in Nat /\ (f + 1) * Interval <= time
    BY <1>2, <1>3, <1>5, <1>7 DEF FrameClosed, RoundTypes
  <2> QED
    BY <1>2, <1>4, <2>1, BoundaryBeyond
<1> HIDE DEF answer, new
<1>9. ASSUME NEW s \in ActedOn PROVE \E f \in frame' : s <= f
  <2>1. s \in published /\ (s + 1) * Interval <= time
    BY DEF RoundTypes, FrameClosed
  <2>2. PICK m \in answer : s <= m /\ (m = s \/ m < Newest(published))
    <3>1. CASE s = Newest(published)
      <4>1. s \in answer
        BY <1>1, <1>4, <2>1, <3>1, LatestOf DEF answer
      <4> QED
        BY <1>5, <2>1, <4>1
    <3>2. CASE s # Newest(published)
      <4>1. Warmup + 1 \in Nat
        BY <1>1
      <4> QED
        BY <1>1, <1>4, <2>1, <3>2, <4>1, NextNewest DEF answer
    <3> QED
      BY <3>1, <3>2
  <2>3. m \in new
    <3>1. SUFFICES ASSUME m \notin new PROVE FALSE
      OBVIOUS
    <3>2. (\A p \in published : p <= m) /\ (m + 1) * Interval > time
      BY <1>3, <2>2, <3>1
    <3>3. Newest(published) \in published
      BY <1>4, <2>1, HasNewest
    <3>4. CASE m = s
      <4>1. s \in Nat /\ (s + 1) * Interval \in Nat
        BY <1>5, <2>1, LaterBegins
      <4> QED
        BY <1>4, <2>1, <3>2, <3>4, <4>1
    <3>5. CASE m < Newest(published)
      <4>1. m \in published
        BY <1>1, <1>4, <2>2, LatestOf DEF answer
      <4>2. m \in Nat /\ Newest(published) \in Nat /\ Newest(published) <= m
        BY <1>5, <3>2, <3>3, <4>1
      <4> QED
        BY <3>5, <4>2
    <3> QED
      BY <2>2, <3>4, <3>5
  <2>4. PICK g \in frame' : m <= g
    BY <1>3, <2>3
  <2>5. s \in Nat /\ m \in Nat /\ g \in Nat
    BY <1>3, <1>5, <2>1, <2>3, <1>6, <1>2 DEF RoundTypes
  <2> QED
    BY <2>2, <2>4, <2>5
<1>10. due' = {}
  BY <1>2 DEF DueInRounds, Handling
<1>11. RoundsApart' /\ DueBehind' /\ ActedBehind' /\ DueInRounds'
  BY <1>2, <1>8, <1>9, <1>10 DEF RoundsApart, DueBehind, ActedBehind, DueInRounds, Handling
<1> QED
  BY <1>6, <1>7, <1>11

\* A round that begins has the boundary behind it.
LEMMA BeginKeeps ==
  ASSUME RoundInv, BeginRound
  PROVE  RoundInv'
<1> USE DEF RoundInv
<1>1. /\ UNCHANGED <<time, published, frame, due, seen, ActedOn>>
      /\ phase = "idle" /\ phase' = "fetch" /\ now' = time /\ time >= target /\ lag' = 0
  BY DEF BeginRound, ActedOn
<1>2. RoundTypes' /\ FrameClosed' /\ DueInRounds' /\ DueBehind' /\ ActedBehind'
  <2>1. time \in Nat /\ time \in 0..time
    BY DEF RoundTypes
  <2>2. RoundTypes'
    <3>1. now' \in 0..time' /\ lag' \in Nat
      BY <1>1, <2>1
    <3> QED
      BY <1>1, <3>1 DEF RoundTypes, BeginRound
  <2>3. FrameClosed' /\ ActedBehind'
    BY <1>1 DEF FrameClosed, ActedBehind
  <2>4. DueInRounds' /\ DueBehind'
    BY <1>1 DEF DueInRounds, DueBehind, Handling
  <2> QED
    BY <2>2, <2>3, <2>4
<1>3. \A f \in frame : Beyond(f, now')
  <2> SUFFICES ASSUME NEW f \in frame PROVE Beyond(f, time)
    BY <1>1
  <2>1. f \in Nat /\ target \in Nat /\ time \in Nat /\ Beyond(f, target)
    BY <1>1, CandleOf DEF RoundTypes, RoundsApart
  <2>2. f + 2 \in Nat /\ (f + 2) * Interval \in Nat
    BY <2>1, LaterBegins
  <2> QED
    BY <1>1, <2>1, <2>2, RoundSizes DEF Beyond
<1> QED
  BY <1>1, <1>2, <1>3 DEF RoundsApart, Handling

\* The candles an answer brings in are due; those of the frame are older.
LEMMA MergingKeeps ==
  ASSUME RoundInv, phase \in {"fetch", "refill"}, NEW k \in Nat \ {0},
         frame' = Merged(Latest(k, published), now),
         due' = due \cup (Closed(Latest(k, published), now) \ frame), due' # {},
         phase' \in Handling, seen' = published,
         UNCHANGED <<time, published, now, target, ActedOn, lag>>
  PROVE  RoundInv'
<1> USE DEF RoundInv
<1> DEFINE new == Closed(Latest(k, published), now)
           all == frame \cup new
<1>1. now \in 0..time
  BY DEF RoundTypes
<1>2. /\ new \subseteq published
      /\ \A c \in new : (c + 1) * Interval <= time
      /\ frame' \subseteq all
      /\ \A f \in all : \E g \in frame' : f <= g
  BY <1>1, MergeOf
<1>3. \A p \in published : p \in Nat
  BY CandleOf DEF RoundTypes
<1> HIDE DEF new
<1>4. due' = due \cup (new \ frame)
  BY DEF new
<1>5. RoundTypes'
  BY <1>2, <1>4 DEF RoundTypes
<1>6. FrameClosed'
  BY <1>2 DEF FrameClosed
<1>7. RoundsApart'
  <2>1. \A f \in frame' \ due' : f \in frame \ due
    BY <1>2, <1>4
  <2>2. \A f \in frame \ due : Beyond(f, now)
    BY DEF RoundsApart, Handling
  <2> QED
    BY <2>1, <2>2 DEF RoundsApart, Handling
<1>8. DueBehind'
  <2> SUFFICES ASSUME NEW d \in due' PROVE \E f \in frame' : d <= f
    BY DEF DueBehind
  <2>1. CASE d \in new
    BY <1>2, <2>1
  <2>2. CASE d \in due
    <3>1. phase \in Handling
      BY <2>2 DEF DueInRounds
    <3>2. PICK f \in frame : d <= f
      BY <2>2, <3>1 DEF DueBehind
    <3>3. PICK g \in frame' : f <= g
      BY <1>2
    <3>4. d \in Nat /\ f \in Nat /\ g \in Nat
      BY <1>3, <1>5, <2>2, <3>2, <3>3 DEF RoundTypes
    <3> QED
      BY <3>2, <3>3, <3>4
  <2> QED
    BY <1>4, <2>1, <2>2
<1>9. ActedBehind'
  <2> SUFFICES ASSUME NEW s \in ActedOn PROVE \E g \in frame' : s <= g /\ (s \in due' => s < g)
    BY DEF ActedBehind
  <2>1. PICK f \in frame : s <= f /\ (s \in due => s < f)
    BY DEF ActedBehind
  <2>2. PICK g \in frame' : f <= g
    BY <1>2
  <2>3. s \in Nat /\ f \in Nat /\ g \in Nat
    BY <1>3, <1>5, <2>1, <2>2 DEF RoundTypes
  <2>4. s \in due' => s < f
    BY <1>4, <2>1, <2>3
  <2> QED
    BY <2>1, <2>2, <2>3, <2>4
<1>10. DueInRounds'
  BY DEF DueInRounds
<1> QED
  BY <1>5, <1>6, <1>7, <1>8, <1>9, <1>10

\* An answer without anything new, of a round that is over with it.
LEMMA NothingNewKeeps ==
  ASSUME RoundInv, phase = "fetch", NEW k \in Nat \ {0},
         frame' = Merged(Latest(k, published), now),
         Closed(Latest(k, published), now) \ frame = {},
         EndRound, seen' = published, UNCHANGED <<time, published, now, ActedOn, lag>>
  PROVE  RoundInv'
<1> USE DEF RoundInv
<1> DEFINE new == Closed(Latest(k, published), now)
<1>1. now \in 0..time
  BY DEF RoundTypes
<1>2. frame' \subseteq frame \cup new /\ \A f \in frame \cup new : \E g \in frame' : f <= g
  BY <1>1, MergeOf
<1>3. frame' \subseteq frame /\ \A f \in frame : \E g \in frame' : f <= g
  BY <1>2
<1>4. \A p \in published : p \in Nat
  BY CandleOf DEF RoundTypes
<1>5. RoundTypes' /\ DueInRounds' /\ DueBehind'
  BY <1>3, BoundaryIsTime DEF RoundTypes, EndRound, DueInRounds, DueBehind, Handling
<1>6. FrameClosed'
  BY <1>3 DEF FrameClosed
<1>7. RoundsApart'
  <2>1. \A f \in frame : f \in Nat /\ time \in Nat /\ (f + 1) * Interval <= time
    BY CandleOf DEF RoundTypes, FrameClosed
  <2>2. \A f \in frame : Beyond(f, target')
    BY <2>1, BoundaryBeyond DEF EndRound
  <2> QED
    BY <1>3, <2>2 DEF RoundsApart, EndRound, Handling
<1>8. ActedBehind'
  <2> SUFFICES ASSUME NEW s \in ActedOn PROVE \E g \in frame' : s <= g
    BY DEF ActedBehind, EndRound
  <2>1. PICK f \in frame : s <= f
    BY DEF ActedBehind
  <2>2. PICK g \in frame' : f <= g
    BY <1>3
  <2>3. s \in Nat /\ f \in Nat /\ g \in Nat
    BY <1>3, <1>4, <2>1, <2>2 DEF RoundTypes
  <2> QED
    BY <2>1, <2>2, <2>3
<1> QED
  BY <1>5, <1>6, <1>7, <1>8

\* What is acted on is the newest of the frame, and was not acted on before.
LEMMA ActsOnNewest ==
  ASSUME RoundInv, Act
  PROVE  /\ Newest(due) \in frame /\ \A f \in frame : f <= Newest(due)
         /\ Newest(due) = Newest(frame)
         /\ \A s \in ActedOn : s < Newest(due)
<1> USE DEF RoundInv
<1> DEFINE d == Newest(due)
<1>1. phase = "act" /\ ~TooOld(d)
  BY DEF Act
<1>2. time \div Interval \in Nat /\ \A p \in published : p \in Nat
  BY CandleOf DEF RoundTypes
<1>3. /\ due \in SUBSET (0..(time \div Interval)) /\ due # {}
      /\ frame \in SUBSET (0..(time \div Interval)) /\ frame # {}
  BY <1>1 DEF RoundTypes, DueBehind, Handling
<1>4. d \in due /\ \A e \in due : e <= d
  BY <1>2, <1>3, HasNewest
<1>5. Newest(frame) \in frame /\ \A f \in frame : f <= Newest(frame)
  BY <1>2, <1>3, HasNewest
<1>6. d \in Nat /\ now \in Nat
  <2>1. time \in Nat /\ now \in 0..time
    BY DEF RoundTypes
  <2>2. d \in published
    BY <1>4 DEF RoundTypes
  <2> QED
    BY <1>2, <2>1, <2>2
<1> HIDE DEF d
<1>7. ASSUME NEW f \in frame PROVE f <= d
  <2>1. f \in Nat
    BY <1>2 DEF RoundTypes
  <2>2. CASE f \in due
    BY <1>4, <2>2
  <2>3. CASE f \notin due
    <3>1. now >= (f + 2) * Interval + Grace
      BY <1>1, <2>3 DEF RoundsApart, Beyond, Handling
    <3>2. ~(now > (d + 1) * Interval + Interval + Grace)
      BY <1>1 DEF TooOld
    <3> SUFFICES ASSUME d + 1 <= f PROVE FALSE
      BY <1>6, <2>1
    <3>3. (d + 3) * Interval <= (f + 2) * Interval /\ (d + 3) * Interval \in Nat
          /\ (f + 2) * Interval \in Nat /\ (d + 1) * Interval \in Nat
      <4>1. d + 3 \in Nat /\ f + 2 \in Nat /\ d + 3 <= f + 2 /\ d + 1 \in Nat
        BY <1>6, <2>1
      <4> QED
        BY <4>1, LaterBegins
    <3>4. (d + 3) * Interval = (d + 1) * Interval + Interval + Interval
      <4>1. d + 1 \in Nat /\ d + 2 \in Nat /\ (d + 1) + 1 = d + 2 /\ (d + 2) + 1 = d + 3
        BY <1>6
      <4> QED
        BY <4>1, NextBegins
    <3> QED
      BY <1>6, <3>1, <3>2, <3>3, <3>4, RoundSizes
  <2> QED
    BY <2>2, <2>3
<1>8. PICK f \in frame : d <= f
  BY <1>1, <1>4 DEF DueBehind, Handling
<1>9. d \in frame
  <2>1. f \in Nat /\ f <= d
    BY <1>2, <1>7 DEF RoundTypes
  <2> QED
    BY <1>6, <1>8, <2>1
<1>10. d = Newest(frame)
  <2>1. Newest(frame) \in Nat /\ Newest(frame) <= d /\ d <= Newest(frame)
    BY <1>2, <1>5, <1>7, <1>9 DEF RoundTypes
  <2> QED
    BY <1>6, <2>1
<1>11. ASSUME NEW s \in ActedOn PROVE s < d
  <2>1. PICK g \in frame : s <= g /\ (s \in due => s < g)
    BY <1>1 DEF ActedBehind
  <2>2. s \in Nat /\ g \in Nat /\ g <= d
    BY <1>2, <1>7 DEF RoundTypes
  <2>3. s # d
    BY <1>4, <1>6, <2>1, <2>2
  <2> QED
    BY <1>6, <2>1, <2>2, <2>3
<1> QED
  BY <1>7, <1>9, <1>10, <1>11 DEF d

\* The executions are a sequence of candles, that an execution makes longer.
ActedInOrder == acted \in Seq(Nat)

LEMMA ActedGrows ==
  ASSUME RoundInv, ActedInOrder, Act
  PROVE  /\ ActedOn' = ActedOn \cup {Newest(due)}
         /\ ActedInOrder'
         /\ acted'[Len(acted')] = Newest(due)
<1> DEFINE d == Newest(due)
<1>1. d \in Nat
  <2>1. d \in frame
    BY ActsOnNewest
  <2>2. time \div Interval \in Nat /\ \A p \in published : p \in Nat
    BY CandleOf DEF RoundInv, RoundTypes
  <2> QED
    BY <2>1, <2>2 DEF RoundInv, RoundTypes
<1>2. acted' = Append(acted, d)
  BY DEF Act
<1> HIDE DEF d
<1>3. /\ Len(acted) \in Nat /\ DOMAIN acted = 1..Len(acted)
      /\ acted' \in Seq(Nat) /\ Len(acted') = Len(acted) + 1 /\ DOMAIN acted' = 1..Len(acted) + 1
      /\ acted'[Len(acted) + 1] = d
      /\ \A i \in 1..Len(acted) : acted'[i] = acted[i]
  BY <1>1, <1>2, AppendProperties, LenProperties DEF ActedInOrder
<1>4. ActedOn' = ActedOn \cup {d}
  <2>1. \A i \in 1..Len(acted) + 1 : i \in 1..Len(acted) \/ i = Len(acted) + 1
    BY <1>3
  <2>2. \A i \in 1..Len(acted) : i \in 1..Len(acted) + 1
    BY <1>3
  <2>3. Len(acted) + 1 \in 1..Len(acted) + 1
    BY <1>3
  <2> QED
    BY <1>3, <2>1, <2>2, <2>3 DEF ActedOn
<1> QED
  BY <1>3, <1>4 DEF ActedInOrder, d

\* The number of candles a refill asks for.
LEMMA RefillAsksForSome ==
  ASSUME RoundInv, phase = "refill", Gaps(frame) # {}
  PROVE  RefillCount \in Nat \ {0}
<1>1. now \in Nat /\ Oldest(Gaps(frame)) \in Nat
  <2>1. time \in Nat /\ time \div Interval \in Nat /\ now \in 0..time
    BY CandleOf DEF RoundInv, RoundTypes
  <2>2. \A f \in frame : f \in Nat
    BY <2>1 DEF RoundInv, RoundTypes
  <2>3. Gaps(frame) \in SUBSET Nat
    BY <2>2 DEF Gaps
  <2> QED
    BY <2>1, <2>3, HasOldest
<1> QED
  BY <1>1, RoundSizes DEF RefillCount

\* A refill is asked for when the frame has a gap.
GapsKnown == phase = "refill" => Gaps(frame) # {}

LEMMA NothingActed == RoundInit => ActedOn = {}
<1> SUFFICES ASSUME RoundInit PROVE ActedOn = {}
  OBVIOUS
<1>1. acted = <<>> /\ <<>> \in Seq(Nat) /\ Len(<<>>) = 0
  BY EmptySeq DEF RoundInit
<1>2. DOMAIN acted = 1..0
  <2>1. acted \in Seq(Nat) /\ Len(acted) = 0
    BY <1>1
  <2> QED
    BY <2>1, LenProperties
<1> QED
  BY <1>2 DEF ActedOn

\* The first states have nothing.
LEMMA RoundInitially == RoundInit => RoundInv /\ GapsKnown /\ ActedInOrder
<1> SUFFICES ASSUME RoundInit PROVE RoundInv /\ GapsKnown /\ ActedInOrder
  OBVIOUS
<1>1. 0 \div Interval \in Nat /\ 0 \in 0..0
  BY CandleOf
<1>2. RoundTypes
  <2>0. time = 0 /\ now = 0 /\ target = 0 /\ lag = 0 /\ \A p \in published : p = 0
    BY DEF RoundInit
  <2>1. published \subseteq 0..(time \div Interval)
    <3> DEFINE n == time \div Interval
    <3>1. n \in Nat
      BY <1>1, <2>0
    <3> HIDE DEF n
    <3>2. \A p \in published : p \in 0..n
      BY <2>0, <3>1
    <3> QED
      BY <3>2 DEF n
  <2>2. frame \subseteq published /\ due \subseteq published /\ ActedOn \subseteq published /\ seen \subseteq published
    BY NothingActed DEF RoundInit
  <2>3. time \in Nat /\ now \in 0..time /\ target \in Nat /\ lag \in Nat
    BY <2>0
  <2> QED
    BY <2>1, <2>2, <2>3 DEF RoundTypes
<1>3. FrameClosed /\ RoundsApart /\ DueBehind /\ ActedBehind /\ DueInRounds /\ GapsKnown
  BY NothingActed DEF RoundInit, FrameClosed, RoundsApart, DueBehind, ActedBehind, DueInRounds, GapsKnown, Handling
<1>4. ActedInOrder
  BY EmptySeq DEF RoundInit, ActedInOrder
<1> QED
  BY <1>2, <1>3, <1>4 DEF RoundInv

\* Every step keeps the invariant.
LEMMA RoundStep ==
  ASSUME RoundInv, GapsKnown, ActedInOrder, [RoundNext]_roundVars
  PROVE  RoundInv' /\ GapsKnown' /\ ActedInOrder'
<1>1. GapsKnown'
  <2>1. CASE UNCHANGED roundVars
    BY <2>1 DEF roundVars, GapsKnown
  <2>2. CASE Tick \/ Publish
    BY <2>2 DEF Tick, Publish, GapsKnown
  <2>3. CASE WarmUp \/ BeginRound \/ FetchFails \/ RefillAnswers \/ RefillFails
    BY <2>3 DEF WarmUp, BeginRound, FetchFails, RefillAnswers, RefillFails, EndRound, GapsKnown
  <2>4. CASE RoundRaises \/ Act \/ SkipOld \/ HoldJump \/ Restart
    BY <2>4 DEF RoundRaises, Act, SkipOld, HoldJump, Restart, EndRound, GapsKnown
  <2>5. CASE FetchAnswers
    BY <2>5 DEF FetchAnswers, EndRound, GapsKnown
  <2> QED
    BY <2>1, <2>2, <2>3, <2>4, <2>5 DEF RoundNext
<1>12. ActedInOrder'
  <2>1. CASE Act
    BY <2>1, ActedGrows
  <2>2. CASE UNCHANGED acted
    BY <2>2 DEF ActedInOrder
  <2> QED
    BY <2>1, <2>2 DEF RoundNext, roundVars, Tick, Publish, WarmUp, BeginRound, FetchAnswers, FetchFails,
             RefillAnswers, RefillFails, RoundRaises, SkipOld, HoldJump, Restart
<1> SUFFICES RoundInv'
  BY <1>1, <1>12
<1>2. CASE UNCHANGED roundVars
  BY <1>2 DEF roundVars, ActedOn, RoundInv, RoundTypes, FrameClosed, RoundsApart, DueBehind, ActedBehind, DueInRounds, Beyond
<1>3. CASE Tick \/ Publish
  BY <1>3, ClockKeeps
<1>4. CASE WarmUp
  BY <1>4, WarmUpKeeps
<1>5. CASE BeginRound
  BY <1>5, BeginKeeps
<1>6. CASE FetchAnswers
  <2>1. due = {} /\ Refresh \in Nat \ {0}
    BY <1>6, RoundSizes DEF FetchAnswers, RoundInv, DueInRounds, Handling
  <2>2. CASE Closed(Latest(Refresh, published), now) \ frame = {}
    <3>1. EndRound
      BY <1>6, <2>2 DEF FetchAnswers
    <3> QED
      BY <1>6, <2>1, <2>2, <3>1, NothingNewKeeps DEF FetchAnswers, ActedOn
  <2>3. CASE Closed(Latest(Refresh, published), now) \ frame # {}
    <3>1. /\ due' = due \cup (Closed(Latest(Refresh, published), now) \ frame) /\ due' # {}
          /\ phase' \in Handling /\ target' = target
      BY <1>6, <2>1, <2>3 DEF FetchAnswers, Handling
    <3>2. /\ frame' = Merged(Latest(Refresh, published), now) /\ seen' = published
          /\ UNCHANGED <<time, published, now, ActedOn, lag>> /\ phase = "fetch"
      BY <1>6 DEF FetchAnswers, ActedOn
    <3> QED
      BY <2>1, <3>1, <3>2, MergingKeeps
  <2> QED
    BY <2>2, <2>3
<1>7. CASE RefillAnswers
  <2>1. phase = "refill" /\ due # {} /\ RefillCount \in Nat \ {0}
    BY <1>7, RefillAsksForSome DEF RefillAnswers, GapsKnown, RoundInv, DueBehind, Handling
  <2>2. /\ frame' = Merged(Latest(RefillCount, published), now)
        /\ due' = due \cup (Closed(Latest(RefillCount, published), now) \ frame)
        /\ phase' \in Handling /\ seen' = published
        /\ UNCHANGED <<time, published, now, target, ActedOn, lag>>
    BY <1>7 DEF RefillAnswers, Handling, ActedOn
  <2>3. due' # {}
    BY <2>1, <2>2
  <2> QED
    BY <2>1, <2>2, <2>3, MergingKeeps
<1>8. CASE RefillFails
  <2>1. /\ UNCHANGED <<time, published, frame, now, target, due, seen, ActedOn, lag>>
        /\ phase = "refill" /\ phase' = "act"
    BY <1>8 DEF RefillFails, ActedOn
  <2> QED
    BY <2>1 DEF RoundInv, RoundTypes, FrameClosed, RoundsApart, DueBehind, ActedBehind, DueInRounds, Beyond, Handling
<1>9. CASE FetchFails \/ RoundRaises \/ SkipOld \/ HoldJump
  <2>1. /\ EndRound /\ UNCHANGED <<time, published, frame, seen, lag, now, ActedOn>>
        /\ phase \in Waiting
    BY <1>9 DEF FetchFails, RoundRaises, SkipOld, HoldJump, Waiting, ActedOn
  <2> QED
    BY <2>1, EndRoundKeeps
<1>10. CASE Act
  <2>1. /\ EndRound /\ UNCHANGED <<time, published, frame, seen, lag, now>>
        /\ phase \in Waiting /\ ActedOn' = ActedOn \cup {Newest(due)}
    BY <1>10, ActedGrows DEF Act, Waiting
  <2>2. Newest(due) \in frame /\ \A f \in frame : f <= Newest(due)
    BY <1>10, ActsOnNewest
  <2>3. ActedOn' \subseteq ActedOn \cup {f \in frame : \A g \in frame : g <= f}
    BY <2>1, <2>2
  <2> QED
    BY <2>1, <2>3, EndRoundKeeps
<1>11. CASE Restart
  <2>1. /\ UNCHANGED <<time, published, now, target, seen, ActedOn, lag>>
        /\ phase' = "down" /\ frame' = {} /\ due' = {}
    BY <1>11 DEF Restart, ActedOn
  <2> QED
    BY <2>1 DEF RoundInv, RoundTypes, FrameClosed, RoundsApart, DueBehind, ActedBehind, DueInRounds, Handling
<1> QED
  BY <1>2, <1>3, <1>4, <1>5, <1>6, <1>7, <1>8, <1>9, <1>10, <1>11 DEF RoundNext

LEMMA RoundAlways == RoundSpec => [](RoundInv /\ GapsKnown /\ ActedInOrder)
  BY RoundInitially, RoundStep, PTL DEF RoundSpec

\* Whatever appears late, fails or is lost, every execution is of the newest
\* candle of the frame, and of one newer than all executed before it.
THEOREM ActsOnTheLatestHolds == RoundSpec => ActsOnTheLatest
<1>1. ASSUME RoundInv, GapsKnown, ActedInOrder, [RoundNext]_roundVars
      PROVE  [acted' # acted =>
                LET s == acted'[Len(acted')]
                IN /\ s = Newest(frame')
                   /\ \A i \in DOMAIN acted : acted[i] < s]_roundVars
  <2> SUFFICES ASSUME acted' # acted
               PROVE  /\ acted'[Len(acted')] = Newest(frame')
                      /\ \A i \in DOMAIN acted : acted[i] < acted'[Len(acted')]
    OBVIOUS
  <2>1. Act
    BY <1>1 DEF RoundNext, roundVars, Tick, Publish, WarmUp, BeginRound, FetchAnswers, FetchFails,
             RefillAnswers, RefillFails, RoundRaises, SkipOld, HoldJump, Restart
  <2>2. acted'[Len(acted')] = Newest(due) /\ frame' = frame
    BY <1>1, <2>1, ActedGrows DEF Act
  <2>3. Newest(due) = Newest(frame) /\ \A s \in ActedOn : s < Newest(due)
    BY <1>1, <2>1, ActsOnNewest
  <2> QED
    BY <2>2, <2>3 DEF ActedOn
<1> QED
  BY <1>1, RoundAlways, PTL DEF RoundSpec, ActsOnTheLatest

-----------------------------------------------------------------------------
(* The whole frame *)

\* Up to the first gap a frame misses nothing.
LEMMA NothingMissing ==
  ASSUME NEW n \in Nat, NEW F \in SUBSET (0..n), F # {}, NEW k \in Nat,
         Oldest(F) <= k, k <= Newest(F), \A g \in Gaps(F) : k <= g
  PROVE  k \in F
<1>0. \A f \in F : f \in Nat
  OBVIOUS
<1>1. Oldest(F) \in F /\ Newest(F) \in F
  <2>1. F \in SUBSET Nat
    BY <1>0
  <2> QED
    BY <2>1, HasOldest, HasNewest
<1> SUFFICES ASSUME k \notin F PROVE FALSE
  OBVIOUS
<1> DEFINE Lost == {j \in Nat : Oldest(F) <= j /\ j <= k /\ j \notin F}
<1>2. Lost \in SUBSET Nat /\ k \in Lost
  OBVIOUS
<1> DEFINE j == Oldest(Lost)
<1>3. j \in Lost /\ \A i \in Lost : j <= i
  BY <1>2, HasOldest
<1> HIDE DEF j
<1>4. j \in Nat /\ Oldest(F) \in Nat /\ Newest(F) \in Nat /\ Oldest(F) < j /\ j <= k /\ j \notin F
  <2>1. j \in Nat /\ Oldest(F) <= j /\ j <= k /\ j \notin F
    BY <1>3
  <2>2. Oldest(F) # j
    BY <1>1, <2>1
  <2>3. Oldest(F) \in Nat /\ Newest(F) \in Nat
    BY <1>0, <1>1
  <2> QED
    BY <2>1, <2>2, <2>3
<1>5. j - 1 \in Nat /\ Oldest(F) <= j - 1 /\ j - 1 <= k /\ j - 1 < Newest(F)
  BY <1>4
<1>6. j - 1 \in F
  <2>1. ASSUME j - 1 \notin F PROVE FALSE
    <3>1. j - 1 \in Lost
      BY <1>5, <2>1
    <3> QED
      BY <1>3, <1>4, <3>1
  <2> QED
    BY <2>1
<1>7. j - 1 \in Gaps(F)
  <2>1. (j - 1) + 1 = j
    BY <1>4
  <2> QED
    BY <1>4, <1>5, <1>6, <2>1 DEF Gaps
<1> QED
  BY <1>4, <1>5, <1>7

\* A round is over within an interval, the requests and the waiting included.
ShortRounds == MaxLag <= Interval

Lagging == phase \in Waiting => lag <= MaxLag /\ time <= now + lag

\* The two candles to spare cover what begins while the refill is awaited: an
\* answer that is not cut short has whatever the exchange shows from the first
\* gap on.
LEMMA RefillReaches ==
  ASSUME RoundInv, GapsKnown, Lagging, ShortRounds, phase = "refill", RefillCount # MaxRows,
         NEW s \in published, Oldest(Gaps(frame)) <= s
  PROVE  s \in Latest(RefillCount, published)
<1> DEFINE g == Oldest(Gaps(frame))
           n == time \div Interval
           q == (now - g * Interval) \div Interval
<1>1. time \in Nat /\ now \in Nat /\ n \in Nat /\ published \in SUBSET (0..n) /\ frame \subseteq published
  BY CandleOf DEF RoundInv, RoundTypes
<1>2. n * Interval <= time /\ n * Interval \in Nat
  BY <1>1, CandleOf, LaterBegins
<1> HIDE DEF n
<1>3. g \in Gaps(frame) /\ g \in Nat
  <2>1. \A f \in frame : f \in Nat
    BY <1>1
  <2>2. Gaps(frame) \in SUBSET Nat /\ Gaps(frame) # {}
    BY <2>1 DEF Gaps, GapsKnown
  <2> QED
    BY <2>2, HasOldest
<1>4. s \in Nat /\ g <= s /\ s <= n
  BY <1>1
<1>5. time <= now + Interval
  BY <1>1, RoundSizes DEF Lagging, ShortRounds, Waiting, RoundInv, RoundTypes
<1>6. RefillCount \in Nat \ {0}
  BY <1>3, RefillAsksForSome
<1>7. RefillCount >= q + 2
  <2>1. q \in Int
    BY <1>1, <1>3, RoundSizes
  <2>2. RefillCount = IF q + 2 > Warmup + 1 THEN q + 2 ELSE Warmup + 1
    BY DEF RefillCount
  <2> HIDE DEF q
  <2> QED
    BY <2>1, <2>2, RoundSizes
<1>8. now - g * Interval < (q + 1) * Interval /\ q \in Int /\ g * Interval \in Nat
  BY <1>1, <1>3, RoundSizes, LaterBegins
<1> HIDE DEF q, g
<1>9. n - g < q + 2
  <2> SUFFICES ASSUME q + 2 + g <= n PROVE FALSE
    BY <1>1, <1>3, <1>8
  <2>1. (q + 1) * Interval + Interval + g * Interval = (q + 2 + g) * Interval
    BY <1>3, <1>8, RoundSizes
  <2>2. q + 2 + g \in Int /\ (q + 2 + g) * Interval <= n * Interval
    BY <1>1, <1>3, <1>8, RoundSizes
  <2>3. (q + 1) * Interval \in Int /\ (q + 2 + g) * Interval \in Int
    BY <1>3, <1>8, RoundSizes
  <2> QED
    BY <1>1, <1>2, <1>5, <1>8, <2>1, <2>2, <2>3, RoundSizes
<1>10. n - s < RefillCount
  BY <1>1, <1>3, <1>4, <1>6, <1>7, <1>8, <1>9
<1> QED
  BY <1>1, <1>6, <1>10, LatestOf

\* A frame refilled from its first gap is whole.
LEMMA RefillFillsAll ==
  ASSUME RoundInv, GapsKnown, Lagging, ShortRounds, RefillAnswers, RefillCount # MaxRows,
         NEW s \in published, Oldest(frame') <= s, s <= Newest(frame')
  PROVE  s \in frame'
<1> DEFINE answer == Latest(RefillCount, published)
           new == Closed(answer, now)
           g == Oldest(Gaps(frame))
<1>0. /\ phase = "refill" /\ frame' = Merged(answer, now)
      /\ RefillCount \in Nat \ {0} /\ now \in 0..time /\ Gaps(frame) # {}
  BY RefillAsksForSome DEF RefillAnswers, GapsKnown, RoundInv, RoundTypes
<1>1. /\ new \subseteq published
      /\ \A x \in answer \ new : \A p \in published : p <= x
      /\ frame' \subseteq frame \cup new
      /\ \A f \in frame \cup new : \E h \in frame' : f <= h
      /\ \A x \in frame', t \in frame \cup new : x <= t => t \in frame'
  BY <1>0, MergeOf DEF RoundInv
<1>2. /\ time \div Interval \in Nat /\ published \in SUBSET (0..(time \div Interval))
      /\ frame \subseteq published /\ \A p \in published : p \in Nat
  BY CandleOf DEF RoundInv, RoundTypes
<1>3. \A p \in published : g <= p => p \in answer
  BY <1>0, RefillReaches
<1>4. \A x \in answer, p \in published : x <= p => p \in answer
  BY <1>0, <1>2, LatestOf
<1> HIDE DEF new
<1> HIDE DEF answer
<1>5. frame \in SUBSET (0..(time \div Interval)) /\ frame \in SUBSET Nat /\ frame # {}
  BY <1>0, <1>2 DEF Gaps
<1>6. /\ Oldest(frame) \in frame /\ \A f \in frame : Oldest(frame) <= f
      /\ Newest(frame) \in frame /\ \A f \in frame : f <= Newest(frame)
  BY <1>2, <1>5, HasOldest, HasNewest
<1>7. Gaps(frame) \in SUBSET Nat /\ g \in Gaps(frame) /\ \A h \in Gaps(frame) : g <= h
  <2>1. Gaps(frame) \in SUBSET Nat
    BY <1>5 DEF Gaps
  <2> QED
    BY <1>0, <2>1, HasOldest
<1>8. frame' # {} /\ frame' \in SUBSET (0..(time \div Interval)) /\ frame' \in SUBSET Nat
  BY <1>1, <1>2, <1>6
<1>9. /\ Oldest(frame') \in frame'
      /\ Newest(frame') \in frame' /\ \A f \in frame' : f <= Newest(frame')
  BY <1>2, <1>8, HasOldest, HasNewest
<1> HIDE DEF g
<1>10. s \in Nat
  BY <1>2
<1>11. ASSUME s \in answer PROVE s \in frame'
  <2>1. CASE s \in new
    BY <1>1, <1>9, <2>1
  <2>2. CASE s \notin new
    <3>1. Newest(frame') \in published
      BY <1>1, <1>2, <1>9
    <3>2. Newest(frame') <= s /\ Newest(frame') \in Nat
      BY <1>1, <1>2, <1>11, <2>2, <3>1
    <3>3. s = Newest(frame')
      BY <1>10, <3>2
    <3> QED
      BY <1>9, <3>3
  <2> QED
    BY <2>1, <2>2
<1>12. CASE g <= s
  BY <1>3, <1>11, <1>12
<1>13. CASE ~(g <= s) /\ Oldest(frame) <= s
  <2>1. g \in Nat /\ g \in frame /\ g <= Newest(frame) /\ Newest(frame) \in Nat
    BY <1>5, <1>6, <1>7 DEF Gaps
  <2>2. s <= Newest(frame) /\ \A h \in Gaps(frame) : s <= h
    <3>1. s < g
      BY <1>10, <1>13, <2>1
    <3>2. s <= Newest(frame)
      BY <1>10, <2>1, <3>1
    <3>3. ASSUME NEW h \in Gaps(frame) PROVE s <= h
      BY <1>7, <1>10, <2>1, <3>1
    <3> QED
      BY <3>2, <3>3
  <2>3. s \in frame
    BY <1>2, <1>5, <1>10, <1>13, <2>2, NothingMissing
  <2> QED
    BY <1>1, <1>9, <2>3
<1>14. CASE ~(g <= s) /\ ~(Oldest(frame) <= s)
  <2>1. Oldest(frame') \notin frame
    <3> SUFFICES ASSUME Oldest(frame') \in frame PROVE FALSE
      OBVIOUS
    <3>1. Oldest(frame) <= Oldest(frame') /\ Oldest(frame) \in Nat /\ Oldest(frame') \in Nat
      BY <1>5, <1>6
    <3> QED
      BY <1>10, <1>14, <3>1
  <2>2. Oldest(frame') \in new
    BY <1>1, <1>9, <2>1
  <2>3. Oldest(frame') \in answer
    BY <2>2 DEF new, Closed
  <2> QED
    BY <1>4, <1>11, <2>3
<1> QED
  BY <1>12, <1>13, <1>14

\* Every step keeps the frame whole, and the round as short as it is.
LEMMA WholeStep ==
  ASSUME RoundInv, GapsKnown, ActedInOrder, Lagging, FrameWhole, ShortRounds, [RoundNext]_roundVars
  PROVE  Lagging' /\ FrameWhole'
<1>1. CASE UNCHANGED roundVars
  BY <1>1 DEF roundVars, Lagging, FrameWhole
<1>2. CASE Tick
  <2>1. UNCHANGED <<published, frame, phase, now, patched, seen>> /\ time' = time + 1
    BY <1>2 DEF Tick
  <2>2. time \in Nat /\ now \in Nat /\ lag \in Nat /\ MaxLag \in Nat
    BY RoundSizes DEF RoundInv, RoundTypes
  <2>3. phase \in Waiting => lag' = lag + 1 /\ lag < MaxLag
    BY <1>2 DEF Tick, Waiting
  <2>4. Lagging'
    BY <2>1, <2>2, <2>3 DEF Lagging
  <2> QED
    BY <2>1, <2>4 DEF FrameWhole
<1>3. CASE Publish \/ RefillFails
  BY <1>3 DEF Publish, RefillFails, Lagging, FrameWhole, Waiting
<1>4. CASE WarmUp \/ FetchFails \/ RoundRaises
  BY <1>4 DEF WarmUp, FetchFails, RoundRaises, EndRound, Lagging, FrameWhole, Waiting
<1>5. CASE Act \/ SkipOld \/ HoldJump \/ Restart
  BY <1>5 DEF Act, SkipOld, HoldJump, Restart, EndRound, Lagging, FrameWhole, Waiting
<1>6. CASE BeginRound
  <2>1. phase' = "fetch" /\ now' = time /\ time' = time /\ lag' = 0
    BY <1>6 DEF BeginRound
  <2>2. time \in Nat /\ MaxLag \in Nat
    BY RoundSizes DEF RoundInv, RoundTypes
  <2>3. 0 <= MaxLag /\ time <= time + 0
    BY <2>2
  <2>4. Lagging'
    BY <2>1, <2>3 DEF Lagging
  <2> QED
    BY <2>1, <2>4 DEF FrameWhole
<1>7. CASE FetchAnswers
  <2>1. UNCHANGED <<time, now, lag>> /\ phase = "fetch" /\ seen' = published
    BY <1>7 DEF FetchAnswers
  <2>2. Lagging'
    BY <2>1 DEF Lagging, Waiting
  <2>3. ASSUME phase' = "act", NEW s \in seen', Oldest(frame') <= s, s <= Newest(frame')
        PROVE  s \in frame'
    <3>1. Gaps(frame') = {}
      BY <1>7, <2>3 DEF FetchAnswers, EndRound
    <3>2. RoundInv'
      BY RoundStep
    <3>3. time' \div Interval \in Nat /\ frame' \in SUBSET (0..(time' \div Interval)) /\ s \in Nat
      <4>1. s \in published'
        BY <3>2 DEF RoundInv, RoundTypes
      <4>2. /\ time' \in Nat /\ published' \subseteq 0..(time' \div Interval)
            /\ frame' \subseteq published'
        BY <3>2 DEF RoundInv, RoundTypes
      <4> QED
        BY <4>1, <4>2, CandleOf
    <3>4. frame' # {}
      BY <2>3, <3>2 DEF RoundInv, DueBehind, Handling
    <3> QED
      BY <2>3, <3>1, <3>3, <3>4, NothingMissing
  <2> QED
    BY <2>2, <2>3 DEF FrameWhole
<1>8. CASE RefillAnswers
  <2>1. /\ UNCHANGED <<time, now, lag>> /\ phase = "refill" /\ seen' = published
        /\ patched' = IF RefillCount = MaxRows THEN "cut short" ELSE "done"
    BY <1>8 DEF RefillAnswers
  <2>2. Lagging'
    BY <2>1 DEF Lagging, Waiting
  <2>3. ASSUME patched' # "cut short", NEW s \in seen', Oldest(frame') <= s, s <= Newest(frame')
        PROVE  s \in frame'
    BY <1>8, <2>1, <2>3, RefillFillsAll
  <2> QED
    BY <2>2, <2>3 DEF FrameWhole
<1> QED
  BY <1>1, <1>2, <1>3, <1>4, <1>5, <1>6, <1>7, <1>8 DEF RoundNext

\* While a round lasts no longer than an interval, the strategy never sees a
\* frame with a hole the exchange could have filled.
THEOREM FrameWholeHolds ==
  ASSUME ShortRounds
  PROVE  RoundSpec => []FrameWhole
<1>1. RoundInit => Lagging /\ FrameWhole
  BY DEF RoundInit, Lagging, FrameWhole, Waiting
<1>2. RoundInv /\ GapsKnown /\ ActedInOrder /\ Lagging /\ FrameWhole /\ [RoundNext]_roundVars
        => (Lagging /\ FrameWhole)'
  BY WholeStep
<1> QED
  BY <1>1, <1>2, RoundAlways, PTL DEF RoundSpec

-----------------------------------------------------------------------------
(* Notifications: sequences in order *)

Ordered(s) == \A i, j \in DOMAIN s : i < j => s[i] < s[j]

\* The members of a sequence put together, and when it is in order.
LEMMA TogetherMembers ==
  ASSUME NEW s \in Seq(Nat), NEW t \in Seq(Nat)
  PROVE  s \o t \in Seq(Nat) /\ Members(s \o t) = Members(s) \cup Members(t)
<1>1. /\ s \o t \in Seq(Nat) /\ Len(s \o t) = Len(s) + Len(t)
      /\ \A i \in 1..Len(s) + Len(t) : (s \o t)[i] = IF i <= Len(s) THEN s[i] ELSE t[i - Len(s)]
  BY ConcatProperties
<1>2. /\ DOMAIN (s \o t) = 1..Len(s) + Len(t) /\ DOMAIN s = 1..Len(s) /\ DOMAIN t = 1..Len(t)
      /\ Len(s) \in Nat /\ Len(t) \in Nat
  BY <1>1, LenProperties
<1> DEFINE c == s \o t
<1> HIDE DEF c
<1>3. ASSUME NEW x \in Members(c) PROVE x \in Members(s) \cup Members(t)
  <2>1. PICK i \in 1..Len(s) + Len(t) : x = IF i <= Len(s) THEN s[i] ELSE t[i - Len(s)]
    BY <1>1, <1>2, <1>3 DEF Members, c
  <2>2. CASE i <= Len(s)
    BY <1>2, <2>1, <2>2 DEF Members
  <2>3. CASE ~(i <= Len(s))
    <3>1. i - Len(s) \in 1..Len(t) /\ x = t[i - Len(s)]
      BY <1>2, <2>1, <2>3
    <3> QED
      BY <1>2, <3>1 DEF Members
  <2> QED
    BY <2>2, <2>3
<1>4. ASSUME NEW x \in Members(s) PROVE x \in Members(c)
  <2>1. PICK i \in 1..Len(s) : x = s[i]
    BY <1>2, <1>4 DEF Members
  <2>2. i \in 1..Len(s) + Len(t) /\ c[i] = x
    BY <1>1, <1>2, <2>1 DEF c
  <2> QED
    BY <1>2, <2>2 DEF Members, c
<1>5. ASSUME NEW x \in Members(t) PROVE x \in Members(c)
  <2>1. PICK i \in 1..Len(t) : x = t[i]
    BY <1>2, <1>5 DEF Members
  <2>2. Len(s) + i \in 1..Len(s) + Len(t) /\ c[Len(s) + i] = x
    <3>1. Len(s) + i \in 1..Len(s) + Len(t) /\ ~(Len(s) + i <= Len(s)) /\ Len(s) + i - Len(s) = i
      BY <1>2
    <3> QED
      BY <1>1, <2>1, <3>1 DEF c
  <2> QED
    BY <1>2, <2>2 DEF Members, c
<1> QED
  BY <1>1, <1>3, <1>4, <1>5 DEF c

LEMMA TogetherOrdered ==
  ASSUME NEW s \in Seq(Nat), NEW t \in Seq(Nat)
  PROVE  Ordered(s \o t) <=> /\ Ordered(s) /\ Ordered(t)
                             /\ \A x \in Members(s), y \in Members(t) : x < y
<1>1. /\ s \o t \in Seq(Nat) /\ Len(s \o t) = Len(s) + Len(t)
      /\ \A i \in 1..Len(s) + Len(t) : (s \o t)[i] = IF i <= Len(s) THEN s[i] ELSE t[i - Len(s)]
  BY ConcatProperties
<1>2. /\ DOMAIN (s \o t) = 1..Len(s) + Len(t) /\ DOMAIN s = 1..Len(s) /\ DOMAIN t = 1..Len(t)
      /\ Len(s) \in Nat /\ Len(t) \in Nat
  BY <1>1, LenProperties
<1> DEFINE c == s \o t
<1> HIDE DEF c
<1>3. \A i \in 1..Len(s) : i \in DOMAIN c /\ c[i] = s[i]
  BY <1>1, <1>2 DEF c
<1>4. \A i \in 1..Len(t) : Len(s) + i \in DOMAIN c /\ c[Len(s) + i] = t[i]
  <2> SUFFICES ASSUME NEW i \in 1..Len(t) PROVE Len(s) + i \in DOMAIN c /\ c[Len(s) + i] = t[i]
    OBVIOUS
  <2>1. Len(s) + i \in 1..Len(s) + Len(t) /\ ~(Len(s) + i <= Len(s)) /\ Len(s) + i - Len(s) = i
    BY <1>2
  <2> QED
    BY <1>1, <1>2, <2>1 DEF c
<1>5. ASSUME Ordered(c)
      PROVE  Ordered(s) /\ Ordered(t) /\ \A x \in Members(s), y \in Members(t) : x < y
  <2>1. Ordered(s)
    BY <1>2, <1>3, <1>5 DEF Ordered
  <2>2. Ordered(t)
    <3> SUFFICES ASSUME NEW i \in 1..Len(t), NEW j \in 1..Len(t), i < j PROVE t[i] < t[j]
      BY <1>2 DEF Ordered
    <3>1. Len(s) + i < Len(s) + j
      BY <1>2
    <3> QED
      BY <1>4, <1>5, <3>1 DEF Ordered
  <2>3. ASSUME NEW i \in 1..Len(s), NEW j \in 1..Len(t) PROVE s[i] < t[j]
    <3>1. i < Len(s) + j
      BY <1>2
    <3> QED
      BY <1>3, <1>4, <1>5, <3>1 DEF Ordered
  <2> QED
    BY <1>2, <2>1, <2>2, <2>3 DEF Members
<1>6. ASSUME Ordered(s), Ordered(t), \A x \in Members(s), y \in Members(t) : x < y
      PROVE  Ordered(c)
  <2> SUFFICES ASSUME NEW i \in 1..Len(s) + Len(t), NEW j \in 1..Len(s) + Len(t), i < j
               PROVE  c[i] < c[j]
    BY <1>2 DEF Ordered, c
  <2>1. c[i] = IF i <= Len(s) THEN s[i] ELSE t[i - Len(s)]
    BY <1>1 DEF c
  <2>2. c[j] = IF j <= Len(s) THEN s[j] ELSE t[j - Len(s)]
    BY <1>1 DEF c
  <2>3. CASE j <= Len(s)
    <3>1. i \in 1..Len(s) /\ j \in 1..Len(s)
      BY <1>2, <2>3
    <3>2. c[i] = s[i] /\ c[j] = s[j]
      BY <1>3, <3>1
    <3>3. s[i] < s[j]
      BY <1>2, <1>6, <3>1 DEF Ordered
    <3> QED
      BY <3>2, <3>3
  <2>4. CASE ~(i <= Len(s))
    <3>1. i - Len(s) \in 1..Len(t) /\ j - Len(s) \in 1..Len(t) /\ i - Len(s) < j - Len(s) /\ ~(j <= Len(s))
      BY <1>2, <2>4
    <3> QED
      BY <1>2, <1>6, <2>1, <2>2, <2>4, <3>1 DEF Ordered
  <2>5. CASE i <= Len(s) /\ ~(j <= Len(s))
    <3>1. i \in 1..Len(s) /\ j - Len(s) \in 1..Len(t)
      BY <1>2, <2>5
    <3>2. c[i] \in Members(s) /\ c[j] \in Members(t)
      BY <1>2, <2>1, <2>2, <2>5, <3>1 DEF Members
    <3> QED
      BY <1>6, <3>2
  <2> QED
    BY <2>3, <2>4, <2>5
<1> QED
  BY <1>5, <1>6 DEF c

\* One event.
LEMMA OneMember ==
  ASSUME NEW e \in Nat
  PROVE  <<e>> \in Seq(Nat) /\ Members(<<e>>) = {e} /\ Ordered(<<e>>)
  BY DEF Members, Ordered

LEMMA NoMember == <<>> \in Seq(Nat) /\ Members(<<>>) = {} /\ Ordered(<<>>)
  BY DEF Members, Ordered

LEMMA Appended ==
  ASSUME NEW s \in Seq(Nat), NEW e \in Nat
  PROVE  Append(s, e) = s \o <<e>>
  BY AppendIsConcat

LEMMA HeadFirst ==
  ASSUME NEW s \in Seq(Nat), s # <<>>
  PROVE  Head(s) \in Nat /\ Tail(s) \in Seq(Nat) /\ s = <<Head(s)>> \o Tail(s)
<1>1. Head(s) \in Nat /\ Tail(s) \in Seq(Nat)
  BY HeadTailProperties
<1> QED
  BY <1>1

\* The first n members, and those after the first n.
LEMMA PieceOf ==
  ASSUME NEW q \in Seq(Nat), NEW n \in 0..Len(q)
  PROVE  /\ SubSeq(q, 1, n) \in Seq(Nat) /\ Len(SubSeq(q, 1, n)) = n
         /\ \A i \in 1..n : SubSeq(q, 1, n)[i] = q[i]
         /\ SubSeq(q, n + 1, Len(q)) \in Seq(Nat) /\ Len(SubSeq(q, n + 1, Len(q))) = Len(q) - n
         /\ \A i \in 1..Len(q) - n : SubSeq(q, n + 1, Len(q))[i] = q[n + i]
<1>1. Len(q) \in Nat /\ \A i \in 1..Len(q) : q[i] \in Nat
  BY LenProperties
<1> DEFINE l == Len(q)
<1>2. l \in Nat /\ n \in 0..l
  BY <1>1
<1> HIDE DEF l
<1>3. /\ 1 \in Int /\ n \in Int /\ l \in Int /\ n + 1 \in Int
      /\ \A i \in 1..n : i \in 1..l
      /\ \A i \in n + 1..l : i \in 1..l
  BY <1>2
<1>4. /\ IF 1 <= n THEN n - 1 + 1 = n ELSE 0 = n
      /\ IF n + 1 <= l THEN l - (n + 1) + 1 = l - n ELSE 0 = l - n
      /\ n - 1 + 1 = n /\ l - (n + 1) + 1 = l - n
      /\ \A i \in 1..n : 1 + i - 1 = i
      /\ \A i \in 1..l - n : (n + 1) + i - 1 = n + i
  BY <1>2
<1>5. /\ \A i \in 1..n : q[i] \in Nat
      /\ \A i \in n + 1..l : q[i] \in Nat
  BY <1>1, <1>3 DEF l
<1>6. /\ SubSeq(q, 1, n) \in Seq(Nat)
      /\ Len(SubSeq(q, 1, n)) = IF 1 <= n THEN n - 1 + 1 ELSE 0
      /\ \A i \in 1..n - 1 + 1 : SubSeq(q, 1, n)[i] = q[1 + i - 1]
  BY <1>3, <1>5, SubSeqProperties
<1>7. /\ SubSeq(q, n + 1, l) \in Seq(Nat)
      /\ Len(SubSeq(q, n + 1, l)) = IF n + 1 <= l THEN l - (n + 1) + 1 ELSE 0
      /\ \A i \in 1..l - (n + 1) + 1 : SubSeq(q, n + 1, l)[i] = q[(n + 1) + i - 1]
  BY <1>3, <1>5, SubSeqProperties
<1>8. /\ SubSeq(q, 1, n) \in Seq(Nat) /\ Len(SubSeq(q, 1, n)) = n
      /\ \A i \in 1..n : SubSeq(q, 1, n)[i] = q[i]
  BY <1>4, <1>6, Zenon
<1>9. /\ SubSeq(q, n + 1, l) \in Seq(Nat) /\ Len(SubSeq(q, n + 1, l)) = l - n
      /\ \A i \in 1..l - n : SubSeq(q, n + 1, l)[i] = q[n + i]
  BY <1>4, <1>7, Zenon
<1> QED
  BY <1>8, <1>9, Zenon DEF l

\* Taking a member out of a sequence in order.
LEMMA TakenOut ==
  ASSUME NEW q \in Seq(Nat), NEW v \in DOMAIN q, Ordered(q)
  PROVE  /\ Without(q, v) \in Seq(Nat) /\ Ordered(Without(q, v))
         /\ Members(Without(q, v)) = Members(q) \ {q[v]}
<1> DEFINE a == SubSeq(q, 1, v - 1)
           b == SubSeq(q, v + 1, Len(q))
<1>1. Len(q) \in Nat /\ DOMAIN q = 1..Len(q) /\ v \in 1..Len(q) /\ \A i \in 1..Len(q) : q[i] \in Nat
  BY LenProperties
<1>2. /\ a \in Seq(Nat) /\ Len(a) = v - 1
      /\ \A i \in 1..v - 1 : a[i] = q[i]
  <2>1. v - 1 \in 0..Len(q)
    BY <1>1
  <2> QED
    BY <2>1, PieceOf, Zenon
<1>3. /\ b \in Seq(Nat) /\ Len(b) = Len(q) - v
      /\ \A i \in 1..Len(q) - v : b[i] = q[v + i]
  <2>1. v \in 0..Len(q)
    BY <1>1
  <2> QED
    BY <2>1, PieceOf, Zenon
<1> HIDE DEF a, b
<1>4. DOMAIN a = 1..v - 1 /\ DOMAIN b = 1..Len(q) - v
  BY <1>2, <1>3, LenProperties
<1>5. Ordered(a)
  <2> SUFFICES ASSUME NEW i \in 1..v - 1, NEW j \in 1..v - 1, i < j PROVE a[i] < a[j]
    BY <1>4 DEF Ordered
  <2>1. i \in 1..Len(q) /\ j \in 1..Len(q)
    BY <1>1
  <2> QED
    BY <1>1, <1>2, <2>1 DEF Ordered
<1>6. Ordered(b)
  <2> SUFFICES ASSUME NEW i \in 1..Len(q) - v, NEW j \in 1..Len(q) - v, i < j PROVE b[i] < b[j]
    BY <1>4 DEF Ordered
  <2>1. \A l \in Nat : \A k \in 1..l - v : v \in 1..l => v + k \in 1..l
    OBVIOUS
  <2>2. v + i \in 1..Len(q) /\ v + j \in 1..Len(q)
    BY <1>1, <2>1, Zenon
  <2>3. v + i < v + j
    BY <1>1
  <2> QED
    BY <1>1, <1>3, <2>2, <2>3 DEF Ordered
<1>7. \A x \in Members(a) : \E i \in 1..Len(q) : i < v /\ x = q[i]
  <2> SUFFICES ASSUME NEW i \in 1..v - 1 PROVE i \in 1..Len(q) /\ i < v /\ a[i] = q[i]
    BY <1>4 DEF Members
  <2> QED
    BY <1>1, <1>2
<1>8. \A x \in Members(b) : \E i \in 1..Len(q) : v < i /\ x = q[i]
  <2> SUFFICES ASSUME NEW i \in 1..Len(q) - v
               PROVE  v + i \in 1..Len(q) /\ v < v + i /\ b[i] = q[v + i]
    BY <1>4 DEF Members
  <2>1. \A l \in Nat : \A k \in 1..l - v : v \in 1..l => v + k \in 1..l /\ v < v + k
    OBVIOUS
  <2> QED
    BY <1>1, <1>3, <2>1, Zenon
<1>9. \A i, j \in 1..Len(q) : i < j => q[i] < q[j]
  BY <1>1 DEF Ordered
<1>10. \A x \in Members(a), y \in Members(b) : x < y
  <2> SUFFICES ASSUME NEW x \in Members(a), NEW y \in Members(b) PROVE x < y
    OBVIOUS
  <2>1. PICK i \in 1..Len(q) : i < v /\ x = q[i]
    BY <1>7
  <2>2. PICK j \in 1..Len(q) : v < j /\ y = q[j]
    BY <1>8
  <2>3. i < j
    BY <1>1, <2>1, <2>2
  <2> QED
    BY <1>9, <2>1, <2>2, <2>3
<1>11. Members(a) \cup Members(b) = Members(q) \ {q[v]}
  <2>1. ASSUME NEW x \in Members(a) \cup Members(b) PROVE x \in Members(q) /\ x # q[v]
    <3>1. PICK i \in 1..Len(q) : i # v /\ x = q[i]
      BY <1>1, <1>7, <1>8
    <3>2. x # q[v]
      <4>1. i < v \/ v < i
        BY <1>1, <3>1
      <4>2. q[i] < q[v] \/ q[v] < q[i]
        BY <1>1, <1>9, <4>1
      <4> QED
        BY <1>1, <3>1, <4>2
    <3> QED
      BY <1>1, <3>1, <3>2 DEF Members
  <2>2. ASSUME NEW i \in 1..Len(q), q[i] # q[v] PROVE q[i] \in Members(a) \cup Members(b)
    <3>1. CASE i < v
      <4>1. i \in 1..v - 1
        BY <1>1, <3>1
      <4> QED
        BY <1>2, <1>4, <4>1 DEF Members
    <3>2. CASE v < i
      <4>1. i - v \in 1..Len(q) - v /\ v + (i - v) = i
        BY <1>1, <3>2
      <4>2. b[i - v] = q[i]
        BY <1>3, <4>1
      <4> QED
        BY <1>4, <4>1, <4>2 DEF Members
    <3>3. i < v \/ v < i
      BY <1>1, <2>2
    <3> QED
      BY <3>1, <3>2, <3>3
  <2> QED
    BY <1>1, <2>1, <2>2 DEF Members
<1> QED
  BY <1>2, <1>3, <1>5, <1>6, <1>10, <1>11, TogetherMembers, TogetherOrdered DEF Without, a, b

-----------------------------------------------------------------------------
NotifyTypes ==
  /\ calls \in Nat /\ queue \in Seq(Nat) /\ taken \in Seq(Nat) /\ event \in Nat
  /\ worker \in {"not started", "waiting"} => event = 0
  /\ worker = "sending" => event # 0
  /\ accepted \subseteq 1..calls

NotifyInv == NotifyTypes /\ EventsAccounted

\* What has left the queue.
Gone == taken \o InHand

LEMMA GoneIs ==
  ASSUME NotifyTypes
  PROVE  /\ Gone \in Seq(Nat) /\ InHand \in Seq(Nat) /\ Course \in Seq(Nat)
         /\ Course = Gone \o queue
<1>1. InHand \in Seq(Nat)
  BY OneMember, NoMember DEF InHand, NotifyTypes
<1> QED
  BY <1>1, ConcatProperties, ConcatAssociative DEF NotifyTypes, Gone, Course

\* The course of events in order, told by its parts.
LEMMA CourseIs ==
  ASSUME NotifyTypes
  PROVE  /\ Members(Course) = Members(Gone) \cup Members(queue)
         /\ Ordered(Course) <=> /\ Ordered(Gone) /\ Ordered(queue)
                               /\ \A x \in Members(Gone), y \in Members(queue) : x < y
  BY GoneIs, TogetherMembers, TogetherOrdered DEF NotifyTypes

LEMMA AccountedIs ==
  EventsAccounted <=> /\ Ordered(Course)
                      /\ accepted = Members(Course) \cup dropped \cup lost
                      /\ Members(Course) \cap (dropped \cup lost) = {}
                      /\ lost # {} => dropped \cap Unlabelled # {}
  BY DEF EventsAccounted, Ordered

LEMMA VictimIsThere ==
  ASSUME NEW q \in Seq(Nat), Len(q) > 0
  PROVE  Victim(q) \in DOMAIN q
<1>1. DOMAIN q = 1..Len(q) /\ Len(q) \in Nat
  BY LenProperties
<1> DEFINE low == {i \in DOMAIN q : q[i] \notin Priority}
<1>2. CASE low = {}
  BY <1>1, <1>2 DEF Victim
<1>3. CASE low # {}
  <2>1. low \in SUBSET Nat
    BY <1>1
  <2> HIDE DEF low
  <2>2. Oldest(low) \in low
    BY <1>3, <2>1, HasOldest
  <2>3. Victim(q) = Oldest(low)
    BY <1>3 DEF Victim, Oldest, low
  <2> QED
    BY <2>2, <2>3 DEF low
<1> QED
  BY <1>2, <1>3

\* A new event at the end of what is left of the queue.
LEMMA NewEventKeeps ==
  ASSUME NotifyInv, NEW rest \in Seq(Nat), Ordered(rest), Members(rest) \subseteq Members(queue),
         calls' = calls + 1, queue' = Append(rest, calls'),
         accepted' = accepted \cup {calls'}, UNCHANGED <<taken, event, worker>>,
         dropped' \cup lost' = dropped \cup lost \cup (Members(queue) \ Members(rest)),
         lost' # {} => dropped' \cap Unlabelled # {}
  PROVE  NotifyInv'
<1> DEFINE e == calls + 1
<1>1. /\ calls \in Nat /\ queue \in Seq(Nat) /\ accepted \subseteq 1..calls /\ NotifyTypes
      /\ Ordered(Course) /\ accepted = Members(Course) \cup dropped \cup lost
      /\ Members(Course) \cap (dropped \cup lost) = {}
  BY AccountedIs DEF NotifyInv, NotifyTypes
<1>2. e \in Nat /\ \A x \in 1..calls : x < e /\ x \in 1..e
  BY <1>1
<1>3. e \in 1..e
  BY <1>1
<1>4. calls' = e
  OBVIOUS
<1> HIDE DEF e
<1>5. /\ queue' = rest \o <<e>> /\ queue' \in Seq(Nat)
      /\ Members(queue') = Members(rest) \cup {e}
      /\ Ordered(queue') <=> \A x \in Members(rest) : x < e
  <2>1. <<e>> \in Seq(Nat) /\ Members(<<e>>) = {e} /\ Ordered(<<e>>)
    BY <1>2, OneMember
  <2>2. queue' = rest \o <<e>>
    BY <1>2, <1>4, Appended
  <2> DEFINE r == rest \o <<e>>
  <2>3. r \in Seq(Nat) /\ Members(r) = Members(rest) \cup Members(<<e>>)
    BY <2>1, TogetherMembers
  <2>4. Ordered(r) <=> Ordered(rest) /\ Ordered(<<e>>) /\ \A x \in Members(rest), y \in Members(<<e>>) : x < y
    BY <2>1, TogetherOrdered
  <2>5. queue' = r
    BY <2>2
  <2> HIDE DEF r
  <2> QED
    BY <2>1, <2>2, <2>3, <2>4, <2>5 DEF Members, Ordered
<1>6. NotifyTypes'
  BY <1>1, <1>2, <1>3, <1>4, <1>5 DEF NotifyTypes
<1>7. Gone' = Gone
  BY DEF Gone, InHand
<1>8. /\ Members(Course) = Members(Gone) \cup Members(queue)
      /\ Ordered(Gone) /\ \A x \in Members(Gone), y \in Members(queue) : x < y
  BY <1>1, CourseIs
<1>9. /\ Members(Course') = Members(Gone') \cup Members(queue')
      /\ Ordered(Course') <=> /\ Ordered(Gone') /\ Ordered(queue')
                            /\ \A x \in Members(Gone'), y \in Members(queue') : x < y
  <2>1. NotifyTypes' => (/\ Members(Course) = Members(Gone) \cup Members(queue)
                         /\ Ordered(Course) <=> /\ Ordered(Gone) /\ Ordered(queue)
                               /\ \A x \in Members(Gone), y \in Members(queue) : x < y)'
    BY CourseIs, PTL
  <2> QED
    BY <1>6, <2>1
<1>10. \A x \in Members(queue') : x \in Members(queue) \/ x = e
  BY <1>5
<1>11. \A x \in Members(Course) : x < e
  BY <1>1, <1>2
<1>12. Ordered(Course')
  <2>1. Ordered(queue')
    BY <1>5, <1>8, <1>11
  <2>2. \A x \in Members(Gone'), y \in Members(queue') : x < y
    BY <1>7, <1>8, <1>10, <1>11
  <2> QED
    BY <1>7, <1>8, <1>9, <2>1, <2>2
<1>13. Members(Course') = Members(Gone) \cup Members(rest) \cup {e}
  BY <1>5, <1>7, <1>9
<1>14. e \notin dropped \cup lost
  BY <1>1, <1>2
<1>15. Members(rest) \cap (Members(queue) \ Members(rest)) = {}
  OBVIOUS
<1>16. Members(Gone) \cap Members(queue) = {}
  <2>1. ASSUME NEW x \in Members(Gone), x \in Members(queue) PROVE FALSE
    <3>1. x < x
      BY <1>8, <2>1
    <3>2. x \in Nat
      BY <1>1, <1>8
    <3> QED
      BY <3>1, <3>2
  <2> QED
    BY <2>1
<1>17. accepted' = Members(Course') \cup dropped' \cup lost'
  BY <1>1, <1>4, <1>8, <1>13
<1>18. e \notin Members(queue)
  BY <1>2, <1>8, <1>11
<1>19. Members(Course') \cap (dropped' \cup lost') = {}
  BY <1>1, <1>8, <1>13, <1>14, <1>16, <1>18
<1>20. EventsAccounted'
  <2>1. EventsAccounted' <=> (/\ Ordered(Course)
                              /\ accepted = Members(Course) \cup dropped \cup lost
                              /\ Members(Course) \cap (dropped \cup lost) = {}
                              /\ lost # {} => dropped \cap Unlabelled # {})'
    BY AccountedIs, PTL
  <2> QED
    BY <1>12, <1>17, <1>19, <2>1
<1> QED
  BY <1>6, <1>20 DEF NotifyInv

\* Steps that move an event on leave the course as it is.
LEMMA MovingOnKeeps ==
  ASSUME NotifyInv, NotifyTypes', Course' = Course, UNCHANGED <<accepted, dropped, lost>>
  PROVE  NotifyInv'
  BY DEF NotifyInv, EventsAccounted

\* The queue is taken out and lost.
LEMMA LosingKeeps ==
  ASSUME NotifyInv, NEW e \in Nat, Len(queue) >= MaxQueue, EmitRaises(e), calls' = calls + 1,
         UNCHANGED <<worker, event, taken>>
  PROVE  NotifyInv'
<1> DEFINE v == Victim(queue)
<1>1. /\ calls \in Nat /\ queue \in Seq(Nat) /\ accepted \subseteq 1..calls /\ NotifyTypes
      /\ Ordered(Course) /\ accepted = Members(Course) \cup dropped \cup lost
      /\ Members(Course) \cap (dropped \cup lost) = {}
  BY AccountedIs DEF NotifyInv, NotifyTypes
<1>2. /\ queue' = <<>> /\ accepted' = accepted /\ queue[v] \in Unlabelled
      /\ dropped' = dropped \cup {queue[v]}
      /\ lost' = lost \cup {queue[i] : i \in DOMAIN queue \ {v}}
  BY DEF EmitRaises
<1>3. v \in DOMAIN queue
  <2>1. Len(queue) > 0
    BY <1>1, LenProperties, NotifyAssumption
  <2> QED
    BY <1>1, <2>1, VictimIsThere
<1> HIDE DEF v
<1>4. NotifyTypes'
  <2>1. 1..calls \subseteq 1..calls + 1
    BY <1>1
  <2>2. <<>> \in Seq(Nat) /\ calls + 1 \in Nat
    BY <1>1, NoMember
  <2>3. accepted' \subseteq 1..calls'
    BY <1>1, <1>2, <2>1
  <2> QED
    BY <1>1, <1>2, <2>2, <2>3 DEF NotifyTypes
<1>5. dropped' \cup lost' = dropped \cup lost \cup Members(queue)
  BY <1>2, <1>3 DEF Members
<1>6. Gone' = Gone
  BY DEF Gone, InHand
<1>7. /\ Members(Course) = Members(Gone) \cup Members(queue)
      /\ Ordered(Gone) /\ \A x \in Members(Gone), y \in Members(queue) : x < y
  BY <1>1, CourseIs
<1>8. Members(queue') = {} /\ Ordered(queue')
  BY <1>2, NoMember DEF Members, Ordered
<1>9. /\ Members(Course') = Members(Gone') \cup Members(queue')
      /\ Ordered(Course') <=> /\ Ordered(Gone') /\ Ordered(queue')
                            /\ \A x \in Members(Gone'), y \in Members(queue') : x < y
  <2>1. NotifyTypes' => (/\ Members(Course) = Members(Gone) \cup Members(queue)
                         /\ Ordered(Course) <=> /\ Ordered(Gone) /\ Ordered(queue)
                               /\ \A x \in Members(Gone), y \in Members(queue) : x < y)'
    BY CourseIs, PTL
  <2> QED
    BY <1>4, <2>1
<1>10. Members(Course') = Members(Gone) /\ Ordered(Course')
  BY <1>6, <1>7, <1>8, <1>9
<1>11. Members(Gone) \cap Members(queue) = {}
  <2>1. ASSUME NEW x \in Members(Gone), x \in Members(queue) PROVE FALSE
    <3>1. x < x
      BY <1>7, <2>1
    <3>2. x \in Nat
      BY <1>1, <1>7
    <3> QED
      BY <3>1, <3>2
  <2> QED
    BY <2>1
<1>12. accepted' = Members(Course') \cup dropped' \cup lost'
  BY <1>1, <1>2, <1>5, <1>7, <1>10
<1>13. Members(Course') \cap (dropped' \cup lost') = {}
  BY <1>1, <1>5, <1>7, <1>10, <1>11
<1>14. dropped' \cap Unlabelled # {}
  BY <1>2
<1>15. EventsAccounted'
  <2>1. EventsAccounted' <=> (/\ Ordered(Course)
                              /\ accepted = Members(Course) \cup dropped \cup lost
                              /\ Members(Course) \cap (dropped \cup lost) = {}
                              /\ lost # {} => dropped \cap Unlabelled # {})'
    BY AccountedIs, PTL
  <2> QED
    BY <1>10, <1>12, <1>13, <1>14, <2>1
<1> QED
  BY <1>4, <1>15 DEF NotifyInv

LEMMA NotifyInitially == NotifyInit => NotifyInv
<1> SUFFICES ASSUME NotifyInit PROVE NotifyInv
  OBVIOUS
<1>1. NotifyTypes
  <2>1. accepted \subseteq 1..calls
    BY DEF NotifyInit
  <2>2. queue \in Seq(Nat) /\ taken \in Seq(Nat)
    BY NoMember DEF NotifyInit
  <2>3. calls \in Nat /\ event \in Nat /\ event = 0 /\ worker = "not started"
    BY DEF NotifyInit
  <2> QED
    BY <2>1, <2>2, <2>3 DEF NotifyTypes
<1>2. Course = <<>>
  <2>1. taken = <<>> /\ InHand = <<>> /\ queue = <<>>
    BY DEF NotifyInit, InHand
  <2>2. <<>> \o <<>> = <<>>
    BY NoMember, ConcatEmptySeq
  <2> QED
    BY <2>1, <2>2 DEF Course
<1>3. dropped = {} /\ lost = {} /\ accepted = {}
  BY DEF NotifyInit
<1>4. EventsAccounted
  BY <1>2, <1>3, NoMember, AccountedIs
<1> QED
  BY <1>1, <1>4 DEF NotifyInv

LEMMA EmitKeeps ==
  ASSUME NotifyInv, Emit
  PROVE  NotifyInv'
<1>1. /\ calls' = calls + 1 /\ UNCHANGED <<worker, event, taken>>
  BY DEF Emit
<1>2. /\ calls \in Nat /\ queue \in Seq(Nat) /\ accepted \subseteq 1..calls /\ NotifyTypes /\ Ordered(queue)
  BY CourseIs, AccountedIs DEF NotifyInv, NotifyTypes
<1>3. CASE Suppress(calls')
  <2>1. UNCHANGED <<queue, accepted, dropped, lost>>
    BY <1>3 DEF Suppress
  <2>2. 1..calls \subseteq 1..calls + 1
    BY <1>2
  <2>3. NotifyTypes'
    <3>1. accepted' \subseteq 1..calls' /\ calls' \in Nat
      BY <1>1, <1>2, <2>1, <2>2
    <3> QED
      BY <1>1, <1>2, <2>1, <3>1 DEF NotifyTypes
  <2>4. Course' = Course
    BY <1>1, <2>1 DEF Course, InHand
  <2> QED
    BY <2>1, <2>3, <2>4, MovingOnKeeps
<1>4. CASE Enqueue(calls')
  <2>1. /\ queue' = Append(queue, calls') /\ accepted' = accepted \cup {calls'}
        /\ dropped' = dropped /\ lost' = lost
    BY <1>4 DEF Enqueue
  <2>2. lost' # {} => dropped' \cap Unlabelled # {}
    BY <2>1 DEF NotifyInv, EventsAccounted
  <2>3. dropped' \cup lost' = dropped \cup lost \cup (Members(queue) \ Members(queue))
    BY <2>1
  <2> QED
    BY <1>1, <1>2, <2>1, <2>2, <2>3, NewEventKeeps
<1>5. CASE EnqueueFull(calls')
  <2> DEFINE v == Victim(queue)
             rest == Without(queue, v)
  <2>1. /\ Len(queue) >= MaxQueue /\ queue' = Append(rest, calls') /\ accepted' = accepted \cup {calls'}
        /\ dropped' = dropped \cup {queue[v]} /\ lost' = lost
    BY <1>5 DEF EnqueueFull, MakeRoom
  <2>2. v \in DOMAIN queue
    <3>1. Len(queue) > 0
      BY <1>2, <2>1, LenProperties, NotifyAssumption
    <3> QED
      BY <1>2, <3>1, VictimIsThere
  <2>3. queue[v] \in Members(queue)
    BY <2>2 DEF Members
  <2> HIDE DEF v
  <2>4. rest \in Seq(Nat) /\ Ordered(rest) /\ Members(rest) = Members(queue) \ {queue[v]}
    BY <1>2, <2>2, TakenOut
  <2>5. lost' # {} => dropped' \cap Unlabelled # {}
    BY <2>1 DEF NotifyInv, EventsAccounted
  <2> HIDE DEF rest
  <2>6. dropped' \cup lost' = dropped \cup lost \cup (Members(queue) \ Members(rest))
    BY <2>1, <2>3, <2>4
  <2> QED
    BY <1>1, <2>1, <2>4, <2>5, <2>6, NewEventKeeps
<1>6. CASE EmitRaises(calls')
  BY <1>1, <1>2, <1>6, LosingKeeps DEF EmitRaises
<1> QED
  BY <1>3, <1>4, <1>5, <1>6 DEF Emit

\* The worker takes the head of the queue in hand.
LEMMA TakeKeeps ==
  ASSUME NotifyInv, Take
  PROVE  NotifyInv'
<1> DEFINE h == Head(queue)
<1>1. /\ event' = h /\ queue' = Tail(queue) /\ queue # <<>> /\ worker = "waiting" /\ worker' = "sending"
      /\ UNCHANGED <<calls, accepted, taken, dropped, lost>>
  BY DEF Take
<1>2. /\ queue \in Seq(Nat) /\ taken \in Seq(Nat) /\ event = 0 /\ NotifyTypes
      /\ accepted \subseteq 1..calls /\ accepted = Members(Course) \cup dropped \cup lost
  BY <1>1, AccountedIs DEF NotifyInv, NotifyTypes
<1>3. h \in Nat /\ Tail(queue) \in Seq(Nat) /\ queue = <<h>> \o Tail(queue)
  BY <1>1, <1>2, HeadFirst
<1>4. h \in Members(queue)
  <2>1. Members(queue) = Members(<<h>>) \cup Members(Tail(queue))
    BY <1>3, TogetherMembers, OneMember
  <2> QED
    BY <1>3, <2>1, OneMember
<1> HIDE DEF h
<1>5. h # 0
  <2>1. h \in Members(Course)
    BY <1>2, <1>4, CourseIs
  <2> QED
    BY <1>2, <2>1
<1>6. NotifyTypes'
  BY <1>1, <1>2, <1>3, <1>5 DEF NotifyTypes
<1>7. InHand = <<>> /\ InHand' = <<h>>
  BY <1>1, <1>2, <1>5 DEF InHand
<1>8. Course' = (taken \o <<h>>) \o Tail(queue)
  BY <1>1, <1>7 DEF Course
<1>9. Course = taken \o queue
  BY <1>2, <1>7, ConcatEmptySeq DEF Course
<1>10. (taken \o <<h>>) \o Tail(queue) = taken \o (<<h>> \o Tail(queue))
  BY <1>2, <1>3, OneMember, ConcatAssociative
<1> QED
  BY <1>1, <1>3, <1>6, <1>8, <1>9, <1>10, MovingOnKeeps

\* At the last channel the event is over.
LEMMA ChannelKeeps ==
  ASSUME NotifyInv, NEW n, ChannelOver(n)
  PROVE  NotifyInv'
<1>1. /\ UNCHANGED <<calls, queue, accepted, dropped, lost>> /\ worker = "sending"
      /\ NotifyTypes
  BY DEF ChannelOver, NotifyInv
<1>2. CASE UNCHANGED <<worker, event, taken>>
  <2>1. NotifyTypes' /\ Course' = Course
    BY <1>1, <1>2 DEF NotifyTypes, Course, InHand
  <2> QED
    BY <1>1, <2>1, MovingOnKeeps
<1>3. CASE event' = 0 /\ worker' = "waiting" /\ taken' = Append(taken, event)
  <2>1. event \in Nat /\ event # 0 /\ taken \in Seq(Nat)
    BY <1>1 DEF NotifyTypes
  <2>2. taken' = taken \o <<event>> /\ taken' \in Seq(Nat)
    BY <1>3, <2>1, Appended, AppendProperties
  <2>3. NotifyTypes'
    BY <1>1, <1>3, <2>2 DEF NotifyTypes
  <2>4. InHand = <<event>> /\ InHand' = <<>>
    BY <1>3, <2>1 DEF InHand
  <2>5. Course = taken' \o queue /\ Course' = taken' \o queue
    BY <1>1, <2>2, <2>4, ConcatEmptySeq DEF Course
  <2> QED
    BY <1>1, <2>3, <2>5, MovingOnKeeps
<1> QED
  BY <1>2, <1>3 DEF ChannelOver

LEMMA NotifyStep ==
  ASSUME NotifyInv, [NotifyNext]_notifyVars
  PROVE  NotifyInv'
<1>1. CASE Emit
  BY <1>1, EmitKeeps
<1>2. CASE Take
  BY <1>2, TakeKeeps
<1>3. CASE SentOrFailed \/ Unwritable
  BY <1>3, ChannelKeeps DEF SentOrFailed, Unwritable
<1>4. CASE Start \/ SendAgain \/ Close \/ GiveUp \/ Pass \/ UNCHANGED notifyVars
  <2>1. UNCHANGED <<calls, queue, event, accepted, taken, dropped, lost>>
    BY <1>4 DEF Start, SendAgain, Close, GiveUp, Pass, notifyVars
  <2>2. worker' = worker \/ (worker = "not started" /\ worker' = "waiting") \/ worker' = "gone"
    BY <1>4 DEF Start, SendAgain, Close, GiveUp, Pass, notifyVars
  <2>3. NotifyTypes'
    BY <2>1, <2>2 DEF NotifyInv, NotifyTypes
  <2>4. Course' = Course
    BY <2>1 DEF Course, InHand
  <2> QED
    BY <2>1, <2>3, <2>4, MovingOnKeeps
<1> QED
  BY <1>1, <1>2, <1>3, <1>4 DEF NotifyNext

\* Every event is in one place, and they go out in the order they came in.  An
\* event is lost only with the rest of a queue out of which a victim without a
\* label was taken (manager.py 117).
THEOREM EventsAccountedHolds == NotifySpec => []EventsAccounted
<1>1. NotifyInv => EventsAccounted
  BY DEF NotifyInv
<1> QED
  BY <1>1, NotifyInitially, NotifyStep, PTL DEF NotifySpec

-----------------------------------------------------------------------------
(* Holdings *)

\* Nothing happens besides: see HoldingsAssumption.
Calm == Upsets = {}

LEMMA HoldingLimits ==
  /\ \A m \in Marks : m \in Nat /\ m > 0
  /\ \A n \in Lots : n \in Nat /\ n > 0
  /\ LeastAmount \in Nat /\ MaxUnits \in Nat
  BY HoldingsAssumption

Basis == [units : Nat, basis : Nat, known : BOOLEAN]

HoldingTypes ==
  /\ coins \in [units : Nat, avg : Nat]
  /\ mark \in Marks /\ quoted \in Marks \cup {0}
  /\ engine \in {"down", "starting", "running"}
  /\ holding \in Basis /\ stored \in Basis
  /\ top \in Nat /\ highest \in Nat /\ touched \in BOOLEAN
  /\ holding.known => holding.basis > 0

\* The peak belongs to the coins on the account; without coins there is none.
PeakKnown ==
  /\ top <= highest
  /\ engine # "down" /\ coins.units = 0 => top = 0 /\ holding.units = 0

Untouched == StoredBasis /\ ~touched

\* The stored basis is in force while the account does not tell otherwise, and
\* a running engine never takes its coins for dust.
BasisKept ==
  /\ engine # "down" /\ Untouched /\ coins.units = stored.units /\ coins.avg = 0 =>
       holding.units = stored.units /\ holding.basis = stored.basis /\ ~holding.known
  /\ engine = "running" /\ Untouched =>
       /\ coins.units = stored.units
       /\ coins.avg = 0 => stored.units * stored.basis >= LeastAmount
       /\ holding.units = stored.units /\ ~holding.known => holding.basis = stored.basis

HoldingsInv == HoldingTypes /\ PeakKnown /\ BasisKept

LEMMA HoldingsInitially == HoldingsInit => HoldingsInv
<1> SUFFICES ASSUME HoldingsInit PROVE HoldingsInv
  OBVIOUS
<1>1. Nothing \in Basis
  BY DEF Nothing, Basis
<1>2. HoldingTypes
  BY <1>1 DEF HoldingsInit, HoldingTypes, Nothing
<1>3. PeakKnown /\ BasisKept
  BY DEF HoldingsInit, PeakKnown, BasisKept
<1> QED
  BY <1>2, <1>3 DEF HoldingsInv

\* What the account makes of a reference price.
LEMMA FromAccountIs ==
  ASSUME coins \in [units : Nat, avg : Nat], NEW r \in Nat
  PROVE  /\ FromAccount(r) \in Basis
         /\ FromAccount(r).known => FromAccount(r).basis > 0
         /\ FromAccount(r).units \in {0, coins.units}
         /\ FromAccount(r).known => coins.avg > 0
         /\ FromAccount(r).units > 0 /\ ~FromAccount(r).known =>
               coins.avg = 0 /\ FromAccount(r).basis = r
         /\ FromAccount(r).units > 0 /\ r > 0 => ~(coins.units * r < LeastAmount)
         /\ coins.units > 0 /\ ~IsDust(r) /\ coins.avg = 0 =>
               FromAccount(r) = [units |-> coins.units, basis |-> r, known |-> FALSE]
<1>1. coins.units \in Nat /\ coins.avg \in Nat
  OBVIOUS
<1>2. CASE coins.units = 0 \/ IsDust(r)
  BY <1>1, <1>2 DEF FromAccount, Nothing, Basis
<1>3. CASE ~(coins.units = 0 \/ IsDust(r))
  <2> DEFINE f == [units |-> coins.units, known |-> coins.avg > 0,
                   basis |-> IF coins.avg > 0 THEN coins.avg ELSE r]
  <2>1. FromAccount(r) = f
    BY <1>3 DEF FromAccount
  <2>2. r > 0 => ~(coins.units * r < LeastAmount)
    BY <1>3 DEF IsDust, Valuation
  <2>3. CASE coins.avg > 0
    <3>1. f = [units |-> coins.units, known |-> TRUE, basis |-> coins.avg]
      BY <2>3
    <3>2. FromAccount(r) = [units |-> coins.units, known |-> TRUE, basis |-> coins.avg]
      BY <2>1, <3>1
    <3> QED
      BY <1>1, <2>2, <2>3, <3>2 DEF Basis
  <2>4. CASE ~(coins.avg > 0)
    <3>0. (coins.avg > 0) = FALSE
      BY <2>4
    <3>1. f = [units |-> coins.units, known |-> FALSE, basis |-> r]
      BY <3>0, Zenon
    <3>2. FromAccount(r) = [units |-> coins.units, known |-> FALSE, basis |-> r]
      BY <2>1, <3>1
    <3>3. coins.avg = 0
      BY <1>1, <2>4
    <3>4. [units |-> coins.units, known |-> FALSE, basis |-> r] = [units |-> coins.units, basis |-> r, known |-> FALSE]
      OBVIOUS
    <3> QED
      BY <1>1, <2>2, <3>2, <3>3, <3>4 DEF Basis
  <2> QED
    BY <2>3, <2>4
<1> QED
  BY <1>2, <1>3

LEMMA HigherIs ==
  ASSUME NEW a \in Nat, NEW b \in Nat
  PROVE  Higher(a, b) \in Nat /\ a <= Higher(a, b) /\ b <= Higher(a, b)
  BY DEF Higher

LEMMA HoldNowIs ==
  ASSUME NEW h \in Basis, NEW worth \in Nat, NEW price \in Nat, HoldNow(h, worth, price)
  PROVE  /\ holding' = h /\ highest' \in Nat
         /\ worth <= highest' /\ h.basis <= highest' /\ price <= highest'
<1>1. h.basis \in Nat
  BY DEF Basis
<1>2. Higher(h.basis, price) \in Nat /\ h.basis <= Higher(h.basis, price) /\ price <= Higher(h.basis, price)
  BY <1>1, HigherIs
<1>3. highest' = Higher(worth, Higher(h.basis, price)) /\ holding' = h
  BY DEF HoldNow
<1> DEFINE m == Higher(h.basis, price)
<1> HIDE DEF m
<1>4. Higher(worth, m) \in Nat /\ worth <= Higher(worth, m) /\ m <= Higher(worth, m)
  BY <1>2, HigherIs DEF m
<1> QED
  BY <1>1, <1>2, <1>3, <1>4 DEF m

\* An engine starts with the stored basis of as many coins.
LEMMA BuildKeeps ==
  ASSUME HoldingsInv, Calm, Build
  PROVE  HoldingsInv'
<1>1. /\ engine' = "starting" /\ quoted' = 0 /\ top' = 0
      /\ UNCHANGED <<coins, mark, stored, touched>>
  BY DEF Build
<1>2. PICK r \in {0, mark} :
        /\ StoredBasis => ~IsDust(r)
        /\ HoldNow(MergeSaved(FromAccount(r)), 0, 0)
  BY DEF Build, Calm
<1>3. r \in Nat /\ coins \in [units : Nat, avg : Nat] /\ stored \in Basis /\ HoldingTypes
  BY HoldingLimits DEF HoldingsInv, HoldingTypes
<1> DEFINE f == FromAccount(r)
<1>4. f \in Basis /\ (f.known => f.basis > 0) /\ f.units \in {0, coins.units} /\
      (coins.units > 0 /\ ~IsDust(r) /\ coins.avg = 0 =>
               f = [units |-> coins.units, basis |-> r, known |-> FALSE])
  BY <1>3, FromAccountIs
<1> HIDE DEF f
<1> DEFINE h == MergeSaved(f)
<1>5. h \in Basis /\ (h.known => h.basis > 0) /\ h.units \in {0, coins.units}
  BY <1>3, <1>4 DEF MergeSaved, Basis
<1>6. ASSUME Untouched, coins.units = stored.units, coins.avg = 0
      PROVE  h.units = stored.units /\ h.basis = stored.basis /\ ~h.known
  <2>1. coins.units > 0 /\ ~IsDust(r) /\ stored.basis > 0 /\ ~stored.known /\ stored.units \in Nat
    BY <1>2, <1>3, <1>6 DEF Untouched, StoredBasis, Basis
  <2>2. f.units = stored.units /\ ~f.known /\ f.units # 0 /\ f \in Basis
    BY <1>3, <1>4, <1>6, <2>1
  <2>3. h = [f EXCEPT !.basis = stored.basis, !.known = stored.known]
    BY <2>1, <2>2 DEF MergeSaved
  <2> QED
    BY <2>1, <2>2, <2>3 DEF Basis
<1> HIDE DEF h
<1>7. holding' = h /\ highest' \in Nat /\ 0 <= highest'
  BY <1>2, <1>5, HoldNowIs DEF h, f
<1>8. HoldingTypes'
  <2>1. holding' \in Basis /\ (holding'.known => holding'.basis > 0)
    BY <1>5, <1>7
  <2> QED
    BY <1>1, <1>3, <1>7, <2>1 DEF HoldingTypes
<1>9. PeakKnown'
  BY <1>1, <1>5, <1>7 DEF PeakKnown
<1>10. BasisKept'
  BY <1>1, <1>6, <1>7 DEF BasisKept, Untouched, StoredBasis
<1> QED
  BY <1>8, <1>9, <1>10 DEF HoldingsInv

\* The price an account is compared by: the stored basis, where it is in force.
LEMMA ReconcileKeeps ==
  ASSUME HoldingsInv, Reconcile
  PROVE  HoldingsInv' /\ BasisStands
<1> DEFINE f == FromAccount(Reference)
<1>1. /\ engine # "down" /\ engine' = "running" /\ UNCHANGED <<coins, mark, quoted, top>>
      /\ HoldNow(f, highest, 0)
      /\ \/ stored' = holding' /\ touched' = FALSE
         \/ engine = "running" /\ UNCHANGED <<stored, touched>>
  BY DEF Reconcile, Store
<1>2. /\ HoldingTypes /\ coins \in [units : Nat, avg : Nat] /\ stored \in Basis /\ holding \in Basis
      /\ highest \in Nat /\ top \in Nat /\ top <= highest /\ coins.units \in Nat /\ coins.avg \in Nat
      /\ stored.units \in Nat /\ stored.basis \in Nat
      /\ PeakKnown /\ BasisKept
  BY DEF HoldingsInv, HoldingTypes, PeakKnown, Basis
<1>3. Reference \in Nat
  BY <1>2, HoldingLimits DEF Reference, HoldingTypes, Basis
<1>4. /\ f \in Basis /\ (f.known => f.basis > 0) /\ f.units \in {0, coins.units}
      /\ (f.known => coins.avg > 0)
      /\ f.units > 0 /\ ~f.known => coins.avg = 0 /\ f.basis = Reference
      /\ f.units > 0 /\ Reference > 0 => ~(coins.units * Reference < LeastAmount)
      /\ coins.units > 0 /\ ~IsDust(Reference) /\ coins.avg = 0 =>
               f = [units |-> coins.units, basis |-> Reference, known |-> FALSE]
  BY <1>2, <1>3, FromAccountIs
<1>5. holding' = f /\ highest' \in Nat /\ highest <= highest'
  BY <1>1, <1>2, <1>4, HoldNowIs
<1>6. ASSUME Untouched, coins.units = stored.units, coins.avg = 0
      PROVE  Reference = stored.basis
  BY <1>1, <1>2, <1>6 DEF BasisKept, Untouched, StoredBasis, Reference
<1> HIDE DEF f
<1>7. HoldingTypes'
  <2>1. holding' \in Basis /\ (holding'.known => holding'.basis > 0)
    BY <1>4, <1>5
  <2>2. stored' \in Basis /\ touched' \in BOOLEAN
    BY <1>1, <1>2, <2>1 DEF HoldingTypes
  <2>3. engine' \in {"down", "starting", "running"} /\ highest' \in Nat /\ top' \in Nat
    BY <1>1, <1>2, <1>5
  <2> QED
    BY <1>1, <1>2, <2>1, <2>2, <2>3 DEF HoldingTypes
<1>8. PeakKnown'
  <2>1. top' <= highest'
    BY <1>1, <1>2, <1>5
  <2> QED
    BY <1>1, <1>2, <1>4, <1>5, <2>1 DEF PeakKnown
<1>9. f.units \in Nat /\ f.basis \in Nat /\ f.known \in BOOLEAN
  BY <1>4 DEF Basis
<1>10. CASE stored' = holding' /\ touched' = FALSE
  <2>1. ASSUME Untouched' PROVE f.units > 0 /\ ~f.known /\ f.basis > 0 /\ f.units = coins.units /\ f.basis = Reference
    BY <1>4, <1>5, <1>9, <1>10, <2>1 DEF Untouched, StoredBasis
  <2>2. Untouched' => coins.units * Reference >= LeastAmount
    <3>1. coins.units * Reference \in Int
      BY <1>2, <1>3
    <3> QED
      BY <1>4, <1>9, <2>1, <3>1, HoldingLimits
  <2>3. BasisKept'
    BY <1>1, <1>5, <1>10, <2>1, <2>2 DEF BasisKept
  <2>4. BasisStands
    <3> SUFFICES ASSUME StoredBasis, ~touched, stored'.units = stored.units, ~stored'.known
                 PROVE  stored'.basis = stored.basis
      BY DEF BasisStands
    <3>1. f.units > 0 /\ ~f.known /\ f.units = stored.units
      BY <1>2, <1>5, <1>10 DEF StoredBasis
    <3>2. coins.units = stored.units /\ coins.avg = 0 /\ f.basis = Reference
      BY <1>4, <3>1
    <3> QED
      BY <1>5, <1>6, <1>10, <3>2 DEF Untouched
  <2> QED
    BY <1>7, <1>8, <2>3, <2>4 DEF HoldingsInv
<1>11. CASE engine = "running" /\ UNCHANGED <<stored, touched>>
  <2>1. BasisStands
    BY <1>11 DEF BasisStands
  <2>2. Untouched' <=> Untouched
    BY <1>11 DEF Untouched, StoredBasis
  <2>3. ASSUME Untouched, coins.avg = 0
        PROVE  f.units = stored.units /\ f.basis = stored.basis /\ ~f.known
    <3>1. coins.units = stored.units /\ stored.units * stored.basis >= LeastAmount /\ stored.basis > 0 /\ stored.units > 0
      BY <1>2, <1>11, <2>3 DEF BasisKept, Untouched, StoredBasis
    <3>2. Reference = stored.basis
      BY <1>6, <2>3, <3>1
    <3>3. ~IsDust(Reference)
      <4>1. stored.units * stored.basis \in Int
        BY <1>2
      <4> QED
        BY <3>1, <3>2, <4>1, HoldingLimits DEF IsDust, Valuation
    <3> QED
      BY <1>4, <2>3, <3>1, <3>2, <3>3
  <2>4. ASSUME Untouched, coins.avg # 0 PROVE ~(f.units = stored.units /\ ~f.known)
    BY <1>4, <1>9, <1>2, <2>4 DEF Untouched, StoredBasis
  <2>5. BasisKept'
    BY <1>1, <1>2, <1>5, <1>11, <2>2, <2>3, <2>4 DEF BasisKept
  <2> QED
    BY <1>7, <1>8, <2>1, <2>5 DEF HoldingsInv
<1> QED
  BY <1>1, <1>10, <1>11

\* What is sold is no longer stored, and its peak is forgotten.
LEMMA SaleKeeps ==
  ASSUME HoldingsInv, Calm, SoldOut, engine = "running", engine' = engine, mark' = mark,
         quoted' \in Marks \cup {0}
  PROVE  HoldingsInv' /\ BasisStands
<1>1. /\ coins.units >= holding.units /\ holding' = Nothing /\ highest' = 0
      /\ stored' = Nothing /\ touched' = FALSE /\ top' = 0
      /\ coins' = [units |-> coins.units - holding.units,
                   avg |-> IF coins.units = holding.units THEN 0 ELSE coins.avg]
  BY DEF SoldOut, Store, Calm
<1>2. /\ coins \in [units : Nat, avg : Nat] /\ holding \in Basis /\ mark \in Marks /\ stored \in Basis
      /\ engine \in {"down", "starting", "running"}
  BY DEF HoldingsInv, HoldingTypes
<1>3. coins' \in [units : Nat, avg : Nat]
  <2>1. coins.units \in Nat /\ holding.units \in Nat /\ coins.avg \in Nat
    BY <1>2 DEF Basis
  <2>2. coins.units - holding.units \in Nat
    BY <1>1, <2>1
  <2> QED
    BY <1>1, <2>1, <2>2
<1>4. HoldingTypes'
  BY <1>1, <1>2, <1>3 DEF HoldingTypes, Nothing, Basis
<1>5. PeakKnown' /\ BasisKept'
  BY <1>1 DEF PeakKnown, BasisKept, Untouched, StoredBasis, Nothing
<1>6. BasisStands
  BY <1>1, <1>2 DEF BasisStands, StoredBasis, Nothing, Basis
<1> QED
  BY <1>4, <1>5, <1>6 DEF HoldingsInv

LEMMA PriceKeeps ==
  ASSUME HoldingsInv, Calm, PriceTick
  PROVE  HoldingsInv' /\ BasisStands
<1>1. /\ engine = "running" /\ holding.units > 0 /\ quoted' = mark /\ UNCHANGED <<mark, engine>>
  BY DEF PriceTick
<1>2. /\ HoldingTypes /\ PeakKnown /\ BasisKept /\ holding \in Basis /\ mark \in Marks /\ mark \in Nat /\ mark > 0
      /\ highest \in Nat /\ top \in Nat /\ top <= highest /\ holding.basis \in Nat
  BY HoldingLimits DEF HoldingsInv, HoldingTypes, PeakKnown, Basis
<1>3. CASE FirstPrice
  <2> DEFINE h == [holding EXCEPT !.basis = mark, !.known = FALSE]
  <2>1. /\ holding.basis = 0 /\ HoldNow(h, highest, mark) /\ UNCHANGED <<coins, stored, top, touched>>
    BY <1>3 DEF FirstPrice
  <2>2. h \in Basis /\ ~h.known /\ h.units = holding.units
    BY <1>2 DEF Basis
  <2> HIDE DEF h
  <2>3. holding' = h /\ highest' \in Nat /\ highest <= highest'
    BY <1>2, <2>1, <2>2, HoldNowIs
  <2>4. HoldingTypes'
    BY <1>1, <1>2, <2>1, <2>2, <2>3 DEF HoldingTypes
  <2>5. PeakKnown'
    BY <1>1, <1>2, <2>1, <2>3 DEF PeakKnown
  <2>6. ~holding.known
    BY <1>2, <2>1 DEF HoldingTypes
  <2>7. Untouched => holding.units # stored.units
    BY <1>1, <1>2, <2>1, <2>6 DEF BasisKept, Untouched, StoredBasis
  <2>8. Untouched' <=> Untouched
    BY <2>1 DEF Untouched, StoredBasis
  <2>9. BasisKept'
    BY <1>1, <1>2, <2>1, <2>2, <2>3, <2>7, <2>8 DEF BasisKept
  <2>10. BasisStands
    BY <2>1 DEF BasisStands
  <2> QED
    BY <2>4, <2>5, <2>9, <2>10 DEF HoldingsInv
<1>4. CASE Judged
  <2>1. /\ HoldNow(holding, highest, mark) /\ UNCHANGED <<coins, stored, touched>>
        /\ top' = top \/ top' = Higher(Prior, mark)
    BY <1>4 DEF Judged
  <2>2. /\ holding' = holding /\ highest' \in Nat /\ highest <= highest'
        /\ holding.basis <= highest' /\ mark <= highest'
    BY <1>2, <2>1, HoldNowIs
  <2>3. top' \in Nat /\ top' <= highest'
    BY <1>2, <2>1, <2>2 DEF Higher, Prior
  <2>4. HoldingTypes'
    BY <1>1, <1>2, <2>1, <2>2, <2>3 DEF HoldingTypes
  <2>5. PeakKnown'
    <3>1. coins.units # 0
      BY <1>1, <1>2 DEF PeakKnown
    <3> QED
      BY <1>1, <2>1, <2>3, <3>1 DEF PeakKnown
  <2>6. BasisKept' /\ BasisStands
    BY <1>1, <1>2, <2>1, <2>2 DEF BasisKept, BasisStands, Untouched, StoredBasis
  <2> QED
    BY <2>4, <2>5, <2>6 DEF HoldingsInv
<1>5. CASE ExitSale
  BY <1>1, <1>2, <1>5, SaleKeeps DEF ExitSale
<1> QED
  BY <1>3, <1>4, <1>5 DEF PriceTick

LEMMA PurchaseKeeps ==
  ASSUME HoldingsInv, Calm, NEW n \in Lots, Purchase(n)
  PROVE  HoldingsInv' /\ BasisStands
<1> DEFINE h == [units |-> n, basis |-> mark, known |-> TRUE]
<1>1. /\ engine = "running" /\ coins.units = 0
      /\ coins' = [units |-> coins.units + n, avg |-> AverageOver(n)]
      /\ HoldNow(h, 0, mark) /\ stored' = holding' /\ touched' = FALSE
      /\ UNCHANGED <<mark, engine, quoted, top>>
  BY DEF Purchase, Store, Calm
<1>2. /\ mark \in Nat /\ mark > 0 /\ n \in Nat /\ n > 0 /\ HoldingTypes /\ top = 0
      /\ stored \in Basis /\ coins.units \in Nat
  BY <1>1, HoldingLimits DEF HoldingsInv, HoldingTypes, PeakKnown
<1>3. h \in Basis /\ h.known /\ h.basis > 0 /\ h.units = n
  BY <1>2 DEF Basis
<1> HIDE DEF h
<1>4. holding' = h /\ highest' \in Nat
  BY <1>1, <1>2, <1>3, HoldNowIs
<1>5. coins' \in [units : Nat, avg : Nat] /\ coins'.units # 0
  BY <1>1, <1>2 DEF AverageOver
<1>6. HoldingTypes'
  BY <1>1, <1>2, <1>3, <1>4, <1>5 DEF HoldingTypes
<1>7. PeakKnown' /\ BasisKept' /\ BasisStands
  BY <1>1, <1>2, <1>3, <1>4, <1>5 DEF PeakKnown, BasisKept, BasisStands, Untouched, StoredBasis
<1> QED
  BY <1>6, <1>7 DEF HoldingsInv

\* An orderly end stores what has been in force.
LEMMA StopKeeps ==
  ASSUME HoldingsInv, EngineStops
  PROVE  HoldingsInv' /\ BasisStands
<1>1. /\ engine' = "down" /\ holding' = Nothing /\ quoted' = 0
      /\ UNCHANGED <<coins, mark, top, highest>>
      /\ \/ engine = "running" /\ stored' = holding /\ touched' = FALSE
         \/ UNCHANGED <<stored, touched>>
  BY DEF EngineStops, Store
<1>2. HoldingTypes'
  <2>1. Nothing \in Basis /\ ~Nothing.known
    BY DEF Nothing, Basis
  <2> QED
    BY <1>1, <2>1 DEF HoldingsInv, HoldingTypes
<1>3. PeakKnown' /\ BasisKept'
  BY <1>1 DEF HoldingsInv, PeakKnown, BasisKept
<1>4. BasisStands
  BY <1>1 DEF HoldingsInv, BasisKept, BasisStands, Untouched
<1> QED
  BY <1>2, <1>3, <1>4 DEF HoldingsInv

\* The owner's moves are seen in the units, or in a purchase price.
LEMMA OwnerKeeps ==
  ASSUME HoldingsInv, NEW c \in [units : Nat, avg : Nat], OwnerMoves(c),
         engine = "down" \/ c.units # 0,
         c.units = coins.units => c.avg > 0
  PROVE  HoldingsInv' /\ BasisStands
<1>1. /\ coins' = c /\ UNCHANGED <<mark, engine, quoted, holding, stored, top, highest>>
      /\ touched' = (touched \/ c.units # coins.units)
  BY DEF OwnerMoves
<1>2. HoldingTypes'
  BY <1>1 DEF HoldingsInv, HoldingTypes
<1>3. PeakKnown'
  BY <1>1 DEF HoldingsInv, PeakKnown
<1>4. Untouched' => Untouched /\ c.units = coins.units
  BY <1>1 DEF Untouched, StoredBasis
<1>5. c.avg = 0 => c.units # coins.units
  OBVIOUS
<1>6. BasisKept'
  BY <1>1, <1>4, <1>5 DEF HoldingsInv, BasisKept
<1>7. BasisStands
  BY <1>1 DEF BasisStands
<1> QED
  BY <1>2, <1>3, <1>6, <1>7 DEF HoldingsInv

LEMMA HoldingsStep ==
  ASSUME HoldingsInv, Calm, [HoldingsNext]_holdingVars
  PROVE  HoldingsInv' /\ BasisStands
<1>0. coins \in [units : Nat, avg : Nat] /\ coins.units \in Nat /\ coins.avg \in Nat
  BY DEF HoldingsInv, HoldingTypes
<1>1. CASE UNCHANGED holdingVars
  BY <1>1 DEF holdingVars, HoldingsInv, HoldingTypes, PeakKnown, BasisKept, BasisStands, Untouched, StoredBasis
<1>2. CASE Build
  <2>1. BasisStands
    BY <1>2 DEF Build, BasisStands
  <2> QED
    BY <1>2, <2>1, BuildKeeps
<1>3. CASE EnsurePrices \/ PriceMoves
  <2>1. /\ UNCHANGED <<coins, engine, holding, stored, top, highest, touched>>
        /\ mark' \in Marks /\ quoted' \in Marks \cup {0}
    BY <1>3 DEF EnsurePrices, PriceMoves, HoldingsInv, HoldingTypes
  <2> QED
    BY <2>1 DEF HoldingsInv, HoldingTypes, PeakKnown, BasisKept, BasisStands, Untouched, StoredBasis
<1>4. CASE Reconcile
  BY <1>4, ReconcileKeeps
<1>5. CASE PriceTick
  BY <1>5, PriceKeeps
<1>6. CASE SignalSale
  BY <1>6, SaleKeeps DEF SignalSale, HoldingsInv, HoldingTypes
<1>7. CASE EngineStops
  BY <1>7, StopKeeps
<1>8. ASSUME NEW n \in Lots, Purchase(n) PROVE HoldingsInv' /\ BasisStands
  BY <1>8, PurchaseKeeps
<1>9. ASSUME NEW n \in Lots, Deposit(n) \/ Withdraw(n) PROVE HoldingsInv' /\ BasisStands
  <2>1. n \in Nat /\ n > 0
    BY HoldingLimits
  <2>2. CASE Deposit(n)
    <3> DEFINE c == [coins EXCEPT !.units = @ + n]
    <3>1. c \in [units : Nat, avg : Nat] /\ c.units # 0 /\ c.units # coins.units
      BY <1>0, <2>1
    <3>2. OwnerMoves(c)
      BY <2>2 DEF Deposit
    <3> HIDE DEF c
    <3> QED
      BY <3>1, <3>2, OwnerKeeps
  <2>3. CASE Withdraw(n)
    <3> DEFINE c == [coins EXCEPT !.units = @ - n]
    <3>0. n < coins.units
      BY <2>3 DEF Withdraw
    <3>1. c \in [units : Nat, avg : Nat] /\ c.units # 0 /\ c.units # coins.units
      BY <1>0, <2>1, <3>0
    <3>2. OwnerMoves(c)
      BY <2>3 DEF Withdraw
    <3> HIDE DEF c
    <3> QED
      BY <3>1, <3>2, OwnerKeeps
  <2> QED
    BY <1>9, <2>2, <2>3
<1>10. CASE WithdrawAll
  <2> DEFINE c == [units |-> 0, avg |-> 0]
  <2>1. /\ OwnerMoves(c) /\ engine = "down" /\ coins.units > 0
    BY <1>10 DEF WithdrawAll, Calm
  <2>2. c \in [units : Nat, avg : Nat] /\ c.units = 0
    OBVIOUS
  <2> HIDE DEF c
  <2> QED
    BY <1>0, <2>1, <2>2, OwnerKeeps
<1>11. ASSUME NEW price \in Marks, StateCost(price) PROVE HoldingsInv' /\ BasisStands
  <2> DEFINE c == [coins EXCEPT !.avg = price]
  <2>1. OwnerMoves(c) /\ coins.units > 0
    BY <1>11 DEF StateCost
  <2>2. c \in [units : Nat, avg : Nat] /\ c.units # 0 /\ c.avg > 0
    BY <1>0, <2>1, HoldingLimits
  <2> HIDE DEF c
  <2> QED
    BY <2>1, <2>2, OwnerKeeps
<1> QED
  BY <1>1, <1>2, <1>3, <1>4, <1>5, <1>6, <1>7, <1>8, <1>9, <1>10, <1>11 DEF HoldingsNext

\* As long as the coins are the same ones, exits are judged by the same basis
\* and by a peak these coins have reached.
THEOREM ExitsJudgeTheseCoinsHolds ==
  ASSUME Calm
  PROVE  HoldingsSpec => ExitsJudgeTheseCoins
<1>1. HoldingsInv => PeakIsOfTheseCoins
  BY DEF HoldingsInv, PeakKnown, PeakIsOfTheseCoins
<1>2. HoldingsInv /\ [HoldingsNext]_holdingVars => HoldingsInv' /\ [BasisStands]_holdingVars
  BY HoldingsStep
<1> QED
  BY <1>1, <1>2, HoldingsInitially, PTL DEF HoldingsSpec, ExitsJudgeTheseCoins

-----------------------------------------------------------------------------
(* PriceFeed.  The inductive invariant says that no price is stamped later    *)
(* than it was quoted: a REST answer is stamped with the clock its round read *)
(* before it asked.                                                           *)

Ages == 0..Long

QuotedBefore(price) ==
  /\ price.at \in Ages /\ price.quoted \in Ages
  /\ price.quoted <= price.at

FeedInv ==
  /\ QuotedBefore(last) /\ QuotedBefore(book)
  /\ since \in Nat
  /\ round # "asleep" => since <= MaxRound

\* The limits are numbers, and Long is beyond all of them.
LEMMA Limits == /\ MaxAge \in Nat /\ BookAge \in Nat /\ Alert \in Nat /\ MaxTransit \in Nat
                /\ MaxRound \in Nat /\ Long \in Nat
                /\ MaxRound < Long /\ MaxTransit < Long
  BY FeedAssumption

\* Time makes the stamp and the quote older by the same.
LEMMA OlderKeeps ==
  ASSUME NEW price, QuotedBefore(price)
  PROVE  QuotedBefore([at |-> Older(price.at), quoted |-> Older(price.quoted)])
  BY Limits DEF QuotedBefore, Older, Lesser, Ages

\* A price stamped with its own quote.
LEMMA QuotedNow ==
  ASSUME NEW age \in Ages
  PROVE  QuotedBefore(Quoted(age))
  BY Limits DEF QuotedBefore, Quoted, Ages

\* The feed begins without a price.
LEMMA FeedInitially == FeedInit => FeedInv
<1>1. Long \in Ages
  BY Limits DEF Ages
<1> QED
  BY <1>1, QuotedNow DEF FeedInit, FeedInv

\* Every step keeps the invariant.
LEMMA FeedStep == FeedInv /\ [FeedNext]_feedVars => FeedInv'
<1> SUFFICES ASSUME FeedInv, [FeedNext]_feedVars PROVE FeedInv'
  OBVIOUS
<1> USE DEF FeedInv
<1>1. CASE UNCHANGED feedVars
  BY <1>1 DEF feedVars, priceVars, roundsVars, QuotedBefore
<1>2. CASE ClockTicks
  <2>1. QuotedBefore(last)' /\ QuotedBefore(book)'
    BY <1>2, OlderKeeps DEF ClockTicks
  <2>2. since' \in Nat /\ (round' # "asleep" => since' <= MaxRound)
    BY <1>2, Limits DEF ClockTicks
  <2> QED
    BY <2>1, <2>2
<1>3. CASE \/ NetworkTurns \/ PositionTurns \/ Connect \/ ConnectFails \/ ConnectionLost
           \/ ReceiveTimesOut \/ DelayOver \/ StatusMessage \/ FatalError \/ NewStream
           \/ FeedStops
  <2>1. UNCHANGED <<priceVars, round, since>>
    BY <1>3 DEF NetworkTurns, PositionTurns, Connect, ConnectFails, ConnectionLost, Reconnecting,
                ReceiveTimesOut, DelayOver, StatusMessage, FatalError, NewStream, FeedStops,
                roundsVars
  <2> QED
    BY <2>1 DEF priceVars, QuotedBefore
<1>4. CASE \E age \in 0..MaxTransit : Ticker(age) \/ Orderbook(age)
  <2>1. PICK age \in 0..MaxTransit : Ticker(age) \/ Orderbook(age)
    BY <1>4
  <2>2. age \in Ages
    BY Limits DEF Ages
  <2>3. QuotedBefore(last)' /\ QuotedBefore(book)'
    BY <2>1, <2>2, QuotedNow DEF Ticker, Orderbook
  <2>4. UNCHANGED <<round, since>>
    BY <2>1 DEF Ticker, Orderbook, PriceMessage, roundsVars
  <2> QED
    BY <2>3, <2>4
<1>5. CASE WakeUp
  BY <1>5, Limits DEF WakeUp, priceVars
<1>6. CASE CheckStaleness \/ PriceUnanswered \/ Judge
  BY <1>6 DEF CheckStaleness, PriceUnanswered, Judge, priceVars
<1>7. CASE PriceAnswered
  <2>1. PICK age \in 0..since : last' = [at |-> since, quoted |-> age]
    BY <1>7 DEF PriceAnswered
  <2>2. since <= MaxRound
    BY <1>7 DEF PriceAnswered
  <2>3. QuotedBefore(last)'
    BY <2>1, <2>2, Limits DEF QuotedBefore, Ages
  <2> QED
    BY <1>7, <2>2, <2>3 DEF PriceAnswered
<1> QED
  BY <1>1, <1>2, <1>3, <1>4, <1>5, <1>6, <1>7 DEF FeedNext

-----------------------------------------------------------------------------
(* What is_fresh and book_usable promise together: the age they look at is    *)
(* the smaller one, and the price shown may be the older one of the two only  *)
(* as far as book_max_age_seconds allows.                                     *)
LEMMA FreshMarkIsRecent ==
  ASSUME FeedInv, NEW late \in Nat, Fresh(late)
  PROVE  MarkAge - late <= MaxAge + BookAge
<1>1. /\ last.at \in 0..Long /\ last.quoted \in 0..Long /\ last.quoted <= last.at
      /\ book.at \in 0..Long /\ book.quoted \in 0..Long /\ book.quoted <= book.at
  BY DEF FeedInv, QuotedBefore, Ages
<1>2. Lesser(last.at, book.at) - late <= MaxAge
  BY DEF Fresh
<1>3. CASE BookUsable
  BY <1>1, <1>2, <1>3, Limits DEF BookUsable, MarkAge, Lesser
<1>4. CASE ~BookUsable
  BY <1>1, <1>2, <1>4, Limits DEF BookUsable, MarkAge, Lesser
<1> QED
  BY <1>3, <1>4

(* A price that passes for fresh, by either clock, is not older than the two  *)
(* limits together (PriceState.is_fresh, mark_price; ensure_prices).          *)
THEOREM FreshPricesAreRecent == FeedSpec => []MarkIsRecent
<1>1. FeedInv => MarkIsRecent
  <2> SUFFICES ASSUME FeedInv, NEW late \in {0, since}, Fresh(late)
               PROVE  MarkAge - late <= MaxAge + BookAge
    BY DEF MarkIsRecent
  <2>1. late \in Nat
    BY DEF FeedInv
  <2> QED
    BY <2>1, FreshMarkIsRecent
<1> QED
  BY FeedInitially, FeedStep, <1>1, PTL DEF FeedSpec
=============================================================================
