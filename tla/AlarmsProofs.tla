----------------------------- MODULE AlarmsProofs ----------------------------
(***************************************************************************)
(* The properties of Alarms hold for any number of threads and alarms, any *)
(* times and periods, every clock and every counter: from the arithmetic   *)
(* of times and counts, over the timer and the list of alarms, to the loop *)
(* that expires them and the calls that end in it.                         *)
(***************************************************************************)
EXTENDS Alarms, KThreadProofs

-----------------------------------------------------------------------------
(***************************************************************************)
(* Times.  A pair may leave nsec equal to NSEC, so that two pairs may      *)
(* stand for one time; still sums, differences and comparisons are right.  *)
(***************************************************************************)
LEMMA MulMonotone ==
  ASSUME NEW x \in Int, NEW y \in Int, NEW n \in Nat, x <= y
  PROVE  x * n <= y * n /\ x * n \in Int /\ y * n \in Int
<1>1. PICK d \in Nat : y = x + d
  <2>1. y - x \in Nat /\ y = x + (y - x)
    OBVIOUS
  <2> QED BY <2>1
<1>2. (x + d) * n = x * n + d * n /\ d * n \in Nat /\ x * n \in Int
  OBVIOUS
<1> QED BY <1>1, <1>2

LEMMA Products ==
  ASSUME NEW x \in Int, NEW y \in Int, NEW n \in Int
  PROVE  /\ (x + y) * n = x * n + y * n /\ (x - y) * n = x * n - y * n
         /\ (x + y + 1) * n = x * n + y * n + n
         /\ (x - (y + 1)) * n = x * n - y * n - n
         /\ (x + 1) * n = x * n + n /\ x * n \in Int
OBVIOUS

LEMMA TimeFields ==
  ASSUME NEW t \in Time
  PROVE  /\ t.sec \in Int /\ t.nsec \in Int /\ t.nsec >= 0 /\ t.nsec <= NSEC
         /\ NSEC \in Nat /\ NSEC > 1
         /\ t.sec * NSEC \in Int /\ Value(t) \in Int /\ Value(t) = t.sec * NSEC + t.nsec
         /\ t = T(t.sec, t.nsec)
BY NSECAssumption DEF Time, Value, T

LEMMA MakeTime ==
  ASSUME NEW sec \in Int, NEW nsec \in 0 .. NSEC
  PROVE  T(sec, nsec) \in Time /\ T(sec, nsec).sec = sec /\ T(sec, nsec).nsec = nsec
BY DEF Time, T

LEMMA AddTimes ==
  ASSUME NEW a \in Time, NEW b \in Time
  PROVE  time_add(a, b) \in Time /\ Value(time_add(a, b)) = Value(a) + Value(b)
<1>1. /\ a.sec \in Int /\ b.sec \in Int /\ a.nsec \in 0 .. NSEC /\ b.nsec \in 0 .. NSEC
      /\ NSEC \in Nat /\ Value(a) = a.sec * NSEC + a.nsec /\ Value(b) = b.sec * NSEC + b.nsec
  BY TimeFields
<1>2. /\ (a.sec + b.sec) * NSEC = a.sec * NSEC + b.sec * NSEC
      /\ (a.sec + b.sec + 1) * NSEC = a.sec * NSEC + b.sec * NSEC + NSEC
      /\ a.sec * NSEC \in Int /\ b.sec * NSEC \in Int
  BY <1>1, Products
<1>3. CASE a.nsec + b.nsec > NSEC
  <2> DEFINE c == T(a.sec + b.sec + 1, a.nsec + b.nsec - NSEC)
  <2>1. a.nsec + b.nsec - NSEC \in 0 .. NSEC /\ a.sec + b.sec + 1 \in Int
    BY <1>1, <1>3
  <2>2. c \in Time /\ c.sec = a.sec + b.sec + 1 /\ c.nsec = a.nsec + b.nsec - NSEC
    BY <2>1, MakeTime
  <2>3. time_add(a, b) = c
    BY <1>1, <1>3 DEF time_add
  <2> HIDE DEF c
  <2>4. Value(c) = Value(a) + Value(b)
    <3>1. c.sec * NSEC = a.sec * NSEC + b.sec * NSEC + NSEC
      BY <1>2, <2>2
    <3>2. Value(c) = (a.sec * NSEC + b.sec * NSEC + NSEC) + (a.nsec + b.nsec - NSEC)
      BY <2>2, <3>1 DEF Value
    <3> QED BY <1>1, <1>2, <3>2
  <2> QED BY <2>2, <2>3, <2>4
<1>4. CASE ~(a.nsec + b.nsec > NSEC)
  <2> DEFINE c == T(a.sec + b.sec, a.nsec + b.nsec)
  <2>1. a.nsec + b.nsec \in 0 .. NSEC /\ a.sec + b.sec \in Int
    BY <1>1, <1>4
  <2>2. c \in Time /\ c.sec = a.sec + b.sec /\ c.nsec = a.nsec + b.nsec
    BY <2>1, MakeTime
  <2>3. time_add(a, b) = c
    BY <1>4 DEF time_add
  <2> HIDE DEF c
  <2>4. Value(c) = Value(a) + Value(b)
    BY <1>1, <1>2, <2>2 DEF Value
  <2> QED BY <2>2, <2>3, <2>4
<1> QED BY <1>3, <1>4

LEMMA SubTimes ==
  ASSUME NEW a \in Time, NEW b \in Time
  PROVE  time_sub(a, b) \in Time /\ Value(time_sub(a, b)) = Value(a) - Value(b)
<1>1. /\ a.sec \in Int /\ b.sec \in Int /\ a.nsec \in 0 .. NSEC /\ b.nsec \in 0 .. NSEC
      /\ NSEC \in Nat /\ Value(a) = a.sec * NSEC + a.nsec /\ Value(b) = b.sec * NSEC + b.nsec
  BY TimeFields
<1>2. /\ (a.sec - b.sec) * NSEC = a.sec * NSEC - b.sec * NSEC
      /\ (a.sec - (b.sec + 1)) * NSEC = a.sec * NSEC - b.sec * NSEC - NSEC
      /\ a.sec * NSEC \in Int /\ b.sec * NSEC \in Int
  BY <1>1, Products
<1>3. CASE a.nsec >= b.nsec
  <2> DEFINE c == T(a.sec - b.sec, a.nsec - b.nsec)
  <2>1. a.nsec - b.nsec \in 0 .. NSEC /\ a.sec - b.sec \in Int
    BY <1>1, <1>3
  <2>2. c \in Time /\ c.sec = a.sec - b.sec /\ c.nsec = a.nsec - b.nsec
    BY <2>1, MakeTime
  <2>3. time_sub(a, b) = c
    BY <1>3 DEF time_sub
  <2> HIDE DEF c
  <2>4. Value(c) = Value(a) - Value(b)
    BY <1>1, <1>2, <2>2 DEF Value
  <2> QED BY <2>2, <2>3, <2>4
<1>4. CASE ~(a.nsec >= b.nsec)
  <2> DEFINE c == T(a.sec - (b.sec + 1), a.nsec + NSEC - b.nsec)
  <2>1. a.nsec + NSEC - b.nsec \in 0 .. NSEC /\ a.sec - (b.sec + 1) \in Int
    BY <1>1, <1>4
  <2>2. c \in Time /\ c.sec = a.sec - (b.sec + 1) /\ c.nsec = a.nsec + NSEC - b.nsec
    BY <2>1, MakeTime
  <2>3. time_sub(a, b) = c
    BY <1>4 DEF time_sub
  <2> HIDE DEF c
  <2>4. Value(c) = Value(a) - Value(b)
    BY <1>1, <1>2, <2>2 DEF Value
  <2> QED BY <2>2, <2>3, <2>4
<1> QED BY <1>3, <1>4

\* time_cmp compares the pairs, seconds first.
LEMMA CmpPairs ==
  ASSUME NEW a \in Time, NEW b \in Time
  PROVE  /\ time_cmp(a, b) \in {-1, 0, 1}
         /\ time_cmp(a, b) <= 0 <=> a.sec < b.sec \/ (a.sec = b.sec /\ a.nsec <= b.nsec)
         /\ time_cmp(a, b) < 0 <=> a.sec < b.sec \/ (a.sec = b.sec /\ a.nsec < b.nsec)
         /\ time_cmp(a, b) = 0 <=> a = b
<1>1. /\ a.sec \in Int /\ b.sec \in Int /\ a.nsec \in Int /\ b.nsec \in Int
      /\ a = T(a.sec, a.nsec) /\ b = T(b.sec, b.nsec)
  BY TimeFields
<1>2. CASE a.sec < b.sec
  BY <1>1, <1>2 DEF time_cmp
<1>3. CASE a.sec > b.sec
  BY <1>1, <1>3 DEF time_cmp
<1>4. CASE a.sec = b.sec /\ a.nsec < b.nsec
  BY <1>1, <1>4 DEF time_cmp
<1>5. CASE a.sec = b.sec /\ a.nsec > b.nsec
  BY <1>1, <1>5 DEF time_cmp
<1>6. CASE a.sec = b.sec /\ a.nsec = b.nsec
  BY <1>1, <1>6 DEF time_cmp
<1> QED BY <1>1, <1>2, <1>3, <1>4, <1>5, <1>6

\* Never against the times the pairs stand for.
LEMMA CmpValues ==
  ASSUME NEW a \in Time, NEW b \in Time
  PROVE  /\ time_cmp(a, b) <= 0 => Value(a) <= Value(b)
         /\ ~(time_cmp(a, b) < 0) => Value(a) >= Value(b)
<1>1. ASSUME NEW x \in Time, NEW y \in Time, x.sec < y.sec
      PROVE  Value(x) <= Value(y)
  <2>1. x.sec \in Int /\ y.sec \in Int /\ x.sec + 1 <= y.sec /\ NSEC \in Nat
    BY <1>1, TimeFields
  <2>2. (x.sec + 1) * NSEC <= y.sec * NSEC
    BY <2>1, MulMonotone
  <2>3. (x.sec + 1) * NSEC = x.sec * NSEC + NSEC
    BY <2>1
  <2> QED BY <2>1, <2>2, <2>3, TimeFields
<1>2. ASSUME NEW x \in Time, NEW y \in Time, x.sec = y.sec, x.nsec <= y.nsec
      PROVE  Value(x) <= Value(y)
  BY <1>2, TimeFields DEF Value
<1>3. time_cmp(a, b) <= 0 => Value(a) <= Value(b)
  BY <1>1, <1>2, CmpPairs
<1>4. ~(time_cmp(a, b) < 0) => Value(b) <= Value(a)
  <2>1. ~(time_cmp(a, b) < 0) => b.sec < a.sec \/ (b.sec = a.sec /\ b.nsec <= a.nsec)
    BY CmpPairs, TimeFields
  <2> QED BY <1>1, <1>2, <2>1
<1> QED BY <1>3, <1>4, TimeFields

LEMMA CmpTransitive ==
  ASSUME NEW a \in Time, NEW b \in Time, NEW c \in Time
  PROVE  /\ time_cmp(a, b) <= 0 /\ time_cmp(b, c) <= 0 => time_cmp(a, c) <= 0
         /\ time_cmp(a, b) < 0 => time_cmp(a, b) <= 0
         /\ ~(time_cmp(a, b) < 0) => time_cmp(b, a) <= 0
BY CmpPairs, TimeFields

-----------------------------------------------------------------------------
(***************************************************************************)
(* Counts.  Both conversions truncate: an interval measured by a count is  *)
(* never longer than the time the counter was loaded with.                 *)
(***************************************************************************)
LEMMA Division ==
  ASSUME NEW x \in Nat, NEW d \in Nat \ {0}
  PROVE  /\ x \div d \in Nat /\ (x \div d) * d <= x /\ x < (x \div d) * d + d
         /\ (x \div d) * d \in Nat
OBVIOUS

\* A number of whole d that fit in x is not more than the quotient.
LEMMA QuotientBound ==
  ASSUME NEW x \in Nat, NEW d \in Nat \ {0}, NEW n \in Nat
  PROVE  /\ n * d <= x => n <= x \div d
         /\ x <= n * d => x \div d <= n
<1> DEFINE q == x \div d
<1>1. q \in Nat /\ q * d <= x /\ x < q * d + d /\ q * d \in Nat
  BY Division
<1> HIDE DEF q
<1>2. (q + 1) * d = q * d + d /\ n * d \in Nat
  BY <1>1, Products
<1>3. ASSUME n > q PROVE n * d > x
  <2>1. (q + 1) * d <= n * d
    BY <1>1, <1>3, MulMonotone
  <2> QED BY <1>1, <1>2, <2>1
<1>4. ASSUME q > n, x <= n * d PROVE FALSE
  <2>1. (n + 1) * d <= q * d /\ (n + 1) * d = n * d + d
    BY <1>1, <1>4, MulMonotone, Products
  <2> QED BY <1>1, <1>2, <1>4, <2>1
<1>5. q <= n \/ q > n
  BY <1>1
<1> QED BY <1>1, <1>2, <1>3, <1>4, <1>5 DEF q

LEMMA CountToTime ==
  ASSUME NEW c \in 0 .. COUNT_MAX
  PROVE  /\ COUNT_TO_TIME(c) \in Time /\ COUNT_TO_TIME(c).sec = 0
         /\ COUNT_TO_TIME(c).nsec = (c * NSEC) \div FREQ
         /\ Value(COUNT_TO_TIME(c)) = COUNT_TO_TIME(c).nsec
         /\ COUNT_TO_TIME(c).nsec \in Nat
<1>1. c \in Nat /\ c <= FREQ /\ FREQ \in Nat \ {0} /\ NSEC \in Nat
  BY ArchTimerAssumption, NSECAssumption
<1>2. c * NSEC <= FREQ * NSEC /\ c * NSEC \in Nat /\ FREQ * NSEC = NSEC * FREQ
  BY <1>1, MulMonotone
<1>3. (c * NSEC) \div FREQ \in Nat /\ (c * NSEC) \div FREQ <= NSEC
  <2>1. c * NSEC <= NSEC * FREQ
    BY <1>2
  <2> QED BY <1>1, <1>2, <2>1, Division, QuotientBound
<1>4. (c * NSEC) \div FREQ \in 0 .. NSEC
  BY <1>1, <1>3
<1>5. /\ COUNT_TO_TIME(c) \in Time /\ COUNT_TO_TIME(c).sec = 0
      /\ COUNT_TO_TIME(c).nsec = (c * NSEC) \div FREQ
  BY <1>4, MakeTime DEF COUNT_TO_TIME
<1>6. Value(COUNT_TO_TIME(c)) = COUNT_TO_TIME(c).nsec
  BY <1>1, <1>3, <1>5 DEF Value
<1> QED BY <1>3, <1>5, <1>6

LEMMA LongerCount ==
  ASSUME NEW c \in 0 .. COUNT_MAX, NEW d \in 0 .. COUNT_MAX, c <= d
  PROVE  COUNT_TO_TIME(c).nsec <= COUNT_TO_TIME(d).nsec
<1>1. c \in Nat /\ d \in Nat /\ FREQ \in Nat \ {0} /\ NSEC \in Nat
  BY ArchTimerAssumption, NSECAssumption
<1> DEFINE x == c * NSEC
           y == d * NSEC
           q == x \div FREQ
<1>2. x <= y /\ x \in Nat /\ y \in Nat
  BY <1>1, MulMonotone
<1> HIDE DEF x, y
<1>3. q \in Nat /\ q * FREQ <= x /\ q * FREQ \in Nat
  BY <1>1, <1>2, Division
<1> HIDE DEF q
<1>4. q <= y \div FREQ
  BY <1>1, <1>2, <1>3, QuotientBound
<1> QED BY <1>4, CountToTime DEF x, y, q

\* The times the counter can be loaded with.
InRange(t) == t.sec = 0 /\ min_interval.nsec <= t.nsec /\ t.nsec <= max_interval.nsec

LEMMA Intervals ==
  /\ min_interval \in Time /\ min_interval.sec = 0
  /\ max_interval \in Time /\ max_interval.sec = 0
  /\ min_interval.nsec \in Nat /\ max_interval.nsec \in Nat
  /\ min_interval.nsec <= max_interval.nsec
  /\ threshold \in Time /\ threshold.sec = 0 /\ threshold.nsec \in Nat
  /\ threshold.nsec <= min_interval.nsec
  /\ Value(min_interval) = min_interval.nsec /\ Value(max_interval) = max_interval.nsec
  /\ Value(threshold) = threshold.nsec
<1>1. COUNT_MIN \in 0 .. COUNT_MAX /\ COUNT_MAX \in 0 .. COUNT_MAX /\ COUNT_MIN <= COUNT_MAX
  BY ArchTimerAssumption
<1>2. /\ min_interval \in Time /\ min_interval.sec = 0
      /\ max_interval \in Time /\ max_interval.sec = 0
      /\ min_interval.nsec \in Nat /\ max_interval.nsec \in Nat
      /\ min_interval.nsec <= max_interval.nsec
      /\ Value(min_interval) = min_interval.nsec /\ Value(max_interval) = max_interval.nsec
  BY <1>1, CountToTime, LongerCount DEF min_interval, max_interval
<1> DEFINE h == min_interval.nsec \div 2
<1>3. h \in 0 .. NSEC /\ h <= min_interval.nsec /\ h \in Nat
  <2>1. \A x \in Nat : x \div 2 \in Nat /\ x \div 2 <= x
    OBVIOUS
  <2>2. h \in Nat /\ h <= min_interval.nsec
    BY <1>2, <2>1
  <2>3. min_interval.nsec \in 0 .. NSEC /\ NSEC \in Nat
    BY <1>2, TimeFields
  <2> HIDE DEF h
  <2> QED BY <1>2, <2>2, <2>3
<1>4. threshold = T(0, h)
  <2>1. 0 \div 2 = 0 /\ 0 % 2 # 1 /\ h + 0 = h
    BY <1>3
  <2>2. threshold = T(min_interval.sec \div 2,
                      h + (IF min_interval.sec % 2 = 1 THEN NSEC \div 2 ELSE 0))
    BY DEF threshold, HalfTime
  <2> QED BY <1>2, <2>1, <2>2
<1> HIDE DEF h
<1>5. threshold \in Time /\ threshold.sec = 0 /\ threshold.nsec = h
  BY <1>3, <1>4, MakeTime
<1>6. Value(threshold) = h
  BY <1>3, <1>5, NSECAssumption DEF Value
<1> QED BY <1>2, <1>3, <1>5, <1>6

LEMMA TimeToCount ==
  ASSUME NEW t \in Time, InRange(t)
  PROVE  /\ TIME_TO_COUNT(t) \in 0 .. COUNT_MAX
         /\ COUNT_TO_TIME(TIME_TO_COUNT(t)).nsec <= t.nsec
         /\ Value(t) = t.nsec /\ t.nsec \in Nat
<1>1. /\ t.nsec \in Nat /\ FREQ \in Nat \ {0} /\ NSEC \in Nat \ {0} /\ COUNT_MAX \in Nat
      /\ COUNT_MAX \in 0 .. COUNT_MAX
  BY TimeFields, ArchTimerAssumption, NSECAssumption
<1> DEFINE m == max_interval.nsec
           x == t.nsec * FREQ
           c == x \div NSEC
<1>2. m \in Nat /\ t.nsec <= m /\ m = (COUNT_MAX * NSEC) \div FREQ
  BY <1>1, Intervals, CountToTime DEF InRange, max_interval
<1>3. COUNT_MAX * NSEC \in Nat /\ m * FREQ <= COUNT_MAX * NSEC
  <2>1. COUNT_MAX * NSEC \in Nat
    BY <1>1, MulMonotone
  <2> QED BY <1>1, <1>2, <2>1, Division
<1> HIDE DEF m
<1>4. x \in Nat /\ x <= COUNT_MAX * NSEC
  <2>1. x <= m * FREQ /\ x \in Nat /\ m * FREQ \in Int
    BY <1>1, <1>2, MulMonotone
  <2> QED BY <1>3, <2>1
<1> HIDE DEF x
<1>5. c \in Nat /\ c <= COUNT_MAX /\ c * NSEC <= x /\ c * NSEC \in Nat
  BY <1>1, <1>4, Division, QuotientBound
<1>6. TIME_TO_COUNT(t) = c
  BY DEF TIME_TO_COUNT, x
<1> HIDE DEF c
<1>7. c \in 0 .. COUNT_MAX
  BY <1>1, <1>5
<1>8. (c * NSEC) \div FREQ <= t.nsec
  BY <1>1, <1>5, QuotientBound DEF x
<1>9. Value(t) = t.nsec
  BY <1>1 DEF InRange, Value
<1> QED BY <1>1, <1>6, <1>7, <1>8, <1>9, CountToTime

-----------------------------------------------------------------------------
(***************************************************************************)
(* The timer.  The clock and what the counter has measured since never run *)
(* beyond the delay that is set.                                           *)
(***************************************************************************)
TimerOK(tm) ==
  /\ tm \in TimerState /\ InRange(tm.last_load)
  /\ tm.cnt <= TIME_TO_COUNT(tm.last_load)
  /\ Value(tm.last_load) <= Value(tm.delay)
  /\ Value(tm.clock) >= 0

LEMMA TimerFields ==
  ASSUME NEW tm \in TimerState
  PROVE  /\ tm.cnt \in 0 .. COUNT_MAX /\ tm.clock \in Time /\ tm.delay \in Time
         /\ tm.last_load \in Time /\ tm.pending \in BOOLEAN /\ tm.handler \in BOOLEAN
         /\ tm.asserted \in BOOLEAN
BY DEF TimerState

\* The time that has passed since the counter was loaded.
Elapsed(tm) == time_sub(tm.last_load, get_interval_remainder(tm))

LEMMA ElapsedBounds ==
  ASSUME NEW tm, TimerOK(tm)
  PROVE  /\ Elapsed(tm) \in Time /\ 0 <= Value(Elapsed(tm))
         /\ Value(Elapsed(tm)) <= Value(tm.last_load)
<1>1. /\ tm.cnt \in 0 .. COUNT_MAX /\ tm.last_load \in Time /\ InRange(tm.last_load)
      /\ tm.cnt <= TIME_TO_COUNT(tm.last_load)
  BY TimerFields DEF TimerOK
<1> DEFINE c == TIME_TO_COUNT(tm.last_load)
           left == COUNT_TO_TIME(tm.cnt)
<1>2. /\ c \in 0 .. COUNT_MAX /\ COUNT_TO_TIME(c).nsec <= tm.last_load.nsec
      /\ Value(tm.last_load) = tm.last_load.nsec /\ tm.last_load.nsec \in Nat
  BY <1>1, TimeToCount
<1>3. /\ left \in Time /\ Value(left) = left.nsec /\ left.nsec \in Nat
  BY <1>1, CountToTime
<1>4. left.nsec <= COUNT_TO_TIME(c).nsec /\ COUNT_TO_TIME(c).nsec \in Nat
  BY <1>1, <1>2, LongerCount, CountToTime
<1>5. Elapsed(tm) = time_sub(tm.last_load, left)
  BY DEF Elapsed, get_interval_remainder
<1> HIDE DEF c, left
<1>6. Elapsed(tm) \in Time /\ Value(Elapsed(tm)) = Value(tm.last_load) - Value(left)
  BY <1>1, <1>3, <1>5, SubTimes
<1> QED BY <1>2, <1>3, <1>4, <1>6

LEMMA TimeBounds ==
  ASSUME NEW tm, TimerOK(tm)
  PROVE  /\ arch_get_time(tm) = time_add(Elapsed(tm), tm.clock)
         /\ arch_get_time(tm) \in Time /\ Value(arch_get_time(tm)) \in Int
         /\ Value(tm.clock) \in Int /\ Value(tm.delay) \in Int
         /\ 0 <= Value(tm.clock) /\ Value(tm.clock) <= Value(arch_get_time(tm))
         /\ Value(arch_get_time(tm)) <= Value(tm.clock) + Value(tm.delay)
<1>1. tm.clock \in Time /\ tm.delay \in Time /\ tm.last_load \in Time
  BY TimerFields DEF TimerOK
<1>2. arch_get_time(tm) = time_add(Elapsed(tm), tm.clock)
  BY DEF arch_get_time, Elapsed
<1>3. /\ arch_get_time(tm) \in Time
      /\ Value(arch_get_time(tm)) = Value(Elapsed(tm)) + Value(tm.clock)
  BY <1>1, <1>2, ElapsedBounds, AddTimes
<1>4. /\ Value(Elapsed(tm)) \in Int /\ Value(tm.clock) \in Int /\ Value(tm.delay) \in Int
      /\ Value(tm.last_load) \in Int
  BY <1>1, ElapsedBounds, TimeFields
<1> QED BY <1>2, <1>3, <1>4, ElapsedBounds DEF TimerOK

LEMMA NowIsTime ==
  ASSUME NEW tm \in TimerState
  PROVE  arch_get_time(tm) \in Time
<1>1. /\ tm.cnt \in 0 .. COUNT_MAX /\ tm.last_load \in Time /\ tm.clock \in Time
  BY TimerFields
<1>2. get_interval_remainder(tm) \in Time
  BY <1>1, CountToTime DEF get_interval_remainder
<1>3. time_sub(tm.last_load, get_interval_remainder(tm)) \in Time
  BY <1>1, <1>2, SubTimes
<1> QED BY <1>1, <1>3, AddTimes DEF arch_get_time

\* A counter that is loaded with a time it can measure.
LEMMA SetInterval ==
  ASSUME NEW tm \in TimerState, NEW time \in Time
  PROVE  LET r == set_interval(tm, time)
         IN  /\ r \in TimerState /\ r.clock = tm.clock /\ r.delay = tm.delay
             /\ r.last_load = tm.last_load /\ r.handler = tm.handler /\ r.pending = tm.pending
             /\ InRange(time) => r.asserted = tm.asserted /\ r.cnt = TIME_TO_COUNT(time)
             /\ ~InRange(time) => r.asserted
<1>1. CASE InRange(time)
  <2>1. TIME_TO_COUNT(time) \in 0 .. COUNT_MAX
    BY <1>1, TimeToCount
  <2>2. set_interval(tm, time) = [tm EXCEPT !.cnt = TIME_TO_COUNT(time)]
    BY <1>1 DEF set_interval, InRange
  <2> QED BY <1>1, <2>1, <2>2 DEF TimerState
<1>2. CASE ~InRange(time)
  <2>1. time.nsec \in Int /\ min_interval.nsec \in Int /\ max_interval.nsec \in Int
    BY TimeFields, Intervals
  <2>2. set_interval(tm, time) = [tm EXCEPT !.asserted = TRUE]
    BY <1>2, <2>1 DEF set_interval, InRange
  <2> QED BY <1>2, <2>2 DEF TimerState
<1> QED BY <1>1, <1>2

LEMMA LoadInRange ==
  ASSUME NEW time \in Time
  PROVE  LET wait  == Clamped(time)
             load  == Loadable(wait)
         IN  /\ wait \in Time /\ load \in Time /\ InRange(load)
             /\ Value(load) <= Value(wait)
             /\ wait = time \/ (wait = min_interval /\ time_cmp(time, min_interval) < 0)
<1> DEFINE wait  == Clamped(time)
           load  == Loadable(wait)
<1>0. /\ min_interval \in Time /\ min_interval.sec = 0 /\ min_interval.nsec \in Int
      /\ max_interval \in Time /\ max_interval.sec = 0 /\ max_interval.nsec \in Int
  BY Intervals
<1>1. /\ wait \in Time /\ ~(time_cmp(wait, min_interval) < 0)
      /\ wait = time \/ (wait = min_interval /\ time_cmp(time, min_interval) < 0)
  <2>1. ~(time_cmp(min_interval, min_interval) < 0)
    BY <1>0, CmpPairs
  <2>2. CASE time_cmp(time, min_interval) < 0
    BY <1>0, <2>1, <2>2 DEF Clamped
  <2>3. CASE ~(time_cmp(time, min_interval) < 0)
    BY <2>3 DEF Clamped
  <2> QED BY <2>2, <2>3
<1> HIDE DEF wait
<1>2. /\ wait.sec \in Int /\ wait.nsec \in Int
      /\ wait.sec > 0 \/ (wait.sec = 0 /\ wait.nsec >= min_interval.nsec)
  <2>1. wait.sec \in Int /\ wait.nsec \in Int
    BY <1>1, TimeFields
  <2>2. ~(wait.sec < 0 \/ (wait.sec = 0 /\ wait.nsec < min_interval.nsec))
    BY <1>0, <1>1, CmpPairs
  <2> QED BY <1>0, <2>1, <2>2
<1>3. CASE time_cmp(wait, max_interval) > 0
  <2>1. load = max_interval
    BY <1>3 DEF Loadable
  <2>2. InRange(max_interval)
    BY Intervals DEF InRange
  <2>3. Value(max_interval) <= Value(wait)
    <3>1. ~(time_cmp(wait, max_interval) < 0)
      BY <1>1, <1>3, Intervals, CmpPairs
    <3> QED BY <1>1, <3>1, Intervals, CmpValues
  <2> QED BY <1>1, <2>1, <2>2, <2>3, Intervals DEF wait
<1>4. CASE ~(time_cmp(wait, max_interval) > 0)
  <2>1. load = wait
    BY <1>4 DEF Loadable
  <2>2. time_cmp(wait, max_interval) <= 0
    BY <1>1, <1>4, Intervals, CmpPairs
  <2>3. InRange(wait)
    <3>1. wait.sec < 0 \/ (wait.sec = 0 /\ wait.nsec <= max_interval.nsec)
      BY <1>0, <1>1, <2>2, CmpPairs
    <3> QED BY <1>0, <1>2, <3>1 DEF InRange
  <2>4. Value(wait) \in Int
    BY <1>1, TimeFields
  <2> QED BY <1>1, <2>1, <2>3, <2>4 DEF wait
<1> QED BY <1>3, <1>4

LEMMA TimerInit ==
  /\ TimerOK(arch_timer_init) /\ ~arch_timer_init.handler /\ ~arch_timer_init.asserted
  /\ ~arch_timer_init.pending
<1> DEFINE t0 == [cnt |-> COUNT_MAX, pending |-> FALSE, clock |-> ZeroTime,
                  delay |-> max_interval, last_load |-> max_interval,
                  handler |-> FALSE, asserted |-> FALSE]
<1>1. arch_timer_init = set_interval(t0, max_interval)
  BY DEF arch_timer_init
<1>2. ZeroTime \in Time /\ Value(ZeroTime) = 0
  BY NSECAssumption DEF ZeroTime, T, Time, Value
<1>3. max_interval \in Time /\ InRange(max_interval) /\ Value(max_interval) \in Int
  BY Intervals DEF InRange
<1>4. t0 \in TimerState
  BY <1>2, <1>3, ArchTimerAssumption DEF TimerState
<1>5. /\ t0.clock = ZeroTime /\ t0.delay = max_interval /\ t0.last_load = max_interval
      /\ ~t0.handler /\ ~t0.asserted /\ ~t0.pending
  OBVIOUS
<1> HIDE DEF t0
<1>6. TIME_TO_COUNT(max_interval) \in 0 .. COUNT_MAX
  BY <1>3, TimeToCount
<1> DEFINE r == set_interval(t0, max_interval)
<1>7. /\ r \in TimerState /\ r.clock = ZeroTime /\ r.delay = max_interval
      /\ r.last_load = max_interval /\ ~r.handler /\ ~r.asserted /\ ~r.pending
      /\ r.cnt = TIME_TO_COUNT(max_interval)
  BY <1>3, <1>4, <1>5, SetInterval
<1> HIDE DEF r
<1>8. TimerOK(r)
  BY <1>2, <1>3, <1>6, <1>7 DEF TimerOK
<1> QED BY <1>1, <1>7, <1>8 DEF r

LEMMA TimerCounts ==
  ASSUME NEW tm, TimerOK(tm)
  PROVE  LET r == CountDown(tm)
         IN  /\ TimerOK(r) /\ r.clock = tm.clock /\ r.delay = tm.delay
             /\ r.handler = tm.handler /\ r.asserted = tm.asserted
<1>1. /\ tm \in TimerState /\ tm.cnt \in 0 .. COUNT_MAX /\ InRange(tm.last_load)
      /\ tm.last_load \in Time /\ tm.cnt <= TIME_TO_COUNT(tm.last_load)
  BY TimerFields DEF TimerOK
<1>2. TIME_TO_COUNT(tm.last_load) \in 0 .. COUNT_MAX /\ COUNT_MAX \in Nat
  BY <1>1, TimeToCount, ArchTimerAssumption
<1>3. CASE tm.cnt > 1
  <2> DEFINE r == [tm EXCEPT !.cnt = @ - 1]
  <2>1. CountDown(tm) = r
    BY <1>3 DEF CountDown
  <2>2. tm.cnt - 1 \in 0 .. COUNT_MAX /\ tm.cnt - 1 <= TIME_TO_COUNT(tm.last_load)
    BY <1>1, <1>2, <1>3
  <2>3. /\ r \in TimerState /\ r.cnt = tm.cnt - 1
        /\ r.last_load = tm.last_load /\ r.clock = tm.clock
        /\ r.delay = tm.delay /\ r.handler = tm.handler /\ r.asserted = tm.asserted
    BY <1>1, <2>2 DEF TimerState
  <2> HIDE DEF r
  <2> QED BY <2>1, <2>2, <2>3 DEF TimerOK
<1>4. CASE ~(tm.cnt > 1)
  <2> DEFINE r == [tm EXCEPT !.cnt = TIME_TO_COUNT(tm.last_load), !.pending = TRUE]
  <2>1. CountDown(tm) = r
    BY <1>4 DEF CountDown
  <2>2. /\ r \in TimerState /\ r.cnt = TIME_TO_COUNT(tm.last_load)
        /\ r.last_load = tm.last_load /\ r.clock = tm.clock
        /\ r.delay = tm.delay /\ r.handler = tm.handler /\ r.asserted = tm.asserted
    BY <1>1, <1>2 DEF TimerState
  <2> HIDE DEF r
  <2> QED BY <1>2, <2>1, <2>2 DEF TimerOK
<1> QED BY <1>3, <1>4

(***************************************************************************)
(* The counter is never loaded with an interval it cannot measure when the *)
(* kernel sets the timer, and the time does not go back.                   *)
(***************************************************************************)
LEMMA TimerIsSet ==
  ASSUME NEW tm, TimerOK(tm), ~tm.asserted, NEW time \in Time
  PROVE  LET r == arch_timer_set(tm, time)
         IN  /\ TimerOK(r) /\ r.handler /\ ~r.asserted
             /\ Value(r.clock) = Value(arch_get_time(tm))
             /\ r.delay = time \/ r.delay = min_interval
<1> DEFINE elapsed == time_sub(tm.last_load, get_interval_remainder(tm))
           clock == time_add(elapsed, tm.clock)
           wait  == Clamped(time)
           load  == Loadable(wait)
           t0    == [tm EXCEPT !.clock = clock, !.delay = wait, !.handler = TRUE,
                               !.last_load = load]
           r     == set_interval(t0, load)
<1>1. arch_timer_set(tm, time) = r
  BY DEF arch_timer_set
<1>2. clock = arch_get_time(tm) /\ clock \in Time /\ Value(clock) >= 0
  <2>1. clock = arch_get_time(tm)
    BY DEF arch_get_time
  <2> QED BY <2>1, TimeBounds
<1>3. /\ wait \in Time /\ load \in Time /\ InRange(load) /\ Value(load) <= Value(wait)
      /\ wait = time \/ wait = min_interval
  BY LoadInRange
<1> HIDE DEF clock, wait, load
<1>4. tm \in TimerState
  BY DEF TimerOK
<1>5. /\ t0 \in TimerState /\ t0.clock = clock /\ t0.delay = wait /\ t0.handler
      /\ t0.last_load = load /\ t0.asserted = tm.asserted
  BY <1>2, <1>3, <1>4 DEF TimerState
<1> HIDE DEF t0
<1>6. /\ r \in TimerState /\ r.clock = clock /\ r.delay = wait /\ r.last_load = load
      /\ r.handler /\ ~r.asserted /\ r.cnt = TIME_TO_COUNT(load)
  BY <1>3, <1>5, SetInterval
<1> HIDE DEF r
<1>7. TIME_TO_COUNT(load) \in 0 .. COUNT_MAX
  BY <1>3, TimeToCount
<1>8. TimerOK(r)
  BY <1>2, <1>3, <1>6, <1>7 DEF TimerOK
<1> QED BY <1>1, <1>2, <1>3, <1>6, <1>8 DEF r

\* The interval measured is added to the clock and taken off the delay.
LEMMA TimerHandled ==
  ASSUME NEW tm, TimerOK(tm)
  PROVE  LET r == arch_timer_handler(tm)
         IN  /\ r \in TimerState
             /\ ~r.asserted =>
                  /\ TimerOK(r)
                  /\ ~TimerExpired(tm) =>
                       /\ r.handler = tm.handler
                       /\ Value(r.clock) + Value(r.delay) = Value(tm.clock) + Value(tm.delay)
             /\ TimerExpired(tm) => ~r.handler
<1> DEFINE clock == time_add(tm.clock, tm.last_load)
           wait  == time_sub(tm.delay, tm.last_load)
           load  == IF time_cmp(wait, max_interval) < 0 THEN wait ELSE max_interval
           t1    == [tm EXCEPT !.pending = FALSE, !.clock = clock, !.delay = max_interval,
                               !.last_load = max_interval, !.handler = FALSE]
           t2    == [tm EXCEPT !.pending = FALSE, !.clock = clock, !.delay = wait,
                               !.last_load = load]
           r1    == set_interval(t1, max_interval)
           r2    == set_interval(t2, load)
<1>1. /\ tm \in TimerState /\ tm.clock \in Time /\ tm.delay \in Time /\ tm.last_load \in Time
      /\ Value(tm.clock) \in Int /\ Value(tm.delay) \in Int
      /\ Value(tm.last_load) \in Nat /\ Value(tm.clock) >= 0
  BY TimerFields, TimeFields, TimeToCount DEF TimerOK
<1>2. /\ max_interval \in Time /\ InRange(max_interval)
      /\ TIME_TO_COUNT(max_interval) \in 0 .. COUNT_MAX /\ Value(max_interval) \in Int
  <2>1. max_interval \in Time /\ InRange(max_interval) /\ Value(max_interval) \in Int
    BY Intervals DEF InRange
  <2> QED BY <2>1, TimeToCount
<1>3. /\ clock \in Time /\ Value(clock) = Value(tm.clock) + Value(tm.last_load)
      /\ Value(clock) >= 0
  BY <1>1, AddTimes
<1>4. wait \in Time /\ Value(wait) = Value(tm.delay) - Value(tm.last_load)
  BY <1>1, SubTimes
<1>5. arch_timer_handler(tm) = IF TimerExpired(tm) THEN r1 ELSE r2
  BY DEF arch_timer_handler
<1>6. load \in Time /\ Value(load) <= Value(wait)
  <2>1. Value(wait) \in Int
    BY <1>1, <1>4
  <2>2. ~(time_cmp(wait, max_interval) < 0) => Value(max_interval) <= Value(wait)
    BY <1>2, <1>4, CmpValues
  <2> QED BY <1>2, <1>4, <2>1, <2>2
<1> HIDE DEF clock, wait, load
<1>7. CASE TimerExpired(tm)
  <2>1. /\ t1 \in TimerState /\ t1.clock = clock /\ t1.delay = max_interval /\ ~t1.handler
        /\ t1.last_load = max_interval
    BY <1>1, <1>2, <1>3 DEF TimerState
  <2> HIDE DEF t1
  <2>2. /\ r1 \in TimerState /\ r1.clock = clock /\ r1.delay = max_interval /\ ~r1.handler
        /\ r1.last_load = max_interval /\ r1.cnt = TIME_TO_COUNT(max_interval)
    BY <1>2, <2>1, SetInterval
  <2> HIDE DEF r1
  <2>3. TimerOK(r1)
    BY <1>2, <1>3, <2>2 DEF TimerOK
  <2> QED BY <1>5, <1>7, <2>2, <2>3
<1>8. CASE ~TimerExpired(tm)
  <2>1. /\ t2 \in TimerState /\ t2.clock = clock /\ t2.delay = wait /\ t2.handler = tm.handler
        /\ t2.last_load = load
    BY <1>1, <1>3, <1>4, <1>6 DEF TimerState
  <2> HIDE DEF t2
  <2>2. /\ r2 \in TimerState /\ r2.clock = clock /\ r2.delay = wait /\ r2.last_load = load
        /\ r2.handler = tm.handler
        /\ ~r2.asserted => InRange(load) /\ r2.cnt = TIME_TO_COUNT(load)
    BY <1>6, <2>1, SetInterval
  <2> HIDE DEF r2
  <2>3. ASSUME ~r2.asserted PROVE TimerOK(r2)
    <3>1. TIME_TO_COUNT(load) \in 0 .. COUNT_MAX
      BY <1>6, <2>2, <2>3, TimeToCount
    <3> QED BY <1>3, <1>6, <2>2, <2>3, <3>1 DEF TimerOK
  <2>4. Value(r2.clock) + Value(r2.delay) = Value(tm.clock) + Value(tm.delay)
    BY <1>1, <1>3, <1>4, <2>2
  <2> QED BY <1>5, <1>8, <2>2, <2>3, <2>4
<1> QED BY <1>7, <1>8

-----------------------------------------------------------------------------
(***************************************************************************)
(* The list of alarms, sorted by their times.                              *)
(***************************************************************************)
\* r is l with x in place i.
InsertedAt(l, i, x, r) ==
  /\ Len(r) = Len(l) + 1
  /\ \A j \in 1 .. Len(r) : r[j] = IF j < i THEN l[j] ELSE IF j = i THEN x ELSE l[j - 1]

LEMMA InsertGet ==
  ASSUME NEW S, NEW s1 \in Seq(S), NEW x \in S, NEW i \in 1 .. Len(s1)
  PROVE  InsertAt(s1, i, x) \in Seq(S) /\ InsertedAt(s1, i, x, InsertAt(s1, i, x))
<1> DEFINE a == SubSeq(s1, 1, i - 1)
           b == SubSeq(s1, i, Len(s1))
           c == a \o <<x>>
           r == c \o b
<1>1. a \in Seq(S) /\ Len(a) = i - 1 /\ \A j \in 1 .. i - 1 : a[j] = s1[j]
  OBVIOUS
<1>2. /\ b \in Seq(S) /\ Len(b) = Len(s1) - i + 1
      /\ \A j \in 1 .. Len(s1) - i + 1 : b[j] = s1[j + i - 1]
  OBVIOUS
<1> HIDE DEF a, b
<1>3. /\ c \in Seq(S) /\ Len(c) = i
      /\ \A j \in 1 .. i : c[j] = IF j < i THEN s1[j] ELSE x
  BY <1>1
<1> HIDE DEF c
<1>4. /\ r \in Seq(S) /\ Len(r) = Len(c) + Len(b)
      /\ \A j \in 1 .. Len(r) : r[j] = IF j <= Len(c) THEN c[j] ELSE b[j - Len(c)]
  BY <1>2, <1>3, ConcatGet
<1>5. InsertAt(s1, i, x) = r
  BY DEF InsertAt, a, b, c
<1> HIDE DEF r
<1>6. Len(r) = Len(s1) + 1
  BY <1>2, <1>3, <1>4
<1>7. ASSUME NEW j \in 1 .. Len(r)
      PROVE  r[j] = IF j < i THEN s1[j] ELSE IF j = i THEN x ELSE s1[j - 1]
  <2>1. CASE j <= i
    BY <1>3, <1>4, <2>1
  <2>2. CASE j > i
    <3>1. j - i \in 1 .. Len(s1) - i + 1 /\ (j - i) + i - 1 = j - 1
      BY <1>6, <2>2
    <3>2. r[j] = b[j - i]
      BY <1>3, <1>4, <2>2
    <3>3. b[j - i] = s1[(j - i) + i - 1]
      BY <1>2, <3>1
    <3>4. ~(j < i) /\ j # i
      BY <2>2
    <3> QED BY <3>1, <3>2, <3>3, <3>4
  <2> QED BY <2>1, <2>2
<1> QED BY <1>4, <1>5, <1>6, <1>7 DEF InsertedAt

LEMMA InsertList ==
  ASSUME NEW S, NEW s1 \in Seq(S), NEW x \in S, NEW i \in 1 .. Len(s1) + 1,
         NEW r \in Seq(S), InsertedAt(s1, i, x, r)
  PROVE  /\ ToSet(r) = ToSet(s1) \cup {x}
         /\ NoDup(s1) /\ x \notin ToSet(s1) => NoDup(r)
<1>1. /\ Len(r) = Len(s1) + 1 /\ Len(s1) \in Nat
      /\ \A j \in 1 .. Len(r) : r[j] = IF j < i THEN s1[j] ELSE IF j = i THEN x ELSE s1[j - 1]
  BY DEF InsertedAt
<1>2. ASSUME NEW y PROVE y \in ToSet(r) <=> y \in ToSet(s1) \cup {x}
  <2>1. /\ y \in ToSet(r) <=> \E j \in 1 .. Len(r) : r[j] = y
        /\ y \in ToSet(s1) <=> \E j \in 1 .. Len(s1) : s1[j] = y
    BY InToSet
  <2>2. ASSUME NEW j \in 1 .. Len(r), r[j] = y PROVE y \in ToSet(s1) \cup {x}
    <3>1. CASE j < i
      BY <1>1, <2>1, <2>2, <3>1
    <3>2. CASE j = i
      BY <1>1, <2>2, <3>2
    <3>3. CASE j > i
      <4>1. j - 1 \in 1 .. Len(s1) /\ s1[j - 1] = y
        BY <1>1, <2>2, <3>3
      <4> QED BY <2>1, <4>1
    <3> QED BY <1>1, <3>1, <3>2, <3>3
  <2>3. ASSUME NEW j \in 1 .. Len(s1), s1[j] = y PROVE y \in ToSet(r)
    <3>1. CASE j < i
      BY <1>1, <2>1, <2>3, <3>1
    <3>2. CASE j >= i
      <4>1. j + 1 \in 1 .. Len(r) /\ r[j + 1] = s1[(j + 1) - 1] /\ (j + 1) - 1 = j
        BY <1>1, <3>2
      <4> QED BY <2>1, <2>3, <4>1
    <3> QED BY <1>1, <3>1, <3>2
  <2>4. x \in ToSet(r)
    <3>1. i \in 1 .. Len(r) /\ r[i] = x
      BY <1>1
    <3> QED BY <3>1, InToSet
  <2> QED BY <2>1, <2>2, <2>3, <2>4
<1>3. ASSUME NoDup(s1), x \notin ToSet(s1) PROVE NoDup(r)
  <2>1. \A j \in 1 .. Len(s1) : s1[j] # x
    BY <1>3, InToSet
  <2>2. ASSUME NEW j \in 1 .. Len(r), NEW h \in 1 .. Len(r), j # h PROVE r[j] # r[h]
    <3> DEFINE Old(n) == IF n < i THEN n ELSE n - 1
    <3>1. ASSUME NEW n \in 1 .. Len(r), n # i
          PROVE  Old(n) \in 1 .. Len(s1) /\ r[n] = s1[Old(n)]
      BY <1>1, <3>1
    <3>2. CASE j = i \/ h = i
      BY <1>1, <2>1, <2>2, <3>1, <3>2
    <3>3. CASE j # i /\ h # i
      <4>1. Old(j) # Old(h)
        BY <1>1, <2>2, <3>3
      <4> HIDE DEF Old
      <4> QED BY <1>3, <3>1, <3>3, <4>1 DEF NoDup
    <3> QED BY <3>2, <3>3
  <2> QED BY <2>2 DEF NoDup
<1>4. ToSet(r) = ToSet(s1) \cup {x}
  BY <1>2
<1> QED BY <1>3, <1>4

Sorted(l, al) ==
  \A i, j \in 1 .. Len(l) :
    i < j => time_cmp(al[l[i]].exp_time, al[l[j]].exp_time) <= 0

\* The list l holds the alarms of A in the order of their times.
ListOf(l, al, A) ==
  l \in Seq(AlarmAddr) /\ ToSet(l) = A /\ NoDup(l) /\ Sorted(l, al)

\* Only the times of those in the list matter.
LEMMA ListSame ==
  ASSUME NEW l, NEW al, NEW al2, NEW A, ListOf(l, al, A),
         \A a \in A : al2[a].exp_time = al[a].exp_time
  PROVE  ListOf(l, al2, A)
<1>1. \A i \in 1 .. Len(l) : l[i] \in A
  BY InToSet DEF ListOf
<1> QED BY <1>1 DEF ListOf, Sorted

LEMMA ListRemoved ==
  ASSUME NEW l, NEW al, NEW A, ListOf(l, al, A), NEW a
  PROVE  ListOf(list_find_and_remove(l, a), al, A \ {a})
<1> DEFINE r == list_find_and_remove(l, a)
<1>1. l \in Seq(AlarmAddr) /\ ToSet(l) = A /\ NoDup(l) /\ Sorted(l, al)
  BY DEF ListOf
<1>2. r \in Seq(AlarmAddr) /\ ToSet(r) = A \ {a} /\ NoDup(r)
  BY <1>1, RemoveList
<1>3. Sorted(r, al)
  <2>1. CASE a \notin A
    BY <1>1, <2>1 DEF list_find_and_remove
  <2>2. CASE a \in A
    <3> DEFINE n == IndexOf(l, a)
    <3>1. /\ n \in 1 .. Len(l) /\ Len(r) = Len(l) - 1
          /\ \A i \in 1 .. Len(r) : r[i] = IF i < n THEN l[i] ELSE l[i + 1]
      BY <1>1, <2>2, RemoveGet
    <3> HIDE DEF n, r
    <3> DEFINE Old(i) == IF i < n THEN i ELSE i + 1
    <3>2. ASSUME NEW i \in 1 .. Len(r) PROVE Old(i) \in 1 .. Len(l) /\ r[i] = l[Old(i)]
      BY <3>1
    <3>3. ASSUME NEW i \in 1 .. Len(r), NEW j \in 1 .. Len(r), i < j PROVE Old(i) < Old(j)
      BY <3>1, <3>3
    <3> HIDE DEF Old
    <3> QED BY <1>1, <3>2, <3>3 DEF Sorted
  <2> QED BY <2>1, <2>2
<1> QED BY <1>2, <1>3 DEF ListOf

LEMMA ListTail ==
  ASSUME NEW l, NEW al, NEW A, ListOf(l, al, A), l # <<>>
  PROVE  /\ Head(l) \in A /\ ListOf(Tail(l), al, A \ {Head(l)})
         /\ \A a \in A : a = Head(l) \/ time_cmp(al[Head(l)].exp_time, al[a].exp_time) <= 0
<1>1. /\ l \in Seq(AlarmAddr) /\ ToSet(l) = A /\ NoDup(l) /\ Sorted(l, al)
      /\ Len(l) \in Nat \ {0} /\ Head(l) = l[1]
  BY DEF ListOf
<1> DEFINE r == Tail(l)
<1>2. /\ r \in Seq(AlarmAddr) /\ Head(l) \in A /\ Len(r) = Len(l) - 1
      /\ ToSet(r) = A \ {Head(l)} /\ NoDup(r)
  BY <1>1, TailList
<1>3. \A i \in 1 .. Len(r) : r[i] = l[i + 1]
  BY <1>1
<1> HIDE DEF r
<1>4. Sorted(r, al)
  <2>1. ASSUME NEW i \in 1 .. Len(r) PROVE i + 1 \in 1 .. Len(l)
    BY <1>1, <1>2
  <2>2. \A i, j \in 1 .. Len(r) : i < j => i + 1 < j + 1
    OBVIOUS
  <2> QED BY <1>1, <1>3, <2>1, <2>2 DEF Sorted
<1>5. ASSUME NEW a \in A
      PROVE  a = Head(l) \/ time_cmp(al[Head(l)].exp_time, al[a].exp_time) <= 0
  <2>1. PICK i \in 1 .. Len(l) : l[i] = a
    BY <1>1, InToSet
  <2>2. i = 1 \/ (1 < i /\ 1 \in 1 .. Len(l))
    BY <1>1
  <2> QED BY <1>1, <2>1, <2>2 DEF Sorted
<1> QED BY <1>2, <1>4, <1>5 DEF ListOf, r

\* list_sort_add keeps the order.
LEMMA SortedInList ==
  ASSUME NEW u, u.kalarms \in Seq(AlarmAddr), u.alarm \in [AlarmAddr -> KAlarm], NEW A,
         ListOf(u.kalarms, u.alarm, A), NEW a \in AlarmAddr \ A
  PROVE  \E l : SortedIn(u, a) = [u EXCEPT !.kalarms = l] /\ ListOf(l, u.alarm, A \cup {a})
<1> DEFINE l == u.kalarms
           al == u.alarm
           e(x) == al[x].exp_time
           late == {i \in 1 .. Len(l) : time_cmp(e(a), e(l[i])) < 0}
           first == CHOOSE i \in late : \A j \in late : i <= j
           r == IF late = {} THEN Append(l, a) ELSE InsertAt(l, first, a)
<1>1. SortedIn(u, a) = [u EXCEPT !.kalarms = r]
  BY DEF SortedIn
<1>2. /\ l \in Seq(AlarmAddr) /\ Len(l) \in Nat /\ ToSet(l) = A /\ NoDup(l) /\ Sorted(l, al)
  BY DEF ListOf
<1>3. \A x \in AlarmAddr : e(x) \in Time
  BY DEF KAlarm
<1>4. \A i \in 1 .. Len(l) : l[i] \in AlarmAddr
  BY <1>2
<1>5. \E i \in 1 .. Len(l) + 1 :
        /\ r \in Seq(AlarmAddr) /\ InsertedAt(l, i, a, r)
        /\ \A j \in 1 .. Len(l) : IF j < i THEN time_cmp(e(l[j]), e(a)) <= 0
                                           ELSE time_cmp(e(a), e(l[j])) <= 0
  <2>1. CASE late = {}
    <3>1. r \in Seq(AlarmAddr) /\ InsertedAt(l, Len(l) + 1, a, r)
      BY <1>2, <2>1 DEF InsertedAt
    <3>2. ASSUME NEW j \in 1 .. Len(l) PROVE j < Len(l) + 1 /\ time_cmp(e(l[j]), e(a)) <= 0
      <4>1. ~(time_cmp(e(a), e(l[j])) < 0)
        BY <2>1
      <4> QED BY <1>2, <1>3, <1>4, <4>1, CmpTransitive
    <3>3. Len(l) + 1 \in 1 .. Len(l) + 1
      BY <1>2
    <3> QED BY <3>1, <3>2, <3>3
  <2>2. CASE late # {}
    <3>1. late \subseteq Nat
      OBVIOUS
    <3>2. first \in late /\ \A j \in late : first <= j
      <4> HIDE DEF late
      <4>1. \E i \in late : \A j \in late : i <= j
        BY <2>2, <3>1, LeastExists
      <4> QED BY <4>1
    <3> HIDE DEF first
    <3>3. first \in 1 .. Len(l) /\ time_cmp(e(a), e(l[first])) < 0
      BY <3>2
    <3>4. r \in Seq(AlarmAddr) /\ InsertedAt(l, first, a, r)
      BY <1>2, <2>2, <3>3, InsertGet
    <3>5. ASSUME NEW j \in 1 .. Len(l), j < first PROVE time_cmp(e(l[j]), e(a)) <= 0
      <4>1. ~(time_cmp(e(a), e(l[j])) < 0)
        <5>1. j \notin late
          <6> HIDE DEF late
          <6> QED BY <3>1, <3>2, <3>5
        <5> QED BY <5>1
      <4> QED BY <1>3, <1>4, <4>1, CmpTransitive
    <3>6. ASSUME NEW j \in 1 .. Len(l), ~(j < first) PROVE time_cmp(e(a), e(l[j])) <= 0
      <4>1. time_cmp(e(a), e(l[first])) <= 0
        BY <1>3, <1>4, <3>3, CmpTransitive
      <4>2. j = first \/ time_cmp(e(l[first]), e(l[j])) <= 0
        BY <1>2, <3>3, <3>6 DEF Sorted
      <4> HIDE DEF e
      <4> QED BY <1>3, <1>4, <3>3, <4>1, <4>2, CmpTransitive
    <3>7. first \in 1 .. Len(l) + 1
      BY <1>2, <3>3
    <3> HIDE DEF late, r
    <3> QED BY <3>4, <3>5, <3>6, <3>7
  <2> QED BY <2>1, <2>2
<1> HIDE DEF r, late, first, l, al
<1>6. PICK i \in 1 .. Len(l) + 1 :
        /\ r \in Seq(AlarmAddr) /\ InsertedAt(l, i, a, r)
        /\ \A j \in 1 .. Len(l) : IF j < i THEN time_cmp(e(l[j]), e(a)) <= 0
                                           ELSE time_cmp(e(a), e(l[j])) <= 0
  BY <1>5
<1>7. ToSet(r) = A \cup {a} /\ NoDup(r)
  BY <1>2, <1>6, InsertList
<1>8. Sorted(r, al)
  <2>1. /\ Len(r) = Len(l) + 1
        /\ \A j \in 1 .. Len(r) : r[j] = IF j < i THEN l[j] ELSE IF j = i THEN a ELSE l[j - 1]
    BY <1>6 DEF InsertedAt
  <2>2. ASSUME NEW x \in 1 .. Len(r), NEW y \in 1 .. Len(r), x < y
        PROVE  time_cmp(e(r[x]), e(r[y])) <= 0
    <3>1. CASE y < i
      BY <1>2, <2>1, <2>2, <3>1 DEF Sorted
    <3>2. CASE y = i
      BY <1>2, <1>6, <2>1, <2>2, <3>2
    <3>3. CASE y > i /\ x = i
      <4>1. y - 1 \in 1 .. Len(l) /\ ~(y - 1 < i) /\ r[y] = l[y - 1] /\ r[x] = a
        BY <1>2, <2>1, <3>3
      <4> QED BY <1>6, <4>1
    <3>4. CASE y > i /\ x < i
      <4>1. /\ y - 1 \in 1 .. Len(l) /\ x \in 1 .. Len(l) /\ x < y - 1
            /\ r[y] = l[y - 1] /\ r[x] = l[x]
        BY <1>2, <2>1, <3>4
      <4> QED BY <1>2, <4>1 DEF Sorted
    <3>5. CASE y > i /\ x > i
      <4>1. /\ y - 1 \in 1 .. Len(l) /\ x - 1 \in 1 .. Len(l) /\ x - 1 < y - 1
            /\ r[y] = l[y - 1] /\ r[x] = l[x - 1]
        BY <1>2, <2>1, <2>2, <3>5
      <4> QED BY <1>2, <4>1 DEF Sorted
    <3> QED BY <1>2, <3>1, <3>2, <3>3, <3>4, <3>5
  <2> QED BY <2>2 DEF Sorted
<1> QED BY <1>1, <1>6, <1>7, <1>8 DEF ListOf, al

-----------------------------------------------------------------------------
(***************************************************************************)
(* The invariant: the list holds exactly the active alarms; an active      *)
(* alarm was set by a thread; threads wait for active alarms only; and a   *)
(* thread inside delay_until has an alarm of its own, at the time it       *)
(* waits for, and is ready or waits for that alarm.                        *)
(***************************************************************************)
ActiveAlarms(al) == {a \in AlarmAddr : al[a].magic /\ al[a].active}

OwnersOK(al) ==
  \A a \in AlarmAddr : al[a].active =>
    al[a].magic /\ al[a].action \in {"none", "thread"} /\ al[a].thread \in Desc

WaitersOK(k, al) ==
  \A a \in AlarmAddr : \A v \in Desc : InQueue(k, v, a) => al[a].magic /\ al[a].active

DelayOK(k, al, d, t) ==
  /\ t \in k.all_threads /\ d.alarm \in AlarmAddr
  /\ al[d.alarm].magic /\ al[d.alarm].thread = t /\ ~al[d.alarm].periodic
  /\ Value(al[d.alarm].exp_time) = d.until
  /\ Awake(k, t) \/ InQueue(k, t, d.alarm)

DelaysOK(k, al, sl) == \A t \in Desc : sl[t] # NoDelay => DelayOK(k, al, sl[t], t)

SleepType == [Desc -> [alarm : AlarmAddr \cup {NULL}, until : Nat]]

Core(u, sl) ==
  /\ u \in TimeState /\ sl \in SleepType /\ Good(u.k) /\ Runs(u.k)
  /\ ListOf(u.kalarms, u.alarm, ActiveAlarms(u.alarm))
  /\ OwnersOK(u.alarm) /\ WaitersOK(u.k, u.alarm) /\ DelaysOK(u.k, u.alarm, sl)

\* The timer is set for the first alarm, unless the kernel has stopped before.
TimerIsFor(u) ==
  u.kalarms # <<>> =>
    /\ u.tm.handler
    /\ Value(u.tm.clock) + Value(u.tm.delay) <=
         Value(u.alarm[Head(u.kalarms)].exp_time) + Value(min_interval) - Value(threshold)


\* What stays as an alarm expires.
SameAlarm(x, y) ==
  /\ y.magic = x.magic /\ y.thread = x.thread /\ y.wait = x.wait /\ y.action = x.action
  /\ y.periodic = x.periodic /\ (y.active => x.active)
  /\ ~x.periodic => y.exp_time = x.exp_time

HeadExpired(u, a, r) ==
  /\ r \in TimeState /\ r.k = u.k /\ r.tm = u.tm /\ r.stop = u.stop
  /\ ListOf(r.kalarms, r.alarm, ActiveAlarms(r.alarm))
  /\ \A x \in AlarmAddr : /\ SameAlarm(u.alarm[x], r.alarm[x])
                          /\ x # a => r.alarm[x] = u.alarm[x]

LEMMA AlarmFields ==
  ASSUME NEW x \in KAlarm
  PROVE  /\ x.exp_time \in Time /\ x.period \in Time /\ x.periodic \in BOOLEAN
         /\ x.wait \in BOOLEAN /\ x.active \in BOOLEAN /\ x.magic \in BOOLEAN
         /\ x.action \in Action /\ x.thread \in Desc \cup {NULL}
BY DEF KAlarm

LEMMA StateFields ==
  ASSUME NEW u \in TimeState
  PROVE  /\ u.k \in KState /\ u.tm \in TimerState /\ u.kalarms \in Seq(AlarmAddr)
         /\ u.alarm \in [AlarmAddr -> KAlarm] /\ u.stop \in Stop
         /\ \A a \in AlarmAddr : u.alarm[a] \in KAlarm
BY DEF TimeState

LEMMA ExpireOK ==
  ASSUME NEW u \in TimeState, ListOf(u.kalarms, u.alarm, ActiveAlarms(u.alarm)),
         u.kalarms # <<>>
  PROVE  LET a == Head(u.kalarms)
         IN  a \in ActiveAlarms(u.alarm) /\ HeadExpired(u, a, Expire(u, a))
<1> DEFINE a  == Head(u.kalarms)
           A  == ActiveAlarms(u.alarm)
           s1 == [u EXCEPT !.kalarms = Tail(@)]
           l1 == Tail(u.kalarms)
<1>1. /\ u.alarm \in [AlarmAddr -> KAlarm] /\ u.kalarms \in Seq(AlarmAddr)
      /\ \A x \in AlarmAddr : u.alarm[x] \in KAlarm
  BY StateFields
<1>2. a \in A /\ a \in AlarmAddr /\ ListOf(l1, u.alarm, A \ {a}) /\ l1 \in Seq(AlarmAddr)
  BY ListTail DEF ActiveAlarms, ListOf
<1>3. u.alarm[a] \in KAlarm /\ u.alarm[a].magic /\ u.alarm[a].active
  BY <1>1, <1>2 DEF ActiveAlarms
<1> HIDE DEF a, l1
<1>4. ASSUME u.alarm[a].periodic PROVE HeadExpired(u, a, Expire(u, a))
  <2> DEFINE e   == time_add(u.alarm[a].exp_time, u.alarm[a].period)
             al2 == [u.alarm EXCEPT ![a].exp_time = e]
             s2  == [s1 EXCEPT !.alarm[a].exp_time = time_add(@, u.alarm[a].period)]
  <2>1. e \in Time
    BY <1>3, AddTimes, AlarmFields
  <2> HIDE DEF e
  <2>2. /\ al2 \in [AlarmAddr -> KAlarm]
        /\ \A x \in AlarmAddr : x # a => al2[x] = u.alarm[x]
        /\ al2[a] = [u.alarm[a] EXCEPT !.exp_time = e]
    BY <1>1, <1>2, <2>1 DEF KAlarm
  <2>3. \A x \in AlarmAddr : SameAlarm(u.alarm[x], al2[x]) /\ al2[x].active = u.alarm[x].active
    <3>1. /\ SameAlarm(u.alarm[a], [u.alarm[a] EXCEPT !.exp_time = e])
          /\ [u.alarm[a] EXCEPT !.exp_time = e].active = u.alarm[a].active
      BY <1>3, <1>4 DEF SameAlarm, KAlarm
    <3> QED BY <2>2, <3>1 DEF SameAlarm
  <2> HIDE DEF al2
  <2>4. /\ s2.kalarms = l1 /\ s2.alarm = al2 /\ s2 \in TimeState
        /\ s2.k = u.k /\ s2.tm = u.tm /\ s2.stop = u.stop
    BY <1>1, <1>2, <2>2 DEF TimeState, al2, l1, e
  <2>5. Expire(u, a) = SortedIn(s2, a)
    BY <1>4 DEF Expire
  <2> HIDE DEF s2
  <2>6. ListOf(l1, al2, A \ {a})
    BY <1>2, <2>2, ListSame DEF ActiveAlarms
  <2>7. PICK l : SortedIn(s2, a) = [s2 EXCEPT !.kalarms = l] /\ ListOf(l, al2, (A \ {a}) \cup {a})
    <3>1. /\ s2.kalarms \in Seq(AlarmAddr) /\ s2.alarm \in [AlarmAddr -> KAlarm]
          /\ ListOf(s2.kalarms, s2.alarm, A \ {a}) /\ a \in AlarmAddr \ (A \ {a})
      BY <1>2, <2>2, <2>4, <2>6
    <3> QED BY <2>4, <3>1, SortedInList
  <2>8. (A \ {a}) \cup {a} = ActiveAlarms(al2)
    BY <1>2, <2>3 DEF ActiveAlarms, SameAlarm
  <2> DEFINE r == [s2 EXCEPT !.kalarms = l]
  <2>9. /\ r \in TimeState /\ r.k = u.k /\ r.tm = u.tm /\ r.stop = u.stop
        /\ r.alarm = al2 /\ r.kalarms = l
    BY <2>4, <2>7 DEF TimeState, ListOf
  <2> HIDE DEF r
  <2>10. Expire(u, a) = r
    BY <2>5, <2>7 DEF r
  <2> QED BY <2>2, <2>3, <2>7, <2>8, <2>9, <2>10 DEF HeadExpired
<1>5. ASSUME ~u.alarm[a].periodic PROVE HeadExpired(u, a, Expire(u, a))
  <2> DEFINE al2 == [u.alarm EXCEPT ![a].active = FALSE]
             r   == [s1 EXCEPT !.alarm[a].active = FALSE]
  <2>1. /\ al2 \in [AlarmAddr -> KAlarm]
        /\ \A x \in AlarmAddr : x # a => al2[x] = u.alarm[x]
        /\ al2[a] = [u.alarm[a] EXCEPT !.active = FALSE]
    BY <1>1, <1>2 DEF KAlarm
  <2> HIDE DEF al2
  <2>2. /\ SameAlarm(u.alarm[a], al2[a]) /\ ~al2[a].active
        /\ al2[a].exp_time = u.alarm[a].exp_time
    <3>1. /\ SameAlarm(u.alarm[a], [u.alarm[a] EXCEPT !.active = FALSE])
          /\ ~[u.alarm[a] EXCEPT !.active = FALSE].active
          /\ [u.alarm[a] EXCEPT !.active = FALSE].exp_time = u.alarm[a].exp_time
      BY <1>3 DEF SameAlarm, KAlarm
    <3> QED BY <2>1, <3>1
  <2>3. \A x \in AlarmAddr : SameAlarm(u.alarm[x], al2[x])
    BY <2>1, <2>2 DEF SameAlarm
  <2>4. /\ r.kalarms = l1 /\ r.alarm = al2 /\ r \in TimeState
        /\ r.k = u.k /\ r.tm = u.tm /\ r.stop = u.stop
    BY <1>1, <1>2, <2>1 DEF TimeState, al2, l1
  <2>5. Expire(u, a) = r
    BY <1>5 DEF Expire
  <2> HIDE DEF r
  <2>6. A \ {a} = ActiveAlarms(al2)
    BY <2>1, <2>2 DEF ActiveAlarms
  <2>7. ListOf(l1, al2, A \ {a})
    BY <1>2, <2>1, ListSame DEF ActiveAlarms
  <2> QED BY <2>1, <2>3, <2>4, <2>5, <2>6, <2>7 DEF HeadExpired
<1> QED BY <1>2, <1>4, <1>5 DEF a

-----------------------------------------------------------------------------
(***************************************************************************)
(* One turn of the loop of k_schedule_alarms: the first alarm expires,     *)
(* acts and releases its queue.                                            *)
(***************************************************************************)
\* A thread in a queue stays there, unless its delay is over by lim.
Slept(k, k2, sl, lim) ==
  \A t \in Desc : sl[t] # NoDelay /\ InQueue(k, t, sl[t].alarm) =>
    InQueue(k2, t, sl[t].alarm) \/ sl[t].until <= lim

Kept(u, r, sl, lim) ==
  /\ r.k.active_thread = u.k.active_thread
  /\ \A x \in AlarmAddr : SameAlarm(u.alarm[x], r.alarm[x])
  /\ Slept(u.k, r.k, sl, lim)

LEMMA KeptTwice ==
  ASSUME NEW u, NEW r, NEW w, NEW sl, NEW lim, Kept(u, r, sl, lim), Kept(r, w, sl, lim)
  PROVE  Kept(u, w, sl, lim)
<1>1. \A x \in AlarmAddr : SameAlarm(u.alarm[x], w.alarm[x])
  BY DEF Kept, SameAlarm
<1>2. Slept(u.k, w.k, sl, lim)
  BY DEF Kept, Slept
<1> QED BY <1>1, <1>2 DEF Kept

\* What an alarm's action changes: there may be one thread more.
Acted(u, r) ==
  /\ r \in TimeState /\ r.tm = u.tm /\ r.kalarms = u.kalarms /\ r.alarm = u.alarm
  /\ Good(r.k) /\ r.k.active_thread = u.k.active_thread
  /\ u.k.all_threads \subseteq r.k.all_threads
  /\ \A Q \in BlockedQueue : r.k.q[Q] = u.k.q[Q]
  /\ \A v \in u.k.all_threads : r.k.state[v] = u.k.state[v]

LEMMA RunActionOK ==
  ASSUME NEW u \in TimeState, Good(u.k), NEW a \in AlarmAddr,
         u.alarm[a].action \in {"none", "thread"}, u.alarm[a].thread \in Desc
  PROVE  Acted(u, RunAction(u, a))
<1>1. CASE u.alarm[a].action = "none"
  <2>1. RunAction(u, a) = u
    BY <1>1 DEF RunAction
  <2> QED BY <2>1 DEF Acted
<1>2. CASE u.alarm[a].action = "thread"
  <2>1. RunAction(u, a) = HandlerThread(u, a)
    BY <1>2 DEF RunAction
  <2> DEFINE owner == u.alarm[a].thread
  <2>2. CASE FreeDesc(u.k) = {} \/ u.k.ids.last_id >= MaxHandlerId
    <3> DEFINE r == [u EXCEPT !.stop = "bound"]
    <3>1. HandlerThread(u, a) = r
      BY <2>2 DEF HandlerThread
    <3>2. /\ r \in TimeState /\ r.tm = u.tm /\ r.kalarms = u.kalarms /\ r.alarm = u.alarm
          /\ r.k = u.k
      BY DEF TimeState, Stop
    <3> HIDE DEF r
    <3> QED BY <2>1, <3>1, <3>2 DEF Acted
  <2>3. CASE ~(FreeDesc(u.k) = {} \/ u.k.ids.last_id >= MaxHandlerId)
    <3> DEFINE d == HandlerDesc(u)
               k == u.k
               k2 == kthread_create(k, d, k.prio[owner] + 1, k.proc[owner])
               r == [u EXCEPT !.k = k2]
    <3>1. HandlerThread(u, a) = r
      BY <2>3 DEF HandlerThread
    <3>2. d \in Desc \ k.all_threads
      <4>1. HandlerDesc(u) \in FreeDesc(u.k)
        BY <2>3 DEF HandlerDesc
      <4> QED BY <4>1 DEF FreeDesc
    <3> HIDE DEF d
    <3>3. /\ Good(k) /\ Consistent(k) /\ k \in KState /\ QueuesOK(k) /\ MaskOK(k)
          /\ ActiveOK(k) /\ RefsOK(k) /\ IdsOK(k) /\ IdleOK(k)
      BY DEF Good, Consistent
    <3>4. /\ k.prio[owner] + 1 \in Int /\ k.proc[owner] \in Proc
          /\ k.all_threads \subseteq Desc
      BY <3>3 DEF KState, Prio
    <3>5. k.ids.last_id + 1 < MASK_BITS
      <4>1. k.ids.last_id \in Nat
        BY <3>3 DEF KState, UniqueIdState, Id
      <4> QED BY <2>3, <4>1, KAlarmsAssumption, MaskBitsFact
    <3> HIDE DEF k, owner
    <3>6. Created(k, d, k.proc[owner], k2)
      BY <3>2, <3>3, <3>4, <3>5, CreateOK
    <3> HIDE DEF k2
    <3>7. /\ Good(k2) /\ k2 \in KState /\ k2.active_thread = k.active_thread
          /\ k2.all_threads = k.all_threads \cup {d}
          /\ \A Q \in BlockedQueue : k2.q[Q] = k.q[Q]
          /\ \A v \in k.all_threads : k2.state[v] = k.state[v]
      BY <3>2, <3>4, <3>6 DEF Created, Added, Good, Consistent
    <3>8. /\ r \in TimeState /\ r.tm = u.tm /\ r.kalarms = u.kalarms /\ r.alarm = u.alarm
          /\ r.k = k2
      BY <3>7 DEF TimeState
    <3> HIDE DEF r
    <3> QED BY <2>1, <3>1, <3>7, <3>8 DEF Acted, k
  <2> QED BY <2>2, <2>3
<1> QED BY <1>1, <1>2

\* Who waits for an alarm is released, and nobody else.
ReleasedFrom(u, a, r) ==
  /\ r \in TimeState /\ r.tm = u.tm /\ r.kalarms = u.kalarms /\ r.alarm = u.alarm
  /\ r.stop = u.stop
  /\ Good(r.k) /\ r.k.active_thread = u.k.active_thread
  /\ r.k.all_threads = u.k.all_threads
  /\ \A v \in Desc : r.k.state[v] = IF InQueue(u.k, v, a) THEN READY ELSE u.k.state[v]
  /\ \A x \in AlarmAddr : \A v \in Desc :
       InQueue(r.k, v, x) <=> InQueue(u.k, v, x) /\ x # a

LEMMA ReleaseAllIn ==
  ASSUME NEW u \in TimeState, Good(u.k), NEW a \in AlarmAddr
  PROVE  ReleasedFrom(u, a, ReleaseAll(u, wait_q(a)))
<1> DEFINE k2 == kthreadq_release_all(u.k, wait_q(a))
           r  == [u EXCEPT !.k = k2]
<1>1. a \in WaitQueue /\ AlarmAddr \subseteq WaitQueue
  BY KAlarmsAssumption
<1>2. /\ Moved(u.k, k2)
      /\ \A v \in Desc : k2.state[v] = IF InQueue(u.k, v, a) THEN READY ELSE u.k.state[v]
      /\ \A x \in WaitQueue : \A v \in Desc :
           InQueue(k2, v, x) <=> InQueue(u.k, v, x) /\ x # a
  BY <1>1, ReleaseAllMoves
<1>3. ReleaseAll(u, wait_q(a)) = r
  BY DEF ReleaseAll
<1> HIDE DEF k2
<1>4. Good(k2) /\ k2 \in KState
  BY <1>2 DEF Moved, Good, Consistent
<1>5. /\ r \in TimeState /\ r.tm = u.tm /\ r.kalarms = u.kalarms /\ r.alarm = u.alarm
      /\ r.stop = u.stop /\ r.k = k2
  BY <1>4 DEF TimeState
<1> HIDE DEF r
<1> QED BY <1>1, <1>2, <1>3, <1>4, <1>5 DEF ReleasedFrom, Moved, SameResources

LEMMA AwakeStates ==
  ASSUME NEW k, NEW v
  PROVE  /\ k.state[v] = READY => Awake(k, v)
         /\ k.state[v] = ACTIVE => Awake(k, v)
         /\ k.state[v] = WAIT => ~Awake(k, v)
         /\ WAIT # ACTIVE /\ WAIT # READY /\ ACTIVE # READY
BY DEF Awake, READY, ACTIVE, WAIT

LEMMA CoreFacts ==
  ASSUME NEW u, NEW sl, Core(u, sl)
  PROVE  /\ u \in TimeState /\ Good(u.k) /\ Consistent(u.k) /\ u.k \in KState
         /\ u.k.all_threads \subseteq Desc
         /\ u.k.active_thread \in Desc /\ u.k.active_thread \in u.k.all_threads
         /\ u.k.state[u.k.active_thread] = ACTIVE
         /\ u.alarm \in [AlarmAddr -> KAlarm] /\ u.kalarms \in Seq(AlarmAddr)
         /\ \A a \in AlarmAddr : u.alarm[a] \in KAlarm
         /\ \A a \in AlarmAddr : ~InQueue(u.k, u.k.active_thread, a)
<1>1. /\ u \in TimeState /\ Good(u.k) /\ Runs(u.k) /\ Consistent(u.k) /\ u.k \in KState
  BY DEF Core, Good, Consistent
<1>2. \A a \in AlarmAddr : ~InQueue(u.k, u.k.active_thread, a)
  BY <1>1, OneQueue, KAlarmsAssumption, AwakeStates DEF Runs
<1> QED BY <1>1, <1>2, StateFields DEF Runs, KState

LEMMA TurnOK ==
  ASSUME NEW u, NEW sl, Core(u, sl), NEW ref \in Time, Expired(u, ref)
  PROVE  LET a == Head(u.kalarms)
             r == ReleaseAll(RunAction(Expire(u, a), a), wait_q(a))
         IN  Core(r, sl) /\ r.tm = u.tm /\ Kept(u, r, sl, Value(ref))
<1> DEFINE a  == Head(u.kalarms)
           u1 == Expire(u, a)
           u2 == RunAction(u1, a)
           r  == ReleaseAll(u2, wait_q(a))
<1>1. /\ u \in TimeState /\ Good(u.k) /\ Runs(u.k) /\ OwnersOK(u.alarm) /\ sl \in SleepType
      /\ WaitersOK(u.k, u.alarm) /\ DelaysOK(u.k, u.alarm, sl)
      /\ ListOf(u.kalarms, u.alarm, ActiveAlarms(u.alarm))
  BY DEF Core
<1>2. u.kalarms # <<>> /\ time_cmp(u.alarm[a].exp_time, ref) <= 0
  BY DEF Expired
<1>3. /\ a \in AlarmAddr /\ u.alarm[a].magic /\ u.alarm[a].active
      /\ u.alarm[a] \in KAlarm /\ HeadExpired(u, a, u1)
  BY <1>1, <1>2, ExpireOK, StateFields DEF ActiveAlarms
<1> HIDE DEF a, u1
<1>4. /\ u1 \in TimeState /\ u1.k = u.k /\ u1.tm = u.tm
      /\ ListOf(u1.kalarms, u1.alarm, ActiveAlarms(u1.alarm))
      /\ \A x \in AlarmAddr : /\ SameAlarm(u.alarm[x], u1.alarm[x])
                              /\ x # a => u1.alarm[x] = u.alarm[x]
  BY <1>3 DEF HeadExpired
<1>5. Acted(u1, u2)
  <2>1. u1.alarm[a].action \in {"none", "thread"} /\ u1.alarm[a].thread \in Desc
    BY <1>1, <1>3, <1>4 DEF OwnersOK, SameAlarm
  <2> QED BY <1>1, <1>3, <1>4, <2>1, RunActionOK
<1> HIDE DEF u2
<1>6. ReleasedFrom(u2, a, r)
  BY <1>3, <1>5, ReleaseAllIn DEF Acted
<1> HIDE DEF r
<1>7. /\ r \in TimeState /\ r.tm = u.tm /\ r.kalarms = u1.kalarms /\ r.alarm = u1.alarm
      /\ Good(r.k) /\ r.k.active_thread = u.k.active_thread
      /\ u.k.all_threads \subseteq r.k.all_threads
      /\ \A Q \in BlockedQueue : u2.k.q[Q] = u.k.q[Q]
      /\ \A v \in u.k.all_threads : u2.k.state[v] = u.k.state[v]
  BY <1>4, <1>5, <1>6 DEF Acted, ReleasedFrom
<1>8. \A x \in AlarmAddr : \A v \in Desc : InQueue(u2.k, v, x) <=> InQueue(u.k, v, x)
  <2>1. \A x \in AlarmAddr : wait_q(x) \in BlockedQueue
    BY QueueNames, KAlarmsAssumption
  <2> QED BY <1>7, <2>1 DEF InQueue
<1>9. /\ \A x \in AlarmAddr : \A v \in Desc : InQueue(r.k, v, x) <=> InQueue(u.k, v, x) /\ x # a
      /\ \A v \in u.k.all_threads :
           r.k.state[v] = IF InQueue(u.k, v, a) THEN READY ELSE u.k.state[v]
  <2>1. u.k.all_threads \subseteq Desc
    BY CoreFacts
  <2> QED BY <1>3, <1>6, <1>7, <1>8, <2>1 DEF ReleasedFrom
<1>10. Runs(r.k)
  BY <1>3, <1>7, <1>9, CoreFacts DEF Runs
<1>11. OwnersOK(r.alarm)
  BY <1>1, <1>4, <1>7 DEF OwnersOK, SameAlarm
<1>12. WaitersOK(r.k, r.alarm)
  BY <1>1, <1>4, <1>7, <1>9 DEF WaitersOK
<1>13. DelaysOK(r.k, r.alarm, sl)
  <2> SUFFICES ASSUME NEW t \in Desc, sl[t] # NoDelay
               PROVE  DelayOK(r.k, r.alarm, sl[t], t)
    BY DEF DelaysOK
  <2>1. DelayOK(u.k, u.alarm, sl[t], t)
    BY <1>1 DEF DelaysOK
  <2> DEFINE b == sl[t].alarm
  <2>2. t \in r.k.all_threads /\ t \in u.k.all_threads /\ b \in AlarmAddr
    BY <1>7, <2>1 DEF DelayOK
  <2>3. /\ r.alarm[b].magic /\ r.alarm[b].thread = t /\ ~r.alarm[b].periodic
        /\ r.alarm[b].exp_time = u.alarm[b].exp_time
    BY <1>4, <1>7, <2>1 DEF DelayOK, SameAlarm
  <2>4. Awake(r.k, t) \/ InQueue(r.k, t, b)
    <3>1. CASE InQueue(u.k, t, a)
      BY <1>9, <2>2, <3>1, AwakeStates
    <3>2. CASE ~InQueue(u.k, t, a)
      <4>1. Awake(u.k, t) \/ InQueue(u.k, t, b)
        BY <2>1 DEF DelayOK
      <4>2. r.k.state[t] = u.k.state[t]
        BY <1>9, <2>2, <3>2
      <4>3. InQueue(u.k, t, b) => InQueue(r.k, t, b)
        BY <1>9, <2>2, <3>2
      <4> QED BY <4>1, <4>2, <4>3 DEF Awake
    <3> QED BY <3>1, <3>2
  <2> QED BY <2>1, <2>2, <2>3, <2>4 DEF DelayOK
<1>14. Slept(u.k, r.k, sl, Value(ref))
  <2> SUFFICES ASSUME NEW t \in Desc, sl[t] # NoDelay, InQueue(u.k, t, sl[t].alarm)
               PROVE  InQueue(r.k, t, sl[t].alarm) \/ sl[t].until <= Value(ref)
    BY DEF Slept
  <2>1. /\ sl[t].alarm \in AlarmAddr
        /\ sl[t].until = Value(u.alarm[sl[t].alarm].exp_time)
    BY <1>1 DEF DelaysOK, DelayOK
  <2>2. CASE sl[t].alarm # a
    BY <1>9, <2>1, <2>2
  <2>3. CASE sl[t].alarm = a
    BY <1>2, <1>3, <2>1, <2>3, AlarmFields, CmpValues
  <2> QED BY <2>2, <2>3
<1>15. Core(r, sl)
  BY <1>1, <1>4, <1>7, <1>10, <1>11, <1>12, <1>13 DEF Core
<1>16. Kept(u, r, sl, Value(ref))
  BY <1>4, <1>7, <1>14 DEF Kept
<1> QED BY <1>7, <1>15, <1>16 DEF r, u2, u1, a

-----------------------------------------------------------------------------
(***************************************************************************)
(* The loop of k_schedule_alarms, by the least turn that goes wrong.       *)
(***************************************************************************)
\* The states between the turns: what the recursive function of ExpireAlarms computes.
Turns(after, u, ref, n) ==
  after = [i \in 0 .. n |-> IF i = 0 THEN [s |-> u, resched |-> FALSE]
                                     ELSE Turn(after[i - 1], ref)]

LEMMA TurnsExist ==
  ASSUME NEW u, NEW ref, NEW n \in Nat
  PROVE  \E after : Turns(after, u, ref, n)
<1> DEFINE Bad == {i \in Nat : \A after : ~Turns(after, u, ref, i)}
           start == [s |-> u, resched |-> FALSE]
           next(r) == Turn(r, ref)
<1>0. \A after, i : Turns(after, u, ref, i) <=>
        after = [j \in 0 .. i |-> IF j = 0 THEN start ELSE next(after[j - 1])]
  BY DEF Turns
<1> HIDE DEF start, next
<1> SUFFICES ASSUME Bad # {} PROVE FALSE
  OBVIOUS
<1>1. PICK i \in Bad : \A j \in Bad : i <= j
  <2> HIDE DEF Bad
  <2>1. Bad \subseteq Nat
    BY DEF Bad
  <2> QED BY <2>1, LeastExists
<1>2. CASE i = 0
  <2> DEFINE f == [j \in 0 .. 0 |-> start]
  <2>1. f = [j \in 0 .. 0 |-> IF j = 0 THEN start ELSE next(f[j - 1])]
    OBVIOUS
  <2>2. Turns(f, u, ref, 0)
    BY <1>0, <2>1
  <2> QED BY <1>1, <1>2, <2>2
<1>3. CASE i # 0
  <2>1. i \in Nat /\ i - 1 \in Nat /\ i - 1 \notin Bad
    BY <1>1, <1>3
  <2>2. PICK f : Turns(f, u, ref, i - 1)
    BY <2>1
  <2> DEFINE g == [j \in 0 .. i |-> IF j = i THEN next(f[i - 1]) ELSE f[j]]
  <2>3. ASSUME NEW j \in 0 .. i
        PROVE  g[j] = IF j = 0 THEN start ELSE next(g[j - 1])
    <3>1. j < i => f[j] = IF j = 0 THEN start ELSE next(f[j - 1])
      <4> HIDE DEF Bad
      <4>1. j < i => j \in 0 .. (i - 1)
        BY <2>1
      <4>2. f = [h \in 0 .. (i - 1) |-> IF h = 0 THEN start ELSE next(f[h - 1])]
        BY <1>0, <2>2
      <4> QED BY <4>1, <4>2
    <3>2. j # 0 => j - 1 \in 0 .. i /\ j - 1 # i
      BY <1>1
    <3> QED BY <1>1, <1>3, <3>1, <3>2
  <2>4. Turns(g, u, ref, i)
    <3>1. g = [j \in 0 .. i |-> g[j]]
      OBVIOUS
    <3> HIDE DEF g
    <3>2. g = [j \in 0 .. i |-> IF j = 0 THEN start ELSE next(g[j - 1])]
      BY <2>3, <3>1
    <3> QED BY <1>0, <3>2
  <2> QED BY <1>1, <2>4
<1> QED BY <1>2, <1>3

LEMMA ExpireTurns ==
  ASSUME NEW u, NEW ref
  PROVE  \E after :
           Turns(after, u, ref, MaxTurns) /\ ExpireAlarms(u, ref) = after[MaxTurns]
<1> DEFINE f == CHOOSE after : Turns(after, u, ref, MaxTurns)
<1>1. Turns(f, u, ref, MaxTurns)
  BY TurnsExist, KAlarmsAssumption
<1>2. ExpireAlarms(u, ref) = f[MaxTurns]
  BY DEF ExpireAlarms, Turns
<1> QED BY <1>1, <1>2

\* What depends on these fields only.
LEMMA CoreSame ==
  ASSUME NEW u, NEW sl, Core(u, sl), NEW r \in TimeState,
         r.k = u.k, r.kalarms = u.kalarms, r.alarm = u.alarm
  PROVE  /\ Core(r, sl)
         /\ \A w, lim : Kept(w, u, sl, lim) => Kept(w, r, sl, lim)
<1>1. Core(r, sl)
  BY DEF Core
<1>2. \A w, lim : Kept(w, u, sl, lim) => Kept(w, r, sl, lim)
  BY DEF Kept
<1> QED BY <1>1, <1>2

LEMMA KeptItself ==
  ASSUME NEW u, NEW sl, NEW lim
  PROVE  Kept(u, u, sl, lim)
BY DEF Kept, SameAlarm, Slept

LEMMA KeptLonger ==
  ASSUME NEW u, NEW r, NEW sl \in SleepType, NEW lim \in Int, NEW lim2 \in Int, lim <= lim2,
         Kept(u, r, sl, lim)
  PROVE  Kept(u, r, sl, lim2)
<1>1. \A t \in Desc : sl[t].until \in Int
  BY DEF SleepType
<1>2. \A t \in Desc : sl[t].until <= lim => sl[t].until <= lim2
  BY <1>1
<1> QED BY <1>2 DEF Kept, Slept

LoopOK(u, r, sl, lim) ==
  /\ r = [s |-> r.s, resched |-> r.resched]
  /\ Core(r.s, sl) /\ r.s.tm = u.tm /\ Kept(u, r.s, sl, lim)

LEMMA TurnKeeps ==
  ASSUME NEW u, NEW r, NEW sl, NEW ref \in Time, LoopOK(u, r, sl, Value(ref))
  PROVE  LoopOK(u, Turn(r, ref), sl, Value(ref))
<1>1. CASE LoopOver(r, ref)
  <2>1. Turn(r, ref) = r
    BY <1>1 DEF Turn
  <2> QED BY <2>1
<1>2. CASE ~LoopOver(r, ref)
  <2> DEFINE a == Head(r.s.kalarms)
             x == ReleaseAll(RunAction(Expire(r.s, a), a), wait_q(a))
             n == Turn(r, ref)
  <2>1. n.s = x /\ n = [s |-> n.s, resched |-> n.resched]
    BY <1>2 DEF Turn, Released
  <2>2. Core(r.s, sl) /\ r.s.tm = u.tm /\ Kept(u, r.s, sl, Value(ref)) /\ Expired(r.s, ref)
    BY <1>2 DEF LoopOK, LoopOver
  <2>3. Core(x, sl) /\ x.tm = r.s.tm /\ Kept(r.s, x, sl, Value(ref))
    BY <2>2, TurnOK
  <2> HIDE DEF x, n
  <2>4. Kept(u, x, sl, Value(ref))
    BY <2>2, <2>3, KeptTwice
  <2>5. LoopOK(u, n, sl, Value(ref))
    BY <2>1, <2>2, <2>3, <2>4 DEF LoopOK
  <2> QED BY <2>5 DEF n
<1> QED BY <1>1, <1>2

LEMMA ExpireAlarmsOK ==
  ASSUME NEW u, NEW sl, Core(u, sl), NEW ref \in Time
  PROVE  LoopOK(u, ExpireAlarms(u, ref), sl, Value(ref))
<1> DEFINE x == ExpireAlarms(u, ref)
<1>1. PICK after :
        /\ Turns(after, u, ref, MaxTurns)
        /\ x = after[MaxTurns]
  BY ExpireTurns
<1> HIDE DEF x
<1>2. MaxTurns \in Nat
  BY KAlarmsAssumption
<1> DEFINE Bad == {i \in 0 .. MaxTurns : ~LoopOK(u, after[i], sl, Value(ref))}
<1>3. Bad = {}
  <2> SUFFICES ASSUME Bad # {} PROVE FALSE
    OBVIOUS
  <2>1. PICK i \in Bad : \A j \in Bad : i <= j
    <3>1. Bad \subseteq Nat
      BY <1>2
    <3> HIDE DEF Bad
    <3> QED BY <3>1, LeastExists
  <2>2. CASE i = 0
    <3>1. after[0] = [s |-> u, resched |-> FALSE]
      BY <1>1, <1>2 DEF Turns
    <3>2. LoopOK(u, after[0], sl, Value(ref))
      BY <3>1, KeptItself DEF LoopOK
    <3> QED BY <2>1, <2>2, <3>2
  <2>3. CASE i # 0
    <3>1. i - 1 \in 0 .. MaxTurns /\ i - 1 \notin Bad
      BY <1>2, <2>1, <2>3
    <3>2. LoopOK(u, Turn(after[i - 1], ref), sl, Value(ref))
      BY <3>1, TurnKeeps
    <3>3. after[i] = Turn(after[i - 1], ref)
      BY <1>1, <2>1, <2>3 DEF Turns
    <3> QED BY <2>1, <3>2, <3>3
  <2> QED BY <2>2, <2>3
<1>4. MaxTurns \in 0 .. MaxTurns
  BY <1>2
<1> QED BY <1>1, <1>3, <1>4 DEF x

LEMMA LoopEndedOK ==
  ASSUME NEW u, NEW x, NEW sl, NEW time, LoopOK(u, x, sl, Value(ReferenceTime(time)))
  PROVE  LET r == LoopEnded(x, time).s
         IN  IF Stopped(x.s) \/ Expired(x.s, ReferenceTime(time))
             THEN /\ Stopped(r) /\ r.tm = u.tm /\ Core(r, sl)
                  /\ Kept(u, r, sl, Value(ReferenceTime(time)))
             ELSE r = SetTimer(x.s, time)
<1> DEFINE ref == ReferenceTime(time)
           r   == LoopEnded(x, time).s
           b   == [x.s EXCEPT !.stop = "bound"]
<1>1. /\ x = [s |-> x.s, resched |-> x.resched]
      /\ Core(x.s, sl) /\ x.s.tm = u.tm /\ Kept(u, x.s, sl, Value(ref))
  BY DEF LoopOK
<1> HIDE DEF ref
<1>2. r = IF Stopped(x.s) \/ ~Expired(x.s, ref)
          THEN (IF Stopped(x.s) THEN x.s ELSE SetTimer(x.s, time)) ELSE b
  BY <1>1 DEF LoopEnded, LoopOver, ref
<1>3. x.s \in TimeState
  BY <1>1 DEF Core
<1>4. /\ b \in TimeState /\ b.k = x.s.k /\ b.kalarms = x.s.kalarms
      /\ b.alarm = x.s.alarm /\ b.tm = x.s.tm /\ b.stop = "bound"
  BY <1>3 DEF TimeState, Stop
<1> HIDE DEF b, r
<1>5. Core(b, sl) /\ Kept(u, b, sl, Value(ref)) /\ Stopped(b)
  BY <1>1, <1>4, CoreSame DEF Stopped
<1>6. IF Stopped(x.s) \/ Expired(x.s, ref)
      THEN Stopped(r) /\ r.tm = u.tm /\ Core(r, sl) /\ Kept(u, r, sl, Value(ref))
      ELSE r = SetTimer(x.s, time)
  BY <1>1, <1>2, <1>4, <1>5
<1> QED BY <1>6 DEF r, ref

(***************************************************************************)
(* k_schedule_alarms sets the timer for the first alarm that is left.      *)
(***************************************************************************)
AlarmsScheduled(u, r, sl) ==
  /\ Core(r, sl) /\ TimerOK(r.tm) /\ (Stopped(r) \/ TimerIsFor(r))
  /\ Value(Now(u)) <= Value(Now(r))
  /\ Kept(u, r, sl, Value(Now(r)) + Value(threshold))

LEMMA SetTimerOK ==
  ASSUME NEW u, NEW sl, Core(u, sl), TimerOK(u.tm), ~Stopped(u),
         ~Expired(u, ReferenceTime(Now(u)))
  PROVE  LET r == SetTimer(u, Now(u))
         IN  /\ Core(r, sl) /\ TimerOK(r.tm) /\ TimerIsFor(r)
             /\ Value(Now(u)) <= Value(Now(r))
             /\ \A w, lim : Kept(w, u, sl, lim) => Kept(w, r, sl, lim)
<1> DEFINE time == Now(u)
           r    == SetTimer(u, time)
<1>1. /\ time = arch_get_time(u.tm) /\ time \in Time /\ Value(time) \in Int
      /\ ~u.tm.asserted
  BY TimeBounds DEF Now, Stopped
<1>2. CASE u.kalarms = <<>>
  <2>1. r = u
    BY <1>2 DEF SetTimer
  <2> QED BY <1>1, <1>2, <2>1 DEF TimerIsFor
<1>3. CASE u.kalarms # <<>>
  <2> DEFINE exp == u.alarm[Head(u.kalarms)].exp_time
             d   == time_sub(exp, time)
             tm2 == arch_timer_set(u.tm, d)
             v   == [u EXCEPT !.tm = tm2]
  <2>1. r = v
    BY <1>3 DEF SetTimer
  <2>2. exp \in Time
    <3>1. Head(u.kalarms) \in AlarmAddr
      BY <1>3, CoreFacts
    <3> QED BY <3>1, CoreFacts, AlarmFields
  <2>3. /\ Value(exp) \in Int /\ d \in Time /\ Value(d) = Value(exp) - Value(time)
    BY <1>1, <2>2, SubTimes, TimeFields
  <2>4. /\ TimerOK(tm2) /\ tm2.handler /\ ~tm2.asserted
        /\ Value(tm2.clock) = Value(time) /\ (tm2.delay = d \/ tm2.delay = min_interval)
    BY <1>1, <2>3, TimerIsSet
  <2>5. Value(exp) >= Value(time) + Value(threshold)
    <3>1. /\ ReferenceTime(time) \in Time
          /\ Value(ReferenceTime(time)) = Value(time) + Value(threshold)
      BY <1>1, Intervals, AddTimes DEF ReferenceTime
    <3>2. ~(time_cmp(exp, ReferenceTime(time)) <= 0)
      BY <1>3 DEF Expired
    <3>3. ~(time_cmp(exp, ReferenceTime(time)) < 0)
      BY <2>2, <3>1, <3>2, CmpTransitive
    <3> QED BY <2>2, <3>1, <3>3, CmpValues
  <2>6. Value(tm2.clock) + Value(tm2.delay) <= Value(exp) + Value(min_interval) - Value(threshold)
    BY <1>1, <2>3, <2>4, <2>5, Intervals
  <2> HIDE DEF d, tm2
  <2>7. /\ v \in TimeState /\ v.k = u.k /\ v.kalarms = u.kalarms /\ v.alarm = u.alarm
        /\ v.tm = tm2
    BY <2>4, CoreFacts DEF TimeState, TimerOK
  <2> HIDE DEF v
  <2>8. Core(v, sl) /\ \A w, lim : Kept(w, u, sl, lim) => Kept(w, v, sl, lim)
    BY <2>7, CoreSame
  <2>9. TimerIsFor(v)
    BY <2>4, <2>6, <2>7 DEF TimerIsFor
  <2>10. Value(time) <= Value(Now(v))
    BY <2>4, <2>7, TimeBounds DEF Now
  <2> QED BY <2>1, <2>4, <2>7, <2>8, <2>9, <2>10
<1> QED BY <1>2, <1>3

LEMMA ScheduleAlarmsOK ==
  ASSUME NEW u, NEW sl, Core(u, sl), TimerOK(u.tm)
  PROVE  AlarmsScheduled(u, k_schedule_alarms(u).s, sl)
<1> DEFINE time == Now(u)
           ref  == ReferenceTime(time)
           x    == ExpireAlarms(u, ref)
           r    == k_schedule_alarms(u)
<1>1. time \in Time /\ Value(time) \in Int
  BY TimeBounds DEF Now
<1>2. /\ ref \in Time /\ Value(ref) = Value(time) + Value(threshold)
      /\ Value(threshold) \in Int
  BY <1>1, Intervals, AddTimes DEF ReferenceTime
<1>3. LoopOK(u, x, sl, Value(ref))
  <2> HIDE DEF ref
  <2> QED BY <1>2, ExpireAlarmsOK
<1>4. r = LoopEnded(x, time)
  BY DEF k_schedule_alarms
<1> HIDE DEF x, r
<1>5. Core(x.s, sl) /\ x.s.tm = u.tm /\ Kept(u, x.s, sl, Value(ref))
  BY <1>3 DEF LoopOK
<1>6. IF Stopped(x.s) \/ Expired(x.s, ref)
      THEN Stopped(r.s) /\ r.s.tm = u.tm /\ Core(r.s, sl) /\ Kept(u, r.s, sl, Value(ref))
      ELSE r.s = SetTimer(x.s, time)
  BY <1>3, <1>4, LoopEndedOK DEF ref
<1>7. Now(x.s) = time
  BY <1>5 DEF Now
<1>8. sl \in SleepType /\ Value(ref) \in Int
  BY <1>1, <1>2 DEF Core
<1> HIDE DEF ref, time
<1>9. CASE Stopped(x.s) \/ Expired(x.s, ref)
  <2>1. TimerOK(r.s.tm) /\ Now(r.s) = time
    BY <1>6, <1>9 DEF Now, time
  <2> QED BY <1>1, <1>2, <1>6, <1>9, <2>1 DEF AlarmsScheduled, r, time
<1>10. CASE ~(Stopped(x.s) \/ Expired(x.s, ref))
  <2>1. /\ Core(r.s, sl) /\ TimerOK(r.s.tm) /\ TimerIsFor(r.s)
        /\ Value(time) <= Value(Now(r.s))
        /\ Kept(u, x.s, sl, Value(ref)) => Kept(u, r.s, sl, Value(ref))
    BY <1>5, <1>6, <1>7, <1>10, SetTimerOK DEF ref
  <2>2. Value(Now(r.s)) \in Int
    BY <2>1, TimeBounds DEF Now
  <2>3. Kept(u, r.s, sl, Value(Now(r.s)) + Value(threshold))
    BY <1>1, <1>2, <1>5, <1>8, <2>1, <2>2, KeptLonger
  <2> QED BY <2>1, <2>3 DEF AlarmsScheduled, r, time
<1> QED BY <1>9, <1>10

-----------------------------------------------------------------------------
(***************************************************************************)
(* The end of a call: the owner of the alarm may block, and threads are    *)
(* scheduled.                                                              *)
(***************************************************************************)
\* Core before kthreads_schedule, when active_thread may have blocked.
Unscheduled(u, sl) ==
  /\ u \in TimeState /\ sl \in SleepType /\ Good(u.k)
  /\ ListOf(u.kalarms, u.alarm, ActiveAlarms(u.alarm))
  /\ OwnersOK(u.alarm) /\ WaitersOK(u.k, u.alarm) /\ DelaysOK(u.k, u.alarm, sl)

SameAlarms(u, r) == r.tm = u.tm /\ r.kalarms = u.kalarms /\ r.alarm = u.alarm

\* v stays in whatever queue of an alarm it is in.
StayIn(k, k2) ==
  \A a \in AlarmAddr : \A v \in Desc : InQueue(k, v, a) => InQueue(k2, v, a)

LEMMA ScheduledOK ==
  ASSUME NEW u, NEW sl, Unscheduled(u, sl), ~Stopped(u)
  PROVE  LET r == Schedule(u)
         IN  Core(r, sl) /\ SameAlarms(u, r) /\ StayIn(u.k, r.k)
<1> DEFINE k2 == kthreads_schedule(u.k)
           r  == [u EXCEPT !.k = k2]
<1>1. Schedule(u) = r
  BY DEF Schedule
<1>2. Rescheduled(u.k, k2)
  BY ScheduleSettles DEF Unscheduled
<1> HIDE DEF k2
<1>3. u.k \in KState /\ AlarmAddr \subseteq WaitQueue
  BY KAlarmsAssumption DEF Unscheduled, Good, Consistent
<1>4. /\ Good(k2) /\ Runs(k2) /\ k2 \in KState /\ k2.all_threads = u.k.all_threads
      /\ \A v \in Desc : Awake(k2, v) <=> Awake(u.k, v)
      /\ \A a \in AlarmAddr : \A v \in Desc : InQueue(k2, v, a) <=> InQueue(u.k, v, a)
  <2>1. Settled(k2)
    BY <1>2 DEF Rescheduled
  <2>2. \A w \in WaitQueue : \A v \in Desc : InQueue(k2, v, w) <=> InQueue(u.k, v, w)
    BY <1>2, <1>3, RescheduledIn
  <2> QED BY <1>2, <1>3, <2>1, <2>2, TopRuns
          DEF Rescheduled, Settled, SameResources, Good, Consistent
<1>5. /\ r \in TimeState /\ r.tm = u.tm /\ r.kalarms = u.kalarms /\ r.alarm = u.alarm
      /\ r.k = k2
  BY <1>4 DEF Unscheduled, TimeState
<1> HIDE DEF r
<1>6. WaitersOK(k2, u.alarm)
  BY <1>4 DEF WaitersOK, Unscheduled
<1>7. DelaysOK(k2, u.alarm, sl)
  BY <1>4 DEF DelaysOK, DelayOK, Unscheduled
<1>8. Core(r, sl)
  BY <1>4, <1>5, <1>6, <1>7 DEF Core, Unscheduled
<1>9. StayIn(u.k, r.k)
  BY <1>4, <1>5 DEF StayIn
<1> QED BY <1>1, <1>5, <1>8, <1>9 DEF SameAlarms

\* The active thread waits for the active alarm a: its own, if it is in delay_until.
LEMMA WaitsFor ==
  ASSUME NEW u, NEW sl, Core(u, sl), ~Stopped(u), NEW a \in AlarmAddr,
         u.alarm[a].magic, u.alarm[a].active, u.k.active_thread # Idle,
         sl[u.k.active_thread] # NoDelay => sl[u.k.active_thread].alarm = a
  PROVE  LET r == Schedule(Enqueue(u, u.k.active_thread, wait_q(a)))
         IN  Core(r, sl) /\ SameAlarms(u, r) /\ StayIn(u.k, r.k)
<1> DEFINE t  == u.k.active_thread
           k2 == kthread_enqueue(u.k, t, wait_q(a))
           w  == [[u EXCEPT !.k = k2] EXCEPT
                    !.stop = IF @ = "no" /\ InSomeQueue(u, t) THEN "two_queues" ELSE @]
           x  == Enqueue(u, t, wait_q(a))
<1>1. /\ u \in TimeState /\ Good(u.k) /\ Consistent(u.k) /\ u.k \in KState
      /\ u.k.all_threads \subseteq Desc
      /\ t \in Desc \ {Idle} /\ t \in u.k.all_threads /\ u.k.state[t] = ACTIVE
      /\ AlarmAddr \subseteq WaitQueue /\ a \in WaitQueue
  BY CoreFacts, KAlarmsAssumption
<1>2. ~Queued(u.k, t) /\ u.k.state[t] # PASSIVE
  <2>1. ACTIVE # READY /\ ACTIVE # WAIT /\ ACTIVE # PASSIVE
    BY DEF ACTIVE, READY, WAIT, PASSIVE
  <2> QED BY <1>1, <2>1 DEF Queued, Consistent, QueuesOK, Belongs
<1>3. ~InSomeQueue(u, t)
  BY <1>2 DEF InSomeQueue, Queued
<1>4. x = w
  BY DEF Enqueue, OnceQueued
<1> HIDE DEF t, x
<1>5. /\ Moved(u.k, k2)
      /\ \A v \in Desc : k2.state[v] = IF v = t THEN WAIT ELSE u.k.state[v]
      /\ \A b \in WaitQueue : \A v \in Desc :
           InQueue(k2, v, b) <=> InQueue(u.k, v, b) \/ (v = t /\ b = a)
  BY <1>1, <1>2, EnqueueMoves
<1> HIDE DEF k2
<1>6. /\ Good(k2) /\ k2 \in KState /\ k2.assert = u.k.assert /\ k2.ids = u.k.ids
      /\ k2.all_threads = u.k.all_threads
  BY <1>5 DEF Moved, Good, Consistent, SameResources
<1>7. /\ w \in TimeState /\ w.k = k2 /\ w.tm = u.tm /\ w.kalarms = u.kalarms
      /\ w.alarm = u.alarm /\ w.stop = u.stop
  BY <1>1, <1>3, <1>6 DEF TimeState
<1> HIDE DEF w
<1>8. ~Stopped(w)
  BY <1>6, <1>7 DEF Stopped, Running
<1>9. WaitersOK(k2, u.alarm)
  BY <1>1, <1>5 DEF WaitersOK, Core
<1>10. DelaysOK(k2, u.alarm, sl)
  <2> SUFFICES ASSUME NEW v \in Desc, sl[v] # NoDelay
               PROVE  DelayOK(k2, u.alarm, sl[v], v)
    BY DEF DelaysOK
  <2>1. DelayOK(u.k, u.alarm, sl[v], v)
    BY DEF DelaysOK, Core
  <2>2. sl[v].alarm \in WaitQueue
    BY <1>1, <2>1 DEF DelayOK
  <2>3. Awake(k2, v) \/ InQueue(k2, v, sl[v].alarm)
    <3>1. CASE v = t
      BY <1>5, <2>2, <3>1 DEF t
    <3>2. CASE v # t
      BY <1>5, <2>1, <2>2, <3>2 DEF DelayOK, Awake
    <3> QED BY <3>1, <3>2
  <2> QED BY <1>6, <2>1, <2>3 DEF DelayOK
<1>11. Unscheduled(w, sl)
  BY <1>6, <1>7, <1>9, <1>10 DEF Unscheduled, Core
<1>12. Core(Schedule(w), sl) /\ SameAlarms(w, Schedule(w)) /\ StayIn(w.k, Schedule(w).k)
  BY <1>8, <1>11, ScheduledOK
<1>13. SameAlarms(u, Schedule(w)) /\ StayIn(u.k, Schedule(w).k)
  BY <1>1, <1>5, <1>7, <1>12 DEF SameAlarms, StayIn
<1> QED BY <1>4, <1>12, <1>13 DEF x, t

\* What a call has done from u to r.
CallDone(u, r, sl) ==
  /\ Core(r, sl) /\ (Stopped(r) \/ (TimerOK(r.tm) /\ TimerIsFor(r)))
  /\ Slept(u.k, r.k, sl, Value(Now(r)) + Value(threshold))

LEMMA DoneAndStay ==
  ASSUME NEW u, NEW x, NEW r, NEW sl, CallDone(u, x, sl), ~Stopped(x),
         Core(r, sl), SameAlarms(x, r), StayIn(x.k, r.k)
  PROVE  CallDone(u, r, sl)
<1>1. TimerOK(r.tm) /\ TimerIsFor(r) /\ Now(r) = Now(x)
  BY DEF CallDone, SameAlarms, TimerIsFor, Now
<1>2. \A t \in Desc : sl[t] # NoDelay => sl[t].alarm \in AlarmAddr
  BY DEF Core, DelaysOK, DelayOK
<1>3. Slept(u.k, r.k, sl, Value(Now(r)) + Value(threshold))
  BY <1>1, <1>2 DEF CallDone, Slept, StayIn
<1> QED BY <1>1, <1>3 DEF CallDone

\* Who may block when the call has set the alarm a.
MayBlock(u, a, sl) ==
  a # NULL =>
    /\ a \in AlarmAddr
    /\ u.alarm[a].wait /\ u.alarm[a].thread # NULL =>
         u.alarm[a].thread = u.k.active_thread /\ u.k.active_thread # Idle
    /\ sl[u.k.active_thread] # NoDelay => sl[u.k.active_thread].alarm = a

LEMMA SettleOK ==
  ASSUME NEW u, NEW sl, Core(u, sl), TimerOK(u.tm), NEW a, MayBlock(u, a, sl), NEW resched
  PROVE  CallDone(u, Settle(u, TRUE, a, resched), sl)
<1> DEFINE q == k_schedule_alarms(u)
           x == q.s
           blocks == Blocks(x, a)
           y == IF blocks THEN Enqueue(x, x.alarm[a].thread, wait_q(a)) ELSE x
           r == Settle(u, TRUE, a, resched)
<1>1. r = IF Stopped(x) \/ ~(resched \/ q.resched \/ blocks) THEN x ELSE Schedule(y)
  BY DEF Settle, Finish, Reschedules, BlockOwner
<1>2. AlarmsScheduled(u, x, sl)
  BY ScheduleAlarmsOK
<1> HIDE DEF q, x, r
<1>3. CallDone(u, x, sl) /\ Core(x, sl) /\ Kept(u, x, sl, Value(Now(x)) + Value(threshold))
  BY <1>2 DEF AlarmsScheduled, CallDone, Kept
<1>4. CASE Stopped(x) \/ ~(resched \/ q.resched \/ blocks)
  BY <1>1, <1>3, <1>4 DEF r
<1>5. CASE ~(Stopped(x) \/ ~(resched \/ q.resched \/ blocks)) /\ blocks
  <2>1. ~Stopped(x) /\ a # NULL /\ OwnerBlocks(x.alarm[a])
    BY <1>5 DEF Blocks
  <2>2. /\ a \in AlarmAddr /\ x.alarm[a].thread # NULL /\ x.alarm[a].active /\ x.alarm[a].wait
    BY <2>1 DEF OwnerBlocks, MayBlock
  <2>3. x.alarm[a].magic
    BY <1>3, <2>2 DEF Core, OwnersOK
  <2>4. /\ x.alarm[a].thread = x.k.active_thread /\ x.k.active_thread # Idle
        /\ sl[x.k.active_thread] # NoDelay => sl[x.k.active_thread].alarm = a
    BY <1>3, <2>1, <2>2 DEF MayBlock, Kept, SameAlarm
  <2> DEFINE z == Schedule(Enqueue(x, x.k.active_thread, wait_q(a)))
  <2>5. Core(z, sl) /\ SameAlarms(x, z) /\ StayIn(x.k, z.k)
    BY <1>3, <2>1, <2>2, <2>3, <2>4, WaitsFor
  <2>6. r = z
    BY <1>1, <1>5, <2>4
  <2> HIDE DEF z
  <2> QED BY <1>3, <2>1, <2>5, <2>6, DoneAndStay DEF r
<1>6. CASE ~(Stopped(x) \/ ~(resched \/ q.resched \/ blocks)) /\ ~blocks
  <2>1. ~Stopped(x) /\ r = Schedule(x)
    BY <1>1, <1>6
  <2>2. Unscheduled(x, sl)
    BY <1>3 DEF Core, Unscheduled
  <2>3. Core(r, sl) /\ SameAlarms(x, r) /\ StayIn(x.k, r.k)
    BY <2>1, <2>2, ScheduledOK
  <2> QED BY <1>3, <2>1, <2>3, DoneAndStay DEF r
<1> QED BY <1>4, <1>5, <1>6

\* k_alarm_add, before the alarm a is put in the list: what holds of the other alarms
\* holds of a too, but for the list.
Unlinked(u, a, sl) ==
  /\ u \in TimeState /\ sl \in SleepType /\ Good(u.k) /\ Runs(u.k)
  /\ ListOf(u.kalarms, u.alarm, ActiveAlarms(u.alarm) \ {a})
  /\ \A b \in AlarmAddr \ {a} : u.alarm[b].active =>
       u.alarm[b].magic /\ u.alarm[b].action \in {"none", "thread"} /\ u.alarm[b].thread \in Desc
  /\ \A b \in AlarmAddr \ {a} : \A v \in Desc :
       InQueue(u.k, v, b) => u.alarm[b].magic /\ u.alarm[b].active
  /\ DelaysOK(u.k, u.alarm, sl)

\* a is an alarm some thread has set; threads wait for it only if it has a time.
Complete(u, a) ==
  /\ u.alarm[a].magic /\ u.alarm[a].action \in {"none", "thread"} /\ u.alarm[a].thread \in Desc
  /\ \A v \in Desc : InQueue(u.k, v, a) => u.alarm[a].exp_time.sec + u.alarm[a].exp_time.nsec > 0

\* Whether a is active is all that differs.
SameButActive(x, y) ==
  /\ y.magic = x.magic /\ y.thread = x.thread /\ y.wait = x.wait /\ y.action = x.action
  /\ y.periodic = x.periodic /\ y.exp_time = x.exp_time

LEMMA DelaysSame ==
  ASSUME NEW k, NEW al, NEW al2, NEW sl, sl \in SleepType, DelaysOK(k, al, sl),
         \A x \in AlarmAddr : SameButActive(al[x], al2[x])
  PROVE  DelaysOK(k, al2, sl)
BY DEF DelaysOK, DelayOK, SameButActive

\* The alarm a is now active, or not, as b says.
LEMMA SetActive ==
  ASSUME NEW u \in TimeState, NEW a \in AlarmAddr, NEW b \in BOOLEAN
  PROVE  LET r == [u EXCEPT !.alarm[a].active = b]
         IN  /\ r \in TimeState /\ r.k = u.k /\ r.tm = u.tm /\ r.kalarms = u.kalarms
             /\ r.stop = u.stop
             /\ r.alarm[a].active = b
             /\ \A x \in AlarmAddr : /\ SameButActive(u.alarm[x], r.alarm[x])
                                     /\ x # a => r.alarm[x] = u.alarm[x]
<1> DEFINE y   == [u.alarm[a] EXCEPT !.active = b]
           al2 == [u.alarm EXCEPT ![a] = y]
           r   == [u EXCEPT !.alarm = al2]
<1>1. u.alarm \in [AlarmAddr -> KAlarm] /\ u.alarm[a] \in KAlarm
  BY StateFields
<1>2. y \in KAlarm /\ y.active = b /\ SameButActive(u.alarm[a], y)
  BY <1>1 DEF KAlarm, SameButActive
<1> HIDE DEF y
<1>3. /\ al2 \in [AlarmAddr -> KAlarm] /\ al2[a] = y
      /\ \A x \in AlarmAddr : x # a => al2[x] = u.alarm[x]
  BY <1>1, <1>2
<1> HIDE DEF al2
<1>4. /\ r \in TimeState /\ r.k = u.k /\ r.tm = u.tm /\ r.kalarms = u.kalarms
      /\ r.stop = u.stop /\ r.alarm = al2
  BY <1>3 DEF TimeState
<1>5. [u EXCEPT !.alarm[a].active = b] = r
  BY DEF al2, y
<1> HIDE DEF r
<1>6. \A x \in AlarmAddr : SameButActive(u.alarm[x], r.alarm[x])
  BY <1>2, <1>3, <1>4 DEF SameButActive
<1> QED BY <1>2, <1>3, <1>4, <1>5, <1>6

ArmedAs(u, a, r, sl) ==
  /\ Core(r, sl) /\ r.k = u.k /\ r.tm = u.tm /\ r.stop = u.stop
  /\ \A x \in AlarmAddr : SameButActive(u.alarm[x], r.alarm[x])

LEMMA ArmedOK ==
  ASSUME NEW u, NEW sl, NEW a \in AlarmAddr, Unlinked(u, a, sl), Complete(u, a)
  PROVE  ArmedAs(u, a, Armed(u, a), sl)
<1> DEFINE exp == u.alarm[a].exp_time
           A   == ActiveAlarms(u.alarm) \ {a}
           on  == [u EXCEPT !.alarm[a].active = TRUE]
           off == [u EXCEPT !.alarm[a].active = FALSE]
           r   == Armed(u, a)
<1>1. r = IF exp.sec + exp.nsec > 0 THEN SortedIn(on, a) ELSE off
  BY DEF Armed
<1>2. u \in TimeState
  BY DEF Unlinked
<1>3. CASE exp.sec + exp.nsec > 0
  <2>1. /\ on \in TimeState /\ on.k = u.k /\ on.tm = u.tm /\ on.kalarms = u.kalarms
        /\ on.stop = u.stop /\ on.alarm[a].active
        /\ \A x \in AlarmAddr : /\ SameButActive(u.alarm[x], on.alarm[x])
                                /\ x # a => on.alarm[x] = u.alarm[x]
    BY <1>2, SetActive
  <2> HIDE DEF on
  <2>2. ListOf(on.kalarms, on.alarm, A)
    <3>1. \A x \in A : on.alarm[x].exp_time = u.alarm[x].exp_time
      BY <2>1 DEF ActiveAlarms
    <3> QED BY <2>1, <3>1, ListSame DEF Unlinked
  <2>3. /\ on.kalarms \in Seq(AlarmAddr) /\ on.alarm \in [AlarmAddr -> KAlarm]
        /\ a \in AlarmAddr \ A
    BY <2>1, StateFields
  <2>4. PICK l : SortedIn(on, a) = [on EXCEPT !.kalarms = l] /\ ListOf(l, on.alarm, A \cup {a})
    BY <2>2, <2>3, SortedInList
  <2> DEFINE w == [on EXCEPT !.kalarms = l]
  <2>5. /\ w \in TimeState /\ w.k = u.k /\ w.tm = u.tm /\ w.kalarms = l /\ w.stop = u.stop
        /\ w.alarm = on.alarm
    BY <2>1, <2>4 DEF TimeState, ListOf
  <2>6. r = w
    BY <1>1, <1>3, <2>4
  <2> HIDE DEF w, r
  <2>7. on.alarm[a].magic /\ on.alarm[a].action \in {"none", "thread"} /\ on.alarm[a].thread \in Desc
    BY <2>1 DEF Complete, SameButActive
  <2>8. A \cup {a} = ActiveAlarms(on.alarm)
    BY <2>1, <2>7 DEF ActiveAlarms
  <2>9. OwnersOK(on.alarm) /\ WaitersOK(u.k, on.alarm)
    BY <2>1, <2>7 DEF OwnersOK, WaitersOK, Unlinked
  <2>10. DelaysOK(u.k, on.alarm, sl)
    BY <2>1, DelaysSame DEF Unlinked
  <2>11. Core(w, sl)
    BY <2>4, <2>5, <2>8, <2>9, <2>10 DEF Core, Unlinked
  <2> QED BY <2>1, <2>5, <2>6, <2>11 DEF ArmedAs, r
<1>4. CASE ~(exp.sec + exp.nsec > 0)
  <2>1. /\ off \in TimeState /\ off.k = u.k /\ off.tm = u.tm /\ off.kalarms = u.kalarms
        /\ off.stop = u.stop /\ ~off.alarm[a].active
        /\ \A x \in AlarmAddr : /\ SameButActive(u.alarm[x], off.alarm[x])
                                /\ x # a => off.alarm[x] = u.alarm[x]
    BY <1>2, SetActive
  <2> HIDE DEF off
  <2>2. r = off
    BY <1>1, <1>4
  <2> HIDE DEF r
  <2>3. \A x \in A : off.alarm[x].exp_time = u.alarm[x].exp_time
    BY <2>1 DEF ActiveAlarms
  <2>4. ActiveAlarms(off.alarm) = A
    BY <2>1 DEF ActiveAlarms
  <2>5. ListOf(off.kalarms, off.alarm, ActiveAlarms(off.alarm))
    BY <2>1, <2>3, <2>4, ListSame DEF Unlinked
  <2>6. \A v \in Desc : ~InQueue(u.k, v, a)
    BY <1>4 DEF Complete
  <2>7. OwnersOK(off.alarm) /\ WaitersOK(u.k, off.alarm)
    BY <2>1, <2>6 DEF OwnersOK, WaitersOK, Unlinked
  <2>8. DelaysOK(u.k, off.alarm, sl)
    BY <2>1, DelaysSame DEF Unlinked
  <2>9. Core(off, sl)
    BY <2>1, <2>5, <2>7, <2>8 DEF Core, Unlinked
  <2> QED BY <2>1, <2>2, <2>9 DEF ArmedAs, r
<1> QED BY <1>3, <1>4

\* Who may block when a call sets the alarm a: its caller only.
LEMMA AddOK ==
  ASSUME NEW u, NEW sl, NEW a \in AlarmAddr, Unlinked(u, a, sl), Complete(u, a), TimerOK(u.tm),
         u.alarm[a].wait => u.alarm[a].thread = u.k.active_thread,
         u.k.active_thread # Idle,
         sl[u.k.active_thread] # NoDelay => sl[u.k.active_thread].alarm = a
  PROVE  CallDone(u, k_alarm_add(u, a), sl)
<1> DEFINE r == Armed(u, a)
<1>1. k_alarm_add(u, a) = Settle(r, TRUE, a, FALSE)
  BY DEF k_alarm_add
<1>2. ArmedAs(u, a, r, sl)
  BY ArmedOK
<1> HIDE DEF r
<1>3. Core(r, sl) /\ TimerOK(r.tm) /\ r.k = u.k /\ SameButActive(u.alarm[a], r.alarm[a])
  BY <1>2 DEF ArmedAs
<1>4. MayBlock(r, a, sl)
  BY <1>3 DEF MayBlock, SameButActive
<1> DEFINE w == Settle(r, TRUE, a, FALSE)
<1>5. CallDone(r, w, sl)
  BY <1>3, <1>4, SettleOK
<1> HIDE DEF w
<1> QED BY <1>1, <1>3, <1>5 DEF CallDone, w

-----------------------------------------------------------------------------
(***************************************************************************)
(* The calls, from the operators they are made of to their actions.        *)
(***************************************************************************)
\* An alarm is taken out of the list, if it is in it.
Taken(u, a, r) ==
  /\ r \in TimeState /\ r.k = u.k /\ r.tm = u.tm /\ r.alarm = u.alarm /\ r.stop = u.stop
  /\ ListOf(r.kalarms, u.alarm, ActiveAlarms(u.alarm) \ {a})

LEMMA UnlinkOK ==
  ASSUME NEW u \in TimeState, ListOf(u.kalarms, u.alarm, ActiveAlarms(u.alarm)),
         NEW a \in AlarmAddr, u.alarm[a].magic
  PROVE  Taken(u, a, Unlink(u, a))
<1>1. CASE u.alarm[a].active
  <2> DEFINE l == list_find_and_remove(u.kalarms, a)
             r == [u EXCEPT !.kalarms = l]
  <2>1. ListOf(l, u.alarm, ActiveAlarms(u.alarm) \ {a})
    BY ListRemoved
  <2>2. Unlink(u, a) = r
    BY <1>1 DEF Unlink, ListRemove
  <2> HIDE DEF l
  <2>3. /\ r \in TimeState /\ r.k = u.k /\ r.tm = u.tm /\ r.alarm = u.alarm /\ r.stop = u.stop
        /\ r.kalarms = l
    BY <2>1 DEF TimeState, ListOf
  <2> HIDE DEF r
  <2> QED BY <2>1, <2>2, <2>3 DEF Taken
<1>2. CASE ~u.alarm[a].active
  <2>1. Unlink(u, a) = u
    BY <1>2 DEF Unlink
  <2>2. ActiveAlarms(u.alarm) \ {a} = ActiveAlarms(u.alarm)
    BY <1>2 DEF ActiveAlarms
  <2> QED BY <2>1, <2>2 DEF Taken
<1> QED BY <1>1, <1>2

\* The descriptor of the alarm a is x, nothing else has changed.
WithAlarm(u, a, x, r) ==
  /\ r \in TimeState /\ r.k = u.k /\ r.tm = u.tm /\ r.kalarms = u.kalarms /\ r.stop = u.stop
  /\ r.alarm[a] = x /\ \A b \in AlarmAddr \ {a} : r.alarm[b] = u.alarm[b]

LEMMA SetAlarm ==
  ASSUME NEW u \in TimeState, NEW a \in AlarmAddr, NEW x \in KAlarm
  PROVE  WithAlarm(u, a, x, [u EXCEPT !.alarm[a] = x])
<1> DEFINE al2 == [u.alarm EXCEPT ![a] = x]
           r   == [u EXCEPT !.alarm = al2]
<1>1. u.alarm \in [AlarmAddr -> KAlarm]
  BY StateFields
<1>2. /\ al2 \in [AlarmAddr -> KAlarm] /\ al2[a] = x
      /\ \A b \in AlarmAddr \ {a} : al2[b] = u.alarm[b]
  BY <1>1
<1> HIDE DEF al2
<1>3. /\ r \in TimeState /\ r.k = u.k /\ r.tm = u.tm /\ r.kalarms = u.kalarms
      /\ r.stop = u.stop /\ r.alarm = al2
  BY <1>2 DEF TimeState
<1>4. [u EXCEPT !.alarm[a] = x] = r
  BY DEF al2
<1> HIDE DEF r
<1> QED BY <1>2, <1>3, <1>4 DEF WithAlarm

\* Whoever sleeps has an alarm other than a.
NobodysAlarm(a, sl) == \A t \in Desc : sl[t] # NoDelay => sl[t].alarm # a

\* The alarm a gets the parameters x, when it is not in the list.
LEMMA NewParams ==
  ASSUME NEW e, NEW sl, Core(e, sl), NEW a \in AlarmAddr, NobodysAlarm(a, sl),
         NEW u, Taken(e, a, u), NEW x, NEW r, WithAlarm(u, a, x, r)
  PROVE  Unlinked(r, a, sl)
<1>1. ActiveAlarms(r.alarm) \ {a} = ActiveAlarms(e.alarm) \ {a}
  BY DEF ActiveAlarms, WithAlarm, Taken
<1>2. \A b \in ActiveAlarms(e.alarm) \ {a} : r.alarm[b].exp_time = e.alarm[b].exp_time
  BY DEF ActiveAlarms, WithAlarm, Taken
<1>3. ListOf(r.kalarms, r.alarm, ActiveAlarms(r.alarm) \ {a})
  BY <1>1, <1>2, ListSame DEF WithAlarm, Taken
<1>4. DelaysOK(r.k, r.alarm, sl)
  BY DEF Core, DelaysOK, DelayOK, NobodysAlarm, WithAlarm, Taken
<1> QED BY <1>3, <1>4 DEF Unlinked, Core, OwnersOK, WaitersOK, WithAlarm, Taken

(***************************************************************************)
(* The kernel when a call starts: the counter may have expired.            *)
(***************************************************************************)
AInv == Core(s, sleeping) /\ (Stopped(s) \/ (TimerOK(s.tm) /\ TimerIsFor(s)))

Entered(e) ==
  /\ Core(e, sleeping) /\ TimerOK(e.tm) /\ TimerIsFor(e) /\ ~Stopped(e)
  /\ e.k = s.k /\ e.kalarms = s.kalarms /\ e.alarm = s.alarm

LEMMA EntryOK ==
  ASSUME AInv, ~Stopped(s)
  PROVE  /\ Entered(s) /\ \A e \in AtEntry : Entered(e)
         /\ Entered([s EXCEPT !.tm = CountDown(@)])
<1>1. Core(s, sleeping) /\ TimerOK(s.tm) /\ TimerIsFor(s) /\ s \in TimeState
  BY DEF AInv, Core
<1>2. Entered(s)
  BY <1>1 DEF Entered
<1> DEFINE tm2 == CountDown(s.tm)
           e2  == [s EXCEPT !.tm = tm2]
<1>3. /\ TimerOK(tm2) /\ tm2.clock = s.tm.clock /\ tm2.delay = s.tm.delay
      /\ tm2.handler = s.tm.handler /\ tm2.asserted = s.tm.asserted
  BY <1>1, TimerCounts
<1> HIDE DEF tm2
<1>4. /\ e2 \in TimeState /\ e2.k = s.k /\ e2.tm = tm2 /\ e2.kalarms = s.kalarms
      /\ e2.alarm = s.alarm /\ e2.stop = s.stop
  BY <1>1, <1>3 DEF TimeState, TimerOK
<1> HIDE DEF e2
<1>5. Entered(e2)
  BY <1>1, <1>3, <1>4, CoreSame DEF Entered, TimerIsFor, Stopped
<1>6. \A e \in AtEntry : e = s \/ e = e2
  BY DEF AtEntry, e2, tm2
<1> QED BY <1>2, <1>5, <1>6 DEF e2, tm2

(***************************************************************************)
(* Times as programs give them.                                            *)
(***************************************************************************)
LEMMA NormalTime ==
  ASSUME NEW v \in Nat
  PROVE  /\ Normal(v) \in Time /\ Value(Normal(v)) = v
         /\ v > 0 => Normal(v).sec + Normal(v).nsec > 0
<1> DEFINE q == v \div NSEC
           m == v % NSEC
<1>1. NSEC \in Nat \ {0} /\ NSEC \in Nat /\ NSEC > 1
  BY NSECAssumption
<1>2. q \in Nat /\ m \in 0 .. NSEC - 1 /\ v = q * NSEC + m
  BY <1>1
<1>3. q * NSEC \in Nat /\ (q = 0 => q * NSEC = 0)
  BY <1>1, <1>2
<1>4. Normal(v) = T(q, m)
  BY DEF Normal
<1> HIDE DEF q, m
<1>5. T(q, m) \in Time /\ T(q, m).sec = q /\ T(q, m).nsec = m
  BY <1>1, <1>2, MakeTime
<1>6. Value(Normal(v)) = v
  BY <1>2, <1>4, <1>5 DEF Value
<1>7. v > 0 => q + m > 0
  BY <1>2, <1>3
<1> QED BY <1>4, <1>5, <1>6, <1>7

LEMMA ZeroIsTime == ZeroTime \in Time
BY MakeTime, NSECAssumption DEF ZeroTime

\* What programs set alarms to.
LEMMA ParamsOK ==
  ASSUME NEW now \in Time, Value(now) \in Nat, Self \in Desc, NEW x \in AlarmParams(now)
  PROVE  /\ x \in KAlarm /\ x.magic /\ x.thread = Self /\ x.action \in {"none", "thread"}
         /\ x.exp_time # ZeroTime => x.exp_time.sec + x.exp_time.nsec > 0
<1>1. PICK exp \in {ZeroTime} \cup {Normal(Value(now) + d) : d \in Delays}, kind \in Kinds :
        x = [exp_time |-> exp, period |-> Normal(kind[1]), periodic |-> kind[1] > 0,
             wait |-> kind[2], action |-> kind[3], param |-> NULL,
             active |-> FALSE, thread |-> Self, magic |-> TRUE]
  BY DEF AlarmParams
<1>2. kind[1] \in Nat /\ kind[2] \in BOOLEAN /\ kind[3] \in {"none", "thread"}
  BY AlarmsAssumption
<1>3. exp \in Time /\ (exp # ZeroTime => exp.sec + exp.nsec > 0)
  <2>1. CASE exp = ZeroTime
    BY <2>1, ZeroIsTime
  <2>2. CASE exp # ZeroTime
    <3>1. PICK d \in Delays : exp = Normal(Value(now) + d)
      BY <2>2
    <3>2. Value(now) + d \in Nat /\ Value(now) + d > 0
      BY AlarmsAssumption
    <3> QED BY <3>1, <3>2, NormalTime
  <2> QED BY <2>1, <2>2
<1>4. Normal(kind[1]) \in Time
  BY <1>2, NormalTime
<1>5. x \in KAlarm
  BY <1>1, <1>2, <1>3, <1>4 DEF KAlarm, Action
<1> QED BY <1>1, <1>2, <1>3, <1>5

(***************************************************************************)
(* k_alarm_new, k_alarm_set and k_alarm_remove.                            *)
(***************************************************************************)
\* Only the active thread may begin to sleep, with the alarm a, in the call.
SleepsWith(u, sl, sl2, a, x) ==
  LET t == u.k.active_thread
  IN  /\ sl2 \in SleepType /\ \A v \in Desc \ {t} : sl2[v] = sl[v]
      /\ sl2[t] # NoDelay =>
           sl2[t].alarm = a /\ ~x.periodic /\ Value(x.exp_time) = sl2[t].until

LEMMA NewOK ==
  ASSUME NEW e, NEW sl, Core(e, sl), TimerOK(e.tm), e.k.active_thread # Idle,
         NEW a \in FreeAlarm(e), NEW x \in KAlarm, x.magic, x.thread = e.k.active_thread,
         x.action \in {"none", "thread"}, NEW sl2, SleepsWith(e, sl, sl2, a, x)
  PROVE  CallDone(e, k_alarm_new(e, a, x), sl2)
<1> DEFINE t == e.k.active_thread
           u == [e EXCEPT !.alarm[a] = x]
<1>1. /\ a \in AlarmAddr /\ ~e.alarm[a].magic /\ a \in WaitQueue
      /\ e \in TimeState /\ e.k \in KState /\ Runs(e.k) /\ t \in Desc
      /\ t \in e.k.all_threads /\ e.k.state[t] = ACTIVE
      /\ ListOf(e.kalarms, e.alarm, ActiveAlarms(e.alarm))
  BY CoreFacts, KAlarmsAssumption DEF FreeAlarm, Core
<1>2. \A v \in Desc : ~InQueue(e.k, v, a)
  BY <1>1 DEF Core, WaitersOK
<1>3. Allocated(e, a, x) = u
  <2>1. e.k.q[wait_q(a)] = <<>>
    BY <1>1, <1>2, WaitQueueType
  <2>2. e.k.q \in [Queue -> Seq(Desc)]
    BY <1>1 DEF KState
  <2>3. [e.k.q EXCEPT ![wait_q(a)] = <<>>] = e.k.q
    BY <2>1, <2>2
  <2>4. [e.k EXCEPT !.q[wait_q(a)] = <<>>] = e.k
    BY <1>1, <2>3 DEF KState
  <2>5. [e EXCEPT !.alarm[a] = x, !.k = e.k] = u
    BY <1>1 DEF TimeState
  <2> QED BY <2>4, <2>5 DEF Allocated
<1>4. WithAlarm(e, a, x, u)
  BY <1>1, SetAlarm
<1> HIDE DEF u
<1>5. Taken(e, a, e)
  <2>1. ActiveAlarms(e.alarm) \ {a} = ActiveAlarms(e.alarm)
    BY <1>1 DEF ActiveAlarms
  <2> QED BY <1>1, <2>1 DEF Taken
<1> DEFINE sl0 == [sl EXCEPT ![t] = NoDelay]
<1>6. /\ sl0 \in SleepType /\ sl0[t] = NoDelay
      /\ \A v \in Desc \ {t} : sl0[v] = sl[v]
  BY <1>1 DEF SleepType, NoDelay, Core
<1> HIDE DEF sl0, t
<1>7. Core(e, sl0) /\ NobodysAlarm(a, sl0)
  BY <1>1, <1>6 DEF Core, DelaysOK, DelayOK, NobodysAlarm
<1>8. Unlinked(u, a, sl0)
  BY <1>1, <1>4, <1>5, <1>7, NewParams
<1>9. Awake(e.k, t)
  BY <1>1, AwakeStates
<1>10. u.k = e.k /\ u.tm = e.tm /\ u.alarm[a] = x /\ u \in TimeState
  BY <1>4 DEF WithAlarm
<1>11. DelaysOK(u.k, u.alarm, sl2)
  <2> SUFFICES ASSUME NEW v \in Desc, sl2[v] # NoDelay
               PROVE  DelayOK(u.k, u.alarm, sl2[v], v)
    BY DEF DelaysOK
  <2>1. CASE v = t
    BY <1>1, <1>9, <1>10, <2>1 DEF DelayOK, SleepsWith, t
  <2>2. CASE v # t
    <3>1. sl2[v] = sl0[v]
      BY <1>6, <2>2 DEF SleepsWith, t
    <3> QED BY <1>8, <3>1 DEF Unlinked, DelaysOK
  <2> QED BY <2>1, <2>2
<1>12. Unlinked(u, a, sl2)
  BY <1>8, <1>11 DEF Unlinked, SleepsWith
<1>13. Complete(u, a)
  BY <1>1, <1>2, <1>10 DEF Complete, t
<1>14. sl2[t] # NoDelay => sl2[t].alarm = a
  BY DEF SleepsWith, t
<1>15. CallDone(u, k_alarm_add(u, a), sl2)
  BY <1>1, <1>10, <1>12, <1>13, <1>14, AddOK DEF t
<1>16. k_alarm_new(e, a, x) = k_alarm_add(u, a)
  BY <1>3 DEF k_alarm_new
<1> QED BY <1>10, <1>15, <1>16 DEF CallDone

LEMMA SetOK ==
  ASSUME NEW e, NEW sl, Core(e, sl), TimerOK(e.tm), TimerIsFor(e), e.k.active_thread # Idle,
         sl[e.k.active_thread] = NoDelay, NEW a \in AlarmAddr, e.alarm[a].magic,
         e.alarm[a].thread # NULL, NobodysAlarm(a, sl),
         NEW x \in KAlarm, x.magic, x.action \in {"none", "thread"},
         e.k.q[wait_q(a)] # <<>> => x.exp_time.sec + x.exp_time.nsec > 0,
         x.wait => e.alarm[a].thread = e.k.active_thread
  PROVE  CallDone(e, k_alarm_set(e, a, x), sl)
<1> DEFINE y == [x EXCEPT !.active = e.alarm[a].active, !.thread = e.alarm[a].thread]
<1>1. /\ e \in TimeState /\ e.alarm \in [AlarmAddr -> KAlarm] /\ e.alarm[a] \in KAlarm
      /\ e.k \in KState /\ ListOf(e.kalarms, e.alarm, ActiveAlarms(e.alarm))
      /\ a # NULL /\ a \in WaitQueue
  BY CoreFacts, KAlarmsAssumption DEF Core
<1>2. /\ y \in KAlarm /\ y.magic /\ y.action = x.action /\ y.exp_time = x.exp_time
      /\ y.wait = x.wait /\ y.active = e.alarm[a].active /\ y.thread = e.alarm[a].thread
  BY <1>1 DEF KAlarm
<1>3. y.thread \in Desc
  BY <1>1, <1>2, AlarmFields
<1>4. \A v \in Desc : InQueue(e.k, v, a) => y.exp_time.sec + y.exp_time.nsec > 0
  BY <1>1, <1>2, WaitQueueType
<1>5. Known(e, a)
  BY <1>1 DEF Known
<1>6. CASE TimeChanges(e, a, x)
  <2> DEFINE u == Unlink(e, a)
             r == WithParams(u, a, x)
  <2>1. k_alarm_set(e, a, x) = k_alarm_add(r, a)
    BY <1>5, <1>6 DEF k_alarm_set
  <2>2. Taken(e, a, u)
    BY <1>1, UnlinkOK
  <2> HIDE DEF u
  <2>3. u \in TimeState /\ u.alarm = e.alarm /\ u.k = e.k /\ u.tm = e.tm
    BY <2>2 DEF Taken
  <2>4. r = [u EXCEPT !.alarm[a] = y]
    BY <2>3 DEF WithParams
  <2> HIDE DEF y, r
  <2>5. WithAlarm(u, a, y, r)
    BY <1>2, <2>3, <2>4, SetAlarm
  <2>6. Unlinked(r, a, sl)
    BY <2>2, <2>5, NewParams
  <2>7. r.k = e.k /\ r.tm = e.tm /\ r.alarm[a] = y
    BY <2>3, <2>5 DEF WithAlarm
  <2>8. Complete(r, a)
    BY <1>2, <1>3, <1>4, <2>7 DEF Complete
  <2>9. CallDone(r, k_alarm_add(r, a), sl)
    BY <1>2, <2>6, <2>7, <2>8, AddOK
  <2> QED BY <2>1, <2>7, <2>9 DEF CallDone
<1>7. CASE ~TimeChanges(e, a, x)
  <2> DEFINE r == WithParams(e, a, x)
  <2>1. k_alarm_set(e, a, x) = r
    BY <1>5, <1>7 DEF k_alarm_set
  <2>2. r = [e EXCEPT !.alarm[a] = y]
    BY DEF WithParams
  <2> HIDE DEF y, r
  <2>3. WithAlarm(e, a, y, r)
    BY <1>1, <1>2, <2>2, SetAlarm
  <2>4. /\ r \in TimeState /\ r.k = e.k /\ r.tm = e.tm /\ r.kalarms = e.kalarms
        /\ r.stop = e.stop
    BY <2>3 DEF WithAlarm
  <2>5. x.exp_time = e.alarm[a].exp_time
    <3>1. x.exp_time \in Time /\ e.alarm[a].exp_time \in Time
      BY <1>1, AlarmFields
    <3> QED BY <1>7, <3>1, CmpPairs DEF TimeChanges
  <2>6. \A b \in AlarmAddr : /\ r.alarm[b].exp_time = e.alarm[b].exp_time
                             /\ r.alarm[b].active = e.alarm[b].active
                             /\ r.alarm[b].magic = e.alarm[b].magic
    <3>1. y.magic = e.alarm[a].magic
      BY <1>1, <1>2, AlarmFields
    <3>2. y.exp_time = e.alarm[a].exp_time /\ y.active = e.alarm[a].active
      BY <1>2, <2>5
    <3> QED BY <2>3, <3>1, <3>2 DEF WithAlarm
  <2>7. ActiveAlarms(r.alarm) = ActiveAlarms(e.alarm)
    BY <2>6 DEF ActiveAlarms
  <2>8. ListOf(r.kalarms, r.alarm, ActiveAlarms(r.alarm))
    <3> DEFINE A == ActiveAlarms(e.alarm)
    <3>1. \A b \in A : r.alarm[b].exp_time = e.alarm[b].exp_time
      BY <2>6 DEF ActiveAlarms
    <3> HIDE DEF A
    <3>2. ListOf(e.kalarms, r.alarm, A)
      BY <1>1, <3>1, ListSame DEF A
    <3> QED BY <2>4, <2>7, <3>2 DEF A
  <2>9. OwnersOK(r.alarm)
    BY <1>2, <1>3, <2>3 DEF OwnersOK, WithAlarm, Core
  <2>10. WaitersOK(r.k, r.alarm)
    BY <2>4, <2>6 DEF WaitersOK, Core
  <2>11. DelaysOK(r.k, r.alarm, sl)
    BY <2>3 DEF Core, DelaysOK, DelayOK, NobodysAlarm, WithAlarm
  <2>12. Core(r, sl)
    BY <2>4, <2>8, <2>9, <2>10, <2>11 DEF Core
  <2>13. TimerIsFor(r)
    <3>1. e.kalarms # <<>> => Head(e.kalarms) \in AlarmAddr
      BY <1>1 DEF ListOf
    <3> QED BY <2>4, <2>6, <3>1 DEF TimerIsFor
  <2> QED BY <2>1, <2>4, <2>12, <2>13 DEF CallDone, Slept
<1> QED BY <1>6, <1>7

LEMMA RemoveAlarmOK ==
  ASSUME NEW e, NEW sl, Core(e, sl), TimerOK(e.tm), NEW a \in AlarmAddr, e.alarm[a].magic,
         NobodysAlarm(a, sl)
  PROVE  CallDone(e, k_alarm_remove(e, a), sl)
<1> DEFINE u == Unlink(e, a)
           w == [u EXCEPT !.alarm[a] = FreedAlarm]
           r == ReleaseAll(w, wait_q(a))
           resched == e.k.q[wait_q(a)] # <<>>
<1>1. /\ e \in TimeState /\ ListOf(e.kalarms, e.alarm, ActiveAlarms(e.alarm)) /\ a # NULL
      /\ AlarmAddr \subseteq WaitQueue
  BY KAlarmsAssumption DEF Core
<1>2. k_alarm_remove(e, a) = Settle(r, TRUE, NULL, resched)
  BY <1>1 DEF k_alarm_remove, Known, Deallocated
<1>3. Taken(e, a, u)
  BY <1>1, UnlinkOK
<1> HIDE DEF u, resched
<1>4. u \in TimeState /\ u.alarm = e.alarm /\ u.k = e.k /\ u.tm = e.tm
  BY <1>3 DEF Taken
<1>5. FreedAlarm \in KAlarm /\ ~FreedAlarm.magic /\ ~FreedAlarm.active
  BY ZeroIsTime DEF FreedAlarm, KAlarm, Action
<1>6. WithAlarm(u, a, FreedAlarm, w)
  BY <1>4, <1>5, SetAlarm
<1> HIDE DEF w
<1>7. Unlinked(w, a, sl)
  BY <1>3, <1>6, NewParams
<1>8. w \in TimeState /\ w.k = e.k /\ w.tm = e.tm /\ w.alarm[a] = FreedAlarm /\ Good(w.k)
  BY <1>4, <1>6, <1>7 DEF WithAlarm, Unlinked
<1>9. ReleasedFrom(w, a, r)
  BY <1>8, ReleaseAllIn
<1> HIDE DEF r
<1>10. /\ r \in TimeState /\ Good(r.k) /\ r.tm = e.tm /\ r.alarm = w.alarm
       /\ r.kalarms = w.kalarms
       /\ r.k.active_thread = e.k.active_thread /\ r.k.all_threads = e.k.all_threads
       /\ \A v \in Desc : r.k.state[v] = IF InQueue(e.k, v, a) THEN READY ELSE e.k.state[v]
       /\ \A x \in AlarmAddr : \A v \in Desc : InQueue(r.k, v, x) <=> InQueue(e.k, v, x) /\ x # a
  BY <1>8, <1>9 DEF ReleasedFrom
<1>11. Runs(r.k)
  BY <1>10, CoreFacts DEF Runs
<1>12. ActiveAlarms(w.alarm) \ {a} = ActiveAlarms(w.alarm)
  BY <1>5, <1>8 DEF ActiveAlarms
<1>13. ListOf(r.kalarms, r.alarm, ActiveAlarms(r.alarm))
  BY <1>7, <1>10, <1>12 DEF Unlinked
<1>14. OwnersOK(r.alarm) /\ WaitersOK(r.k, r.alarm)
  BY <1>5, <1>7, <1>8, <1>10 DEF OwnersOK, WaitersOK, Unlinked
<1>15. DelaysOK(r.k, r.alarm, sl)
  <2> SUFFICES ASSUME NEW v \in Desc, sl[v] # NoDelay
               PROVE  DelayOK(r.k, r.alarm, sl[v], v)
    BY DEF DelaysOK
  <2>1. DelayOK(w.k, w.alarm, sl[v], v) /\ sl[v].alarm # a
    BY <1>7 DEF Unlinked, DelaysOK, NobodysAlarm
  <2>2. Awake(r.k, v) \/ InQueue(r.k, v, sl[v].alarm)
    BY <1>8, <1>10, <2>1 DEF DelayOK, Awake
  <2> QED BY <1>8, <1>10, <2>1, <2>2 DEF DelayOK
<1>16. Core(r, sl)
  BY <1>10, <1>11, <1>13, <1>14, <1>15 DEF Core
<1> DEFINE z == Settle(r, TRUE, NULL, resched)
<1>17. CallDone(r, z, sl)
  <2>1. MayBlock(r, NULL, sl)
    BY DEF MayBlock
  <2> QED BY <1>10, <1>16, <2>1, SettleOK
<1> HIDE DEF z
<1>18. \A t \in Desc : sl[t] # NoDelay /\ InQueue(e.k, t, sl[t].alarm) =>
                         InQueue(r.k, t, sl[t].alarm)
  BY <1>10 DEF NobodysAlarm, Core, DelaysOK, DelayOK
<1> QED BY <1>2, <1>17, <1>18 DEF CallDone, Slept, z

-----------------------------------------------------------------------------
(***************************************************************************)
(* The actions: each keeps the invariant, and releases nobody from a       *)
(* delay before its time.                                                  *)
(***************************************************************************)
SleptOn == Slept(s.k, s'.k, sleeping, Value(Now(s')) + Value(threshold))

LEMMA StepFrom ==
  ASSUME NEW e, e.k = s.k, CallDone(e, s', sleeping'),
         \A t \in Desc : sleeping[t] # NoDelay /\ InQueue(s.k, t, sleeping[t].alarm) =>
                           sleeping'[t] = sleeping[t]
  PROVE  AInv' /\ SleptOn
<1>1. AInv'
  BY DEF CallDone, AInv
<1>2. SleptOn
  BY DEF CallDone, SleptOn, Slept
<1> QED BY <1>1, <1>2

LEMMA CallFacts ==
  ASSUME AInv, UserMode
  PROVE  /\ ~Stopped(s) /\ Core(s, sleeping) /\ TimerOK(s.tm) /\ TimerIsFor(s)
         /\ Self \in Desc /\ Now(s) \in Time /\ Value(Now(s)) \in Nat
         /\ \A a \in AlarmAddr : ~InQueue(s.k, Self, a)
<1>1. ~Stopped(s) /\ Core(s, sleeping) /\ TimerOK(s.tm) /\ TimerIsFor(s)
  BY DEF UserMode, AInv
<1>2. Now(s) \in Time /\ Value(Now(s)) \in Nat
  BY <1>1, TimeBounds DEF Now
<1> QED BY <1>1, <1>2, CoreFacts DEF Self

LEMMA AlarmNewStep ==
  ASSUME AInv, sys__alarm_new
  PROVE  AInv' /\ SleptOn
<1>1. /\ UserMode /\ Self # Idle /\ sleeping[Self] = NoDelay /\ sleeping' = sleeping
  BY DEF sys__alarm_new, FreeToCall, UserCall
<1>2. PICK e \in AtEntry : FreeAlarm(s) # {} /\
        \E params \in AlarmParams(Now(s)) : s' = k_alarm_new(e, NewAlarm(e), params)
  BY DEF sys__alarm_new
<1>3. PICK params \in AlarmParams(Now(s)) : s' = k_alarm_new(e, NewAlarm(e), params)
  BY <1>2
<1>4. /\ ~Stopped(s) /\ Self \in Desc /\ Now(s) \in Time /\ Value(Now(s)) \in Nat
  BY <1>1, CallFacts
<1>5. Entered(e)
  BY <1>4, EntryOK
<1>6. /\ params \in KAlarm /\ params.magic /\ params.thread = Self
      /\ params.action \in {"none", "thread"}
  BY <1>4, ParamsOK
<1>7. NewAlarm(e) \in FreeAlarm(e)
  BY <1>2, <1>5 DEF NewAlarm, FreeAlarm, Entered
<1>8. SleepsWith(e, sleeping, sleeping', NewAlarm(e), params)
  BY <1>1, <1>5 DEF SleepsWith, Entered, Core, Self
<1>9. CallDone(e, k_alarm_new(e, NewAlarm(e), params), sleeping')
  <2>1. Core(e, sleeping) /\ TimerOK(e.tm) /\ e.k.active_thread = Self
    BY <1>5 DEF Entered, Self
  <2> QED BY <1>1, <1>6, <1>7, <1>8, <2>1, NewOK
<1> QED BY <1>1, <1>3, <1>5, <1>9, StepFrom DEF Entered

LEMMA DelayStep ==
  ASSUME AInv, delay
  PROVE  AInv' /\ SleptOn
<1>1. /\ UserMode /\ Self # Idle /\ sleeping[Self] = NoDelay /\ FreeAlarm(s) # {}
  BY DEF delay, FreeToCall, UserCall
<1>2. PICK e \in AtEntry, d \in Delays :
        LET until  == DelayEnd(Now(s), d)
            params == [FreedAlarm EXCEPT !.exp_time = until, !.wait = TRUE,
                                         !.thread = Self, !.magic = TRUE]
        IN  /\ s' = k_alarm_new(e, NewAlarm(e), params)
            /\ sleeping' = [sleeping EXCEPT ![Self] =
                              [alarm |-> NewAlarm(e), until |-> Value(until)]]
  BY DEF delay
<1> DEFINE until  == DelayEnd(Now(s), d)
           params == [FreedAlarm EXCEPT !.exp_time = until, !.wait = TRUE,
                                        !.thread = Self, !.magic = TRUE]
           a      == NewAlarm(e)
           record == [alarm |-> a, until |-> Value(until)]
<1>3. s' = k_alarm_new(e, a, params) /\ sleeping' = [sleeping EXCEPT ![Self] = record]
  BY <1>2
<1>4. /\ ~Stopped(s) /\ Self \in Desc /\ Now(s) \in Time /\ Value(Now(s)) \in Nat
  BY <1>1, CallFacts
<1>5. Entered(e)
  BY <1>4, EntryOK
<1>6. until \in Time /\ Value(until) \in Nat
  <2>1. d \in Nat
    BY AlarmsAssumption
  <2>2. Normal(d) \in Time /\ Value(Normal(d)) = d
    BY <2>1, NormalTime
  <2> QED BY <1>4, <2>1, <2>2, AddTimes DEF DelayEnd
<1> HIDE DEF until
<1>7. /\ params \in KAlarm /\ params.magic /\ params.thread = Self
      /\ params.action \in {"none", "thread"} /\ ~params.periodic /\ params.exp_time = until
  BY <1>4, <1>6, ZeroIsTime DEF FreedAlarm, KAlarm, Action
<1> HIDE DEF params
<1>8. a \in FreeAlarm(e)
  BY <1>1, <1>5 DEF NewAlarm, FreeAlarm, Entered
<1>9. a \in AlarmAddr
  BY <1>8 DEF FreeAlarm
<1> HIDE DEF a
<1>10. record.alarm = a /\ record.until = Value(until)
       /\ record \in [alarm : AlarmAddr \cup {NULL}, until : Nat]
  BY <1>6, <1>9
<1> HIDE DEF record
<1>11. /\ sleeping' \in SleepType /\ sleeping'[Self] = record
       /\ \A t \in Desc \ {Self} : sleeping'[t] = sleeping[t]
  BY <1>3, <1>4, <1>5, <1>10 DEF SleepType, Entered, Core
<1>12. SleepsWith(e, sleeping, sleeping', a, params)
  BY <1>5, <1>7, <1>10, <1>11 DEF SleepsWith, Entered, Self
<1>13. CallDone(e, k_alarm_new(e, a, params), sleeping')
  <2>1. Core(e, sleeping) /\ TimerOK(e.tm) /\ e.k.active_thread = Self
    BY <1>5 DEF Entered, Self
  <2> QED BY <1>1, <1>7, <1>8, <1>12, <2>1, NewOK
<1> QED BY <1>1, <1>3, <1>5, <1>11, <1>13, StepFrom DEF Entered

LEMMA AlarmSetStep ==
  ASSUME OwnersOnly, AInv, sys__alarm_set
  PROVE  AInv' /\ SleptOn
<1>1. /\ UserMode /\ Self # Idle /\ sleeping[Self] = NoDelay /\ sleeping' = sleeping
  BY DEF sys__alarm_set, FreeToCall, UserCall
<1>2. PICK a \in UserAlarm, e \in AtEntry :
        \E params \in AlarmParams(Now(s)) :
          /\ params.exp_time = ZeroTime => s.k.q[wait_q(a)] = <<>>
          /\ OwnersOnly /\ params.wait => s.alarm[a].thread = Self
          /\ s' = k_alarm_set(e, a, params)
  BY DEF sys__alarm_set
<1>3. PICK params \in AlarmParams(Now(s)) :
          /\ params.exp_time = ZeroTime => s.k.q[wait_q(a)] = <<>>
          /\ OwnersOnly /\ params.wait => s.alarm[a].thread = Self
          /\ s' = k_alarm_set(e, a, params)
  BY <1>2
<1>4. /\ ~Stopped(s) /\ Self \in Desc /\ Now(s) \in Time /\ Value(Now(s)) \in Nat
  BY <1>1, CallFacts
<1>5. Entered(e)
  BY <1>4, EntryOK
<1>6. /\ params \in KAlarm /\ params.magic /\ params.action \in {"none", "thread"}
      /\ params.exp_time # ZeroTime => params.exp_time.sec + params.exp_time.nsec > 0
  BY <1>4, ParamsOK
<1>7. /\ a \in AlarmAddr /\ s.alarm[a].magic /\ s.alarm[a].thread # NULL
      /\ NobodysAlarm(a, sleeping)
  BY DEF UserAlarm, NobodysAlarm
<1>8. CallDone(e, k_alarm_set(e, a, params), sleeping)
  <2>1. /\ Core(e, sleeping) /\ TimerOK(e.tm) /\ TimerIsFor(e) /\ e.k = s.k
        /\ e.alarm = s.alarm /\ e.k.active_thread = Self
    BY <1>5 DEF Entered, Self
  <2>2. e.k.q[wait_q(a)] # <<>> => params.exp_time.sec + params.exp_time.nsec > 0
    BY <1>3, <1>6, <2>1
  <2>3. params.wait => e.alarm[a].thread = Self
    BY <1>3, <2>1
  <2>4. e.alarm[a].magic /\ e.alarm[a].thread # NULL
    BY <1>7, <2>1
  <2> QED BY <1>1, <1>6, <1>7, <2>1, <2>2, <2>3, <2>4, SetOK
<1> QED BY <1>1, <1>3, <1>5, <1>8, StepFrom DEF Entered

LEMMA AlarmRemoveStep ==
  ASSUME AInv, sys__alarm_remove
  PROVE  AInv' /\ SleptOn
<1>1. UserMode /\ sleeping' = sleeping
  BY DEF sys__alarm_remove, FreeToCall, UserCall
<1>2. PICK a \in UserAlarm, e \in AtEntry : s' = k_alarm_remove(e, a)
  BY DEF sys__alarm_remove
<1>3. Entered(e)
  BY <1>1, CallFacts, EntryOK
<1>4. a \in AlarmAddr /\ s.alarm[a].magic /\ NobodysAlarm(a, sleeping)
  BY DEF UserAlarm, NobodysAlarm
<1>5. CallDone(e, k_alarm_remove(e, a), sleeping)
  BY <1>3, <1>4, RemoveAlarmOK DEF Entered
<1> QED BY <1>1, <1>2, <1>3, <1>5, StepFrom DEF Entered

LEMMA DelayReturnsStep ==
  ASSUME AInv, delay_until_returns
  PROVE  AInv' /\ SleptOn
<1>1. /\ UserMode /\ sleeping[Self] # NoDelay
      /\ sleeping' = [sleeping EXCEPT ![Self] = NoDelay]
  BY DEF delay_until_returns, UserCall
<1> DEFINE a == sleeping[Self].alarm
<1>2. PICK e \in AtEntry : s' = k_alarm_remove(e, a)
  BY DEF delay_until_returns
<1>3. /\ ~Stopped(s) /\ Core(s, sleeping) /\ Self \in Desc
      /\ \A b \in AlarmAddr : ~InQueue(s.k, Self, b)
  BY <1>1, CallFacts
<1>4. Entered(e)
  BY <1>3, EntryOK
<1>5. a \in AlarmAddr /\ s.alarm[a].magic /\ s.alarm[a].thread = Self
  BY <1>1, <1>3 DEF Core, DelaysOK, DelayOK
<1>6. /\ sleeping' \in SleepType /\ sleeping'[Self] = NoDelay
      /\ \A t \in Desc \ {Self} : sleeping'[t] = sleeping[t]
  BY <1>1, <1>3 DEF Core, SleepType, NoDelay
<1> HIDE DEF a
<1>7. NobodysAlarm(a, sleeping')
  BY <1>3, <1>5, <1>6 DEF NobodysAlarm, Core, DelaysOK, DelayOK
<1>8. Core(e, sleeping')
  BY <1>4, <1>6 DEF Entered, Core, DelaysOK
<1>9. CallDone(e, k_alarm_remove(e, a), sleeping')
  BY <1>4, <1>5, <1>7, <1>8, RemoveAlarmOK DEF Entered
<1>10. ASSUME NEW t \in Desc, sleeping[t] # NoDelay, InQueue(s.k, t, sleeping[t].alarm)
       PROVE  sleeping'[t] = sleeping[t]
  <2>1. sleeping[t].alarm \in AlarmAddr
    BY <1>3, <1>10 DEF Core, DelaysOK, DelayOK
  <2> QED BY <1>3, <1>6, <1>10, <2>1
<1> QED BY <1>2, <1>4, <1>9, <1>10, StepFrom DEF Entered

LEMMA WaitStep ==
  ASSUME AInv, sys__wait_for_alarm
  PROVE  AInv' /\ SleptOn
<1>1. /\ UserMode /\ Self # Idle /\ sleeping[Self] = NoDelay /\ sleeping' = sleeping
  BY DEF sys__wait_for_alarm, FreeToCall, UserCall
<1>2. PICK a \in UserAlarm :
        s.alarm[a].active /\ s' = Schedule(Enqueue(s, Self, wait_q(a)))
  BY DEF sys__wait_for_alarm
<1>3. /\ ~Stopped(s) /\ Core(s, sleeping) /\ TimerOK(s.tm) /\ TimerIsFor(s)
  BY <1>1, CallFacts
<1>4. a \in AlarmAddr /\ s.alarm[a].magic
  BY DEF UserAlarm
<1>5. Core(s', sleeping) /\ SameAlarms(s, s') /\ StayIn(s.k, s'.k)
  BY <1>1, <1>2, <1>3, <1>4, WaitsFor DEF Self
<1>6. CallDone(s, s, sleeping)
  BY <1>3 DEF CallDone, Slept
<1>7. CallDone(s, s', sleeping)
  BY <1>3, <1>5, <1>6, DoneAndStay
<1> QED BY <1>1, <1>7, StepFrom

LEMMA NothingStep ==
  ASSUME AInv, UNCHANGED vars
  PROVE  AInv' /\ SleptOn
BY DEF vars, AInv, SleptOn, Slept

LEMMA TickStep ==
  ASSUME AInv, Tick
  PROVE  AInv' /\ SleptOn
<1>1. UserMode /\ s' = [s EXCEPT !.tm = CountDown(@)] /\ sleeping' = sleeping
  BY DEF Tick
<1>2. Entered(s')
  BY <1>1, CallFacts, EntryOK
<1> QED BY <1>1, <1>2 DEF Entered, AInv, SleptOn, Slept

LEMMA ThreadExitStep ==
  ASSUME AInv, sys__thread_exit
  PROVE  AInv' /\ SleptOn
<1>1. /\ UserMode /\ Self # Idle /\ sleeping[Self] = NoDelay /\ sleeping' = sleeping
  BY DEF sys__thread_exit, FreeToCall, UserCall
<1>2. PICK e \in AtEntry : s' = [e EXCEPT !.k = kthread_cancel(@, Self, 0)]
  BY DEF sys__thread_exit
<1>3. ~Stopped(s) /\ Self \in Desc
  BY <1>1, CallFacts
<1>4. Entered(e)
  BY <1>3, EntryOK
<1> DEFINE k2 == kthread_cancel(e.k, Self, 0)
           r  == [e EXCEPT !.k = k2]
<1>5. Good(e.k) /\ Runs(e.k) /\ e \in TimeState
  BY <1>4 DEF Entered, Core
<1>6. Cancelled(e.k, Self, k2)
  BY <1>1, <1>3, <1>5, CancelOK
<1> HIDE DEF k2
<1>7. Good(k2) /\ Runs(k2) /\ k2 \in KState
  BY <1>5, <1>6 DEF Cancelled, Good, Consistent
<1>8. /\ r \in TimeState /\ r.k = k2 /\ r.tm = e.tm /\ r.kalarms = e.kalarms
      /\ r.alarm = e.alarm /\ r.stop = e.stop
  BY <1>5, <1>7 DEF TimeState
<1>9. s' = r
  BY <1>2 DEF k2
<1> HIDE DEF r
<1>10. /\ \A a \in AlarmAddr : \A v \in Desc : InQueue(k2, v, a) <=> InQueue(e.k, v, a) /\ v # Self
       /\ \A v \in Desc \ {Self} : Awake(e.k, v) => Awake(k2, v)
       /\ \A v \in Desc \ {Self} : v \in e.k.all_threads => v \in k2.all_threads
  <2>1. Frame(e.k, k2, Self)
    BY <1>6 DEF Cancelled
  <2>2. \A w \in WaitQueue : \A v \in Desc : InQueue(k2, v, w) <=> InQueue(e.k, v, w) /\ v # Self
    BY <1>5, <2>1, FrameIn
  <2> QED BY <1>6, <2>1, <2>2, KAlarmsAssumption DEF Cancelled, Frame
<1>11. WaitersOK(k2, e.alarm)
  BY <1>4, <1>10 DEF Entered, Core, WaitersOK
<1>12. DelaysOK(k2, e.alarm, sleeping)
  BY <1>1, <1>4, <1>10 DEF Entered, Core, DelaysOK, DelayOK
<1>13. Core(r, sleeping)
  BY <1>4, <1>7, <1>8, <1>11, <1>12 DEF Core, Entered
<1>14. CallDone(e, r, sleeping)
  <2>1. TimerOK(r.tm) /\ TimerIsFor(r)
    BY <1>4, <1>8 DEF Entered, TimerIsFor
  <2>2. \A v \in Desc : sleeping[v] # NoDelay => v # Self /\ sleeping[v].alarm \in AlarmAddr
    BY <1>1, <1>4 DEF Entered, Core, DelaysOK, DelayOK
  <2> QED BY <1>8, <1>10, <1>13, <2>1, <2>2 DEF CallDone, Slept
<1> QED BY <1>1, <1>4, <1>9, <1>14, StepFrom DEF Entered

LEMMA TimerInterruptStep ==
  ASSUME AInv, TimerInterrupt
  PROVE  AInv' /\ SleptOn
<1> DEFINE tm2 == arch_timer_handler(s.tm)
           u   == [s EXCEPT !.tm = tm2]
           due == ~Stopped(u) /\ TimerExpired(s.tm) /\ s.tm.handler
<1>1. ~Stopped(s) /\ s' = timer_interrupt(s) /\ sleeping' = sleeping
  BY DEF TimerInterrupt
<1>2. s' = IF due THEN Settle(u, TRUE, NULL, FALSE) ELSE u
  BY <1>1 DEF timer_interrupt
<1>3. Core(s, sleeping) /\ TimerOK(s.tm) /\ TimerIsFor(s) /\ s \in TimeState
  BY <1>1 DEF AInv, Core
<1>4. /\ tm2 \in TimerState
      /\ ~tm2.asserted =>
           /\ TimerOK(tm2)
           /\ ~TimerExpired(s.tm) =>
                /\ tm2.handler = s.tm.handler
                /\ Value(tm2.clock) + Value(tm2.delay) = Value(s.tm.clock) + Value(s.tm.delay)
  BY <1>3, TimerHandled
<1> HIDE DEF tm2
<1>5. /\ u \in TimeState /\ u.k = s.k /\ u.tm = tm2 /\ u.kalarms = s.kalarms
      /\ u.alarm = s.alarm /\ u.stop = s.stop
  BY <1>3, <1>4 DEF TimeState
<1> HIDE DEF u
<1>6. Core(u, sleeping)
  BY <1>3, <1>5, CoreSame
<1>7. ~Stopped(u) => TimerOK(u.tm)
  BY <1>4, <1>5 DEF Stopped
<1>8. CASE due
  <2> DEFINE r == Settle(u, TRUE, NULL, FALSE)
  <2>1. MayBlock(u, NULL, sleeping)
    BY DEF MayBlock
  <2>2. CallDone(u, r, sleeping)
    BY <1>6, <1>7, <1>8, <2>1, SettleOK
  <2>3. s' = r
    BY <1>2, <1>8
  <2> HIDE DEF r
  <2> QED BY <1>1, <1>5, <2>2, <2>3, StepFrom
<1>9. CASE ~due
  <2>1. s' = u
    BY <1>2, <1>9
  <2>2. ~Stopped(u) => TimerIsFor(u)
    BY <1>3, <1>4, <1>5, <1>9 DEF TimerIsFor, Stopped
  <2>3. CallDone(u, u, sleeping)
    BY <1>6, <1>7, <2>2 DEF CallDone, Slept
  <2> QED BY <1>1, <1>5, <2>1, <2>3, StepFrom
<1> QED BY <1>8, <1>9

LEMMA AlarmsStep ==
  ASSUME OwnersOnly, AInv, [Next]_vars
  PROVE  AInv' /\ SleptOn
<1>1. CASE sys__alarm_new
  BY <1>1, AlarmNewStep
<1>2. CASE sys__alarm_set
  BY <1>2, AlarmSetStep
<1>3. CASE sys__alarm_remove
  BY <1>3, AlarmRemoveStep
<1>4. CASE sys__wait_for_alarm
  BY <1>4, WaitStep
<1>5. CASE ReadOnlyCall
  BY <1>5, NothingStep DEF ReadOnlyCall
<1>6. CASE delay
  BY <1>6, DelayStep
<1>7. CASE delay_until_returns
  BY <1>7, DelayReturnsStep
<1>8. CASE sys__thread_exit
  BY <1>8, ThreadExitStep
<1>9. CASE Tick
  BY <1>9, TickStep
<1>10. CASE TimerInterrupt
  BY <1>10, TimerInterruptStep
<1>11. CASE UNCHANGED vars
  BY <1>11, NothingStep
<1> QED BY <1>1, <1>2, <1>3, <1>4, <1>5, <1>6, <1>7, <1>8, <1>9, <1>10, <1>11 DEF Next

LEMMA AlarmsInit ==
  ASSUME Init
  PROVE  AInv
<1> DEFINE k == kthread_start_process(kthreads_init, Main, MainProc, MainPrio)
<1>1. /\ s = [k |-> k, tm |-> arch_timer_init, kalarms |-> <<>>, alarm |-> InitialAlarms,
              stop |-> "no"]
      /\ sleeping = [t \in Desc |-> NoDelay]
  BY DEF Init
<1>2. /\ Good(k) /\ Top(k) /\ k \in KState
      /\ \A Q \in BlockedQueue : k.q[Q] = <<>>
  <2>1. /\ Main \in Desc \ kthreads_init.all_threads /\ MainProc \in Proc \ kthreads_init.procs
        /\ MainPrio \in Int /\ kthreads_init.ids.last_id + 1 < MASK_BITS
        /\ Good(kthreads_init)
    BY InitOK, AlarmsAssumption, MaskBitsFact, KThreadAssumption DEF Settled, Prio
  <2>2. Started(kthreads_init, Main, k)
    BY <2>1, StartProcessOK
  <2> QED BY <2>2, InitOK DEF Started, Settled, Good, Consistent
<1> HIDE DEF k
<1>3. Runs(k)
  BY <1>2, TopRuns
<1>4. /\ InitialAlarms \in [AlarmAddr -> KAlarm]
      /\ \A a \in AlarmAddr : ~InitialAlarms[a].active
  <2>1. FreedAlarm \in KAlarm /\ ~FreedAlarm.active /\ KernelAlarm \in KAlarm /\ ~KernelAlarm.active
    BY ZeroIsTime DEF FreedAlarm, KernelAlarm, KAlarm, Action
  <2> QED BY <2>1 DEF InitialAlarms
<1>5. s \in TimeState
  <2>1. arch_timer_init \in TimerState
    BY TimerInit DEF TimerOK
  <2> QED BY <1>1, <1>2, <1>4, <2>1 DEF TimeState, Stop
<1>6. sleeping \in SleepType /\ \A t \in Desc : sleeping[t] = NoDelay
  BY <1>1 DEF SleepType, NoDelay
<1>7. s.k = k /\ s.tm = arch_timer_init /\ s.kalarms = <<>> /\ s.alarm = InitialAlarms
  BY <1>1
<1>8. ActiveAlarms(s.alarm) = {}
  BY <1>4, <1>7 DEF ActiveAlarms
<1>9. ListOf(s.kalarms, s.alarm, {})
  BY <1>7 DEF ListOf, Sorted, NoDup, ToSet
<1>10. \A a \in AlarmAddr : \A v \in Desc : ~InQueue(k, v, a)
  BY <1>2, KAlarmsAssumption, WaitQueueType
<1>11. OwnersOK(s.alarm) /\ WaitersOK(s.k, s.alarm) /\ DelaysOK(s.k, s.alarm, sleeping)
  BY <1>4, <1>6, <1>7, <1>10 DEF OwnersOK, WaitersOK, DelaysOK
<1>12. Core(s, sleeping)
  BY <1>2, <1>3, <1>5, <1>6, <1>7, <1>8, <1>9, <1>11 DEF Core
<1>13. TimerOK(s.tm) /\ TimerIsFor(s)
  BY <1>7, TimerInit DEF TimerIsFor
<1> QED BY <1>12, <1>13 DEF AInv

LEMMA AlarmsInvariant ==
  ASSUME OwnersOnly
  PROVE  Spec => []AInv
<1>1. Init => AInv
  BY AlarmsInit
<1>2. AInv /\ [Next]_vars => AInv'
  BY AlarmsStep
<1> QED BY <1>1, <1>2, PTL DEF Spec

-----------------------------------------------------------------------------
(***************************************************************************)
(* Every state of the kernel that programs bring about by setting alarms   *)
(* and sleeping is one the descriptors can hold (kernel/time.c).  Here and *)
(* below only an alarm's owner sets it again with IPC_WAIT: k_alarm_set    *)
(* called by another thread blocks the owner, which may be in a queue      *)
(* already.                                                                *)
(***************************************************************************)
THEOREM AlarmsTyped ==
  ASSUME OwnersOnly
  PROVE  Spec => []AlarmsTypeOK
<1>1. AInv => AlarmsTypeOK
  BY DEF AInv, Core, SleepType, AlarmsTypeOK
<1> QED BY <1>1, AlarmsInvariant, PTL

(***************************************************************************)
(* The list of active alarms holds each active alarm once, in the order of *)
(* their times, whatever is set, moved, repeated and removed, also by the  *)
(* actions that run while k_schedule_alarms walks it (kernel/time.c).      *)
(***************************************************************************)
THEOREM ListIsExact ==
  ASSUME OwnersOnly
  PROVE  Spec => []AlarmListExact
<1>1. AInv => AlarmListExact
  BY DEF AInv, Core, ListOf, NoDup, Sorted, ActiveAlarms, AlarmListExact
<1> QED BY <1>1, AlarmsInvariant, PTL

(***************************************************************************)
(* The timer is always set for the first alarm: no alarm is overdue by     *)
(* more than the timer cannot resolve, for every counter, also if the      *)
(* delay takes several of its intervals or the counter expires in a call   *)
(* (arch_timer_set, arch_timer_handler, k_schedule_alarms).                *)
(***************************************************************************)
THEOREM NoneOverdue ==
  ASSUME OwnersOnly
  PROVE  Spec => []NoOverdueAlarm
<1>1. AInv => NoOverdueAlarm
  <2> SUFFICES ASSUME AInv, UserMode, NEW a \in ToSet(s.kalarms)
               PROVE  Value(Now(s)) <=
                        Value(s.alarm[a].exp_time) + Value(min_interval) - Value(threshold)
    BY DEF NoOverdueAlarm
  <2> DEFINE h == Head(s.kalarms)
  <2>1. Core(s, sleeping) /\ TimerOK(s.tm) /\ TimerIsFor(s)
    BY CallFacts
  <2>2. s.kalarms # <<>> /\ a \in ActiveAlarms(s.alarm)
    BY <2>1 DEF Core, ListOf, ToSet
  <2>3. /\ h \in ActiveAlarms(s.alarm)
        /\ a = h \/ time_cmp(s.alarm[h].exp_time, s.alarm[a].exp_time) <= 0
    BY <2>1, <2>2, ListTail DEF Core
  <2>4. /\ s.alarm[h].exp_time \in Time /\ s.alarm[a].exp_time \in Time
        /\ Value(s.alarm[h].exp_time) \in Int /\ Value(s.alarm[a].exp_time) \in Int
    BY <2>1, <2>2, <2>3, CoreFacts, AlarmFields, TimeFields DEF ActiveAlarms
  <2>5. Value(s.alarm[h].exp_time) <= Value(s.alarm[a].exp_time)
    BY <2>3, <2>4, CmpValues
  <2>6. Value(s.tm.clock) + Value(s.tm.delay) <=
          Value(s.alarm[h].exp_time) + Value(min_interval) - Value(threshold)
    BY <2>1, <2>2 DEF TimerIsFor
  <2>7. /\ Value(Now(s)) \in Int /\ Value(s.tm.clock) \in Int /\ Value(s.tm.delay) \in Int
        /\ Value(Now(s)) <= Value(s.tm.clock) + Value(s.tm.delay)
    BY <2>1, TimeBounds DEF Now
  <2>8. Value(min_interval) \in Int /\ Value(threshold) \in Int
    BY Intervals
  <2> HIDE DEF h
  <2> QED BY <2>4, <2>5, <2>6, <2>7, <2>8
<1> QED BY <1>1, AlarmsInvariant, PTL

(***************************************************************************)
(* Whoever is blocked on an alarm will be released: the alarm is there and *)
(* active (k_alarm_add and sys__wait_for_alarm with IPC_WAIT, release_all  *)
(* in k_schedule_alarms and k_alarm_remove).                               *)
(***************************************************************************)
THEOREM SleepersAreReleased ==
  ASSUME OwnersOnly
  PROVE  Spec => []SleepersHaveAlarm
<1>1. AInv => SleepersHaveAlarm
  <2> SUFFICES ASSUME AInv, NEW a \in AlarmAddr, s.k.q[wait_q(a)] # <<>>
               PROVE  s.alarm[a].magic /\ s.alarm[a].active
    BY DEF SleepersHaveAlarm
  <2>1. Core(s, sleeping) /\ s.k \in KState /\ a \in WaitQueue
    BY CoreFacts, KAlarmsAssumption DEF AInv
  <2>2. PICK v \in Desc : InQueue(s.k, v, a)
    BY <2>1, WaitQueueType
  <2> QED BY <2>1, <2>2 DEF Core, WaitersOK
<1> QED BY <1>1, AlarmsInvariant, PTL

(***************************************************************************)
(* "Delay thread until given time is reached (passes)" (delay_until,       *)
(* programs/api/time.c): no step makes a thread inside delay_until ready   *)
(* more than the threshold before that time, whatever alarms of other      *)
(* threads expire, move or are removed.                                    *)
(***************************************************************************)
THEOREM NobodyWakesEarly ==
  ASSUME OwnersOnly
  PROVE  Spec => SleepsLongEnough
<1> DEFINE Asleep ==
      \A t \in Desc :
        /\ sleeping[t] # NoDelay /\ s.k.state[t] = WAIT
        /\ s'.k.state[t] # WAIT
        => Value(Now(s')) + Value(threshold) >= sleeping[t].until
<1>1. AInv /\ [Next]_vars => Asleep
  <2> SUFFICES ASSUME AInv, [Next]_vars, NEW t \in Desc, sleeping[t] # NoDelay,
                      s.k.state[t] = WAIT, s'.k.state[t] # WAIT
               PROVE  Value(Now(s')) + Value(threshold) >= sleeping[t].until
    OBVIOUS
  <2> DEFINE a   == sleeping[t].alarm
             lim == Value(Now(s')) + Value(threshold)
  <2>1. Core(s, sleeping) /\ Core(s', sleeping') /\ SleptOn
    BY AlarmsStep DEF AInv
  <2>2. a \in AlarmAddr /\ (Awake(s.k, t) \/ InQueue(s.k, t, a))
    BY <2>1 DEF Core, DelaysOK, DelayOK
  <2>3. InQueue(s.k, t, a)
    BY <2>2, AwakeStates
  <2>4. InQueue(s'.k, t, a) \/ sleeping[t].until <= lim
    BY <2>1, <2>3 DEF SleptOn, Slept
  <2>5. ~InQueue(s'.k, t, a)
    <3>1. Consistent(s'.k) /\ a \in WaitQueue
      BY <2>1, <2>2, CoreFacts, KAlarmsAssumption
    <3> HIDE DEF a
    <3> QED BY <3>1, OneQueue
  <2>6. sleeping[t].until <= lim
    BY <2>4, <2>5
  <2>7. lim \in Int /\ sleeping[t].until \in Int
    <3>1. s'.tm \in TimerState
      BY <2>1 DEF Core, TimeState
    <3>2. Now(s') \in Time
      BY <3>1, NowIsTime DEF Now
    <3>3. sleeping[t].until \in Nat
      BY <2>1 DEF Core, SleepType
    <3> QED BY <3>2, <3>3, TimeFields, Intervals
  <2> HIDE DEF lim, a
  <2>8. lim >= sleeping[t].until
    BY <2>6, <2>7
  <2> QED BY <2>8 DEF lim
<1>2. AInv /\ [Next]_vars => [Asleep]_vars
  BY <1>1
<1> QED BY <1>2, AlarmsInvariant, PTL DEF Spec, SleepsLongEnough, Asleep
=============================================================================
