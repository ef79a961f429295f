----------------------------- MODULE ArchTimer ------------------------------
(***************************************************************************)
(* The hardware timer as the kernel sees it: arch/i386/arch/time.c on the  *)
(* i8253 counter (arch/i386/arch/devices/i8253.c).                         *)
(*                                                                         *)
(* The counter is loaded with a count, counts down by one per tick and, in *)
(* the mode it is programmed for, loads the same count again when it       *)
(* expires and requests an interrupt.  Times are converted to counts and   *)
(* back with truncating divisions.                                         *)
(***************************************************************************)
EXTENDS TimeArith

CONSTANTS
  FREQ,       \* ticks of the counter in a second (I8253_FREQ)
  COUNT_MIN, COUNT_MAX

ASSUME ArchTimerAssumption ==
  /\ FREQ \in Nat \ {0} /\ COUNT_MIN \in Nat \ {0} /\ COUNT_MAX \in Nat
  /\ COUNT_MIN <= COUNT_MAX /\ COUNT_MAX < FREQ

COUNT_TO_TIME(c) == T(0, (c * NSEC) \div FREQ)
TIME_TO_COUNT(t) == (t.nsec * FREQ) \div NSEC

min_interval == COUNT_TO_TIME(COUNT_MIN)
max_interval == COUNT_TO_TIME(COUNT_MAX)
threshold    == HalfTime(min_interval)

TimerState ==
  [cnt       : 0 .. COUNT_MAX,  \* the counter
   pending   : BOOLEAN,         \* it has expired, its interrupt is not handled yet
   clock     : Time,            \* system time at the last load of the counter
   delay     : Time,            \* until the alarm_handler is to be called
   last_load : Time,            \* the time the counter was loaded with
   handler   : BOOLEAN,         \* alarm_handler is set (to k_timer_interrupt)
   asserted  : BOOLEAN]         \* the ASSERT of i8253_set_time_to_counter failed

-----------------------------------------------------------------------------
(***************************************************************************)
(* The device.                                                             *)
(***************************************************************************)
\* i8253_set_time_to_counter: the interval must be one the counter can measure.
set_interval(tm, time) ==
  IF /\ time.sec = 0
     /\ time.nsec <= max_interval.nsec
     /\ time.nsec >= min_interval.nsec
  THEN [tm EXCEPT !.cnt = TIME_TO_COUNT(time)]
  ELSE [tm EXCEPT !.asserted = TRUE]

get_interval_remainder(tm) == COUNT_TO_TIME(tm.cnt)

\* One tick.  Expired, the counter starts again from the count it was loaded with.
CountDown(tm) ==
  IF tm.cnt > 1
  THEN [tm EXCEPT !.cnt = @ - 1]
  ELSE [tm EXCEPT !.cnt = TIME_TO_COUNT(tm.last_load), !.pending = TRUE]

-----------------------------------------------------------------------------
(***************************************************************************)
(* The arch layer.                                                         *)
(***************************************************************************)
arch_timer_init ==
  set_interval(
    [cnt |-> COUNT_MAX, pending |-> FALSE, clock |-> ZeroTime,
     delay |-> max_interval, last_load |-> max_interval,
     handler |-> FALSE, asserted |-> FALSE],
    max_interval)

arch_get_time(tm) ==
  time_add(time_sub(tm.last_load, get_interval_remainder(tm)), tm.clock)

Clamped(time) == IF time_cmp(time, min_interval) < 0 THEN min_interval ELSE time
Loadable(time) == IF time_cmp(time, max_interval) > 0 THEN max_interval ELSE time

\* Program the next call of the alarm handler; the clock takes up what the counter
\* has measured so far.
arch_timer_set(tm, time) ==
  LET elapsed == time_sub(tm.last_load, get_interval_remainder(tm))
      delay   == Clamped(time)
      load    == Loadable(delay)
  IN  set_interval([tm EXCEPT !.clock = time_add(elapsed, tm.clock),
                              !.delay = delay,
                              !.handler = TRUE,
                              !.last_load = load],
                   load)

\* arch_timer_handler up to the call of the kernel's handler: the interval measured
\* is over; the delay may need more than one.
TimerExpired(tm) == time_cmp(time_sub(tm.delay, tm.last_load), threshold) <= 0

\* The interrupt handler, except the kernel's handler, which runs after it if it
\* was set and the delay is over.
arch_timer_handler(tm) ==
  LET clock == time_add(tm.clock, tm.last_load)
      delay == time_sub(tm.delay, tm.last_load)
      load  == IF time_cmp(delay, max_interval) < 0 THEN delay ELSE max_interval
  IN  IF TimerExpired(tm)
      THEN set_interval([tm EXCEPT !.pending = FALSE, !.clock = clock,
                                   !.delay = max_interval,
                                   !.last_load = max_interval,
                                   !.handler = FALSE],
                        max_interval)
      ELSE set_interval([tm EXCEPT !.pending = FALSE, !.clock = clock,
                                   !.delay = delay,
                                   !.last_load = load],
                        load)
=============================================================================
