------------------------------- MODULE Alarms -------------------------------
(***************************************************************************)
(* Programs that use alarms: the alarm system calls of kernel/time.c, the  *)
(* functions of programs/api/time.c around them, and the timer's           *)
(* interrupt.  All threads have the policy SCHED_FIFO.                     *)
(*                                                                         *)
(* A step is a tick of the counter, the timer's interrupt, or one system   *)
(* call.  Interrupts are enabled while threads run, so nothing comes       *)
(* between the expiry of the counter and its interrupt; but the counter    *)
(* may expire while the kernel is in a call, which then runs on a counter  *)
(* that has started again.                                                 *)
(***************************************************************************)
EXTENDS KAlarms

CONSTANTS
  Main, MainProc, MainPrio,  \* the first thread, its process and priority
  Delays,      \* how far ahead programs set alarms, in nanoseconds
  Kinds,       \* what they set: <<period in nanoseconds or 0, IPC_WAIT, action>>
  MaxTime,     \* bound: the clock stops here
  OwnersOnly   \* only the owner of an alarm sets it again with IPC_WAIT

ASSUME AlarmsAssumption ==
  /\ Main \in Desc \ {Idle} /\ MainProc \in Proc \ {KernelProc} /\ MainPrio \in Prio
  /\ Delays \subseteq Nat \ {0}
  /\ Kinds \subseteq Nat \X BOOLEAN \X {"none", "thread"}
  /\ MaxTime \in Nat /\ OwnersOnly \in BOOLEAN
  /\ MASK_BITS > 2

VARIABLES
  s,        \* the kernel
  sleeping  \* sleeping[t]: the alarm of the delay_until t is in, and until when

vars == <<s, sleeping>>

-----------------------------------------------------------------------------
(***************************************************************************)
(* The functions of time.c when every thread has the policy SCHED_FIFO:    *)
(* kthreads_schedule calls no secondary scheduler, and the only actions    *)
(* that run are those of the programs' alarms.                             *)
(***************************************************************************)
RunAction(u, a) ==
  CASE u.alarm[a].action = "none"   -> u
    [] u.alarm[a].action = "thread" -> HandlerThread(u, a)

\* The loop of k_schedule_alarms; a turn does nothing when the loop is over.
Turn(r, ref_time) ==
  LET a == Head(r.s.kalarms)
  IN  IF LoopOver(r, ref_time) THEN r ELSE Released(r, RunAction(Expire(r.s, a), a))

ExpireAlarms(u, ref_time) ==
  LET turn[i \in 0 .. MaxTurns] == IF i = 0 THEN [s |-> u, resched |-> FALSE]
                                   ELSE Turn(turn[i - 1], ref_time)
  IN  turn[MaxTurns]

k_schedule_alarms(u) == LoopEnded(ExpireAlarms(u, ReferenceTime(Now(u))), Now(u))

Schedule(u) == IF Stopped(u) THEN u ELSE [u EXCEPT !.k = kthreads_schedule(@)]

\* What a kernel function ends with, from k_schedule_alarms on.
Finish(r, a, resched) ==
  IF Reschedules(r, a, resched) THEN Schedule(BlockOwner(r.s, a)) ELSE r.s

Settle(u, alarms, a, resched) ==
  Finish(IF alarms THEN k_schedule_alarms(u) ELSE [s |-> u, resched |-> FALSE], a, resched)

k_alarm_add(u, a) == Settle(Armed(u, a), TRUE, a, FALSE)

\* k_alarm_new at the address a.
k_alarm_new(u, a, params) == k_alarm_add(Allocated(u, a, params), a)

k_alarm_set(u, a, params) ==
  IF ~Known(u, a) THEN [u EXCEPT !.stop = "assert"]
  ELSE IF TimeChanges(u, a, params)
  THEN k_alarm_add(WithParams(Unlink(u, a), a, params), a)
  ELSE WithParams(u, a, params)

k_alarm_remove(u, a) ==
  IF ~Known(u, a) THEN [u EXCEPT !.stop = "assert"]
  ELSE Settle(Deallocated(Unlink(u, a), a), TRUE, NULL, u.k.q[wait_q(a)] # <<>>)

\* The timer's interrupt: the arch layer's handler, then k_timer_interrupt if it is
\* set and due.
timer_interrupt(u) ==
  LET u1 == [u EXCEPT !.tm = arch_timer_handler(@)]
  IN  IF ~Stopped(u1) /\ TimerExpired(u.tm) /\ u.tm.handler
      THEN Settle(u1, TRUE, NULL, FALSE)
      ELSE u1

\* What rr_init leaves: an alarm of the kernel, which stays inactive.
KernelAlarm == [FreedAlarm EXCEPT !.action = "rr_timer", !.magic = TRUE]

InitialAlarms ==
  LET rr_alarm == CHOOSE a \in AlarmAddr : TRUE
  IN  [a \in AlarmAddr |-> IF a = rr_alarm THEN KernelAlarm ELSE FreedAlarm]

-----------------------------------------------------------------------------
Self    == s.k.active_thread
NoDelay == [alarm |-> NULL, until |-> 0]

\* k_startup: k_time_init, kthreads_init with ksched_init, and one program.
Init ==
  /\ s = [k       |-> kthread_start_process(kthreads_init, Main, MainProc, MainPrio),
          tm      |-> arch_timer_init,
          kalarms |-> <<>>,
          alarm   |-> InitialAlarms,
          stop    |-> "no"]
  /\ sleeping = [t \in Desc |-> NoDelay]

\* The kernel's state when a call starts: the counter may expire in the call.
AtEntry == {s} \cup IF s.tm.cnt = 1 THEN {[s EXCEPT !.tm = CountDown(@)]} ELSE {}

UserMode == ~Stopped(s) /\ ~s.tm.pending
UserCall == UserMode /\ Self # Idle /\ s.k.proc[Self] \in s.k.procs
FreeToCall == UserCall /\ sleeping[Self] = NoDelay

\* Alarms programs know by their ids: a delay's is known to delay_until only.
UserAlarm ==
  {a \in AlarmAddr : /\ s.alarm[a].magic /\ s.alarm[a].thread # NULL
                     /\ \A t \in Desc : sleeping[t].alarm # a}

\* alarm_set: with a period the alarm is periodic, without a time it is not active.
AlarmParams(now) ==
  {[exp_time |-> exp, period |-> Normal(kind[1]), periodic |-> kind[1] > 0,
    wait |-> kind[2], action |-> kind[3], param |-> NULL,
    active |-> FALSE, thread |-> Self, magic |-> TRUE] :
     exp \in {ZeroTime} \cup {Normal(Value(now) + d) : d \in Delays}, kind \in Kinds}

sys__alarm_new ==
  /\ FreeToCall /\ FreeAlarm(s) # {}
  /\ \E e \in AtEntry : \E params \in AlarmParams(Now(s)) :
       s' = k_alarm_new(e, NewAlarm(e), params)
  /\ UNCHANGED sleeping

\* Nobody disarms an alarm that somebody waits for (they would wait on).
sys__alarm_set ==
  /\ FreeToCall
  /\ \E a \in UserAlarm, e \in AtEntry : \E params \in AlarmParams(Now(s)) :
       /\ params.exp_time = ZeroTime => s.k.q[wait_q(a)] = <<>>
       /\ OwnersOnly /\ params.wait => s.alarm[a].thread = Self
       /\ s' = k_alarm_set(e, a, params)
  /\ UNCHANGED sleeping

sys__alarm_remove ==
  /\ FreeToCall
  /\ \E a \in UserAlarm, e \in AtEntry : s' = k_alarm_remove(e, a)
  /\ UNCHANGED sleeping

\* sys__wait_for_alarm with IPC_WAIT; otherwise, or if the alarm is not active or
\* no longer there, the call changes nothing.
sys__wait_for_alarm ==
  /\ FreeToCall
  /\ \E a \in UserAlarm :
       /\ s.alarm[a].active
       /\ s' = Schedule(Enqueue(s, Self, wait_q(a)))
  /\ UNCHANGED sleeping

\* sys__get_time and sys__alarm_get read only; a call that fails does nothing.
ReadOnlyCall == FreeToCall /\ UNCHANGED vars

(***************************************************************************)
(* delay: reads the time, adds the period with its own normalisation, and  *)
(* calls delay_until, which creates an alarm with IPC_WAIT and, when that  *)
(* call has returned, removes it.                                          *)
(***************************************************************************)
DelayEnd(now, d) == time_add(now, Normal(d))

delay ==
  /\ FreeToCall /\ FreeAlarm(s) # {}
  /\ \E e \in AtEntry, d \in Delays :
       LET until  == DelayEnd(Now(s), d)
           params == [FreedAlarm EXCEPT !.exp_time = until, !.wait = TRUE,
                                        !.thread = Self, !.magic = TRUE]
       IN  /\ s' = k_alarm_new(e, NewAlarm(e), params)
           /\ sleeping' = [sleeping EXCEPT ![Self] =
                             [alarm |-> NewAlarm(e), until |-> Value(until)]]

delay_until_returns ==
  /\ UserCall
  /\ sleeping[Self] # NoDelay
  /\ \E e \in AtEntry : s' = k_alarm_remove(e, sleeping[Self].alarm)
  /\ sleeping' = [sleeping EXCEPT ![Self] = NoDelay]

\* A thread removes its alarms that would run a function before it ends.
sys__thread_exit ==
  /\ FreeToCall
  /\ \A a \in AlarmAddr : s.alarm[a].thread = Self => s.alarm[a].action # "thread"
  /\ \E e \in AtEntry : s' = [e EXCEPT !.k = kthread_cancel(@, Self, 0)]
  /\ UNCHANGED sleeping

Tick ==
  /\ UserMode
  /\ Value(Now(s)) < MaxTime
  /\ s' = [s EXCEPT !.tm = CountDown(@)]
  /\ UNCHANGED sleeping

TimerInterrupt ==
  /\ ~Stopped(s) /\ s.tm.pending
  /\ s' = timer_interrupt(s)
  /\ UNCHANGED sleeping

Next ==
  \/ sys__alarm_new
  \/ sys__alarm_set
  \/ sys__alarm_remove
  \/ sys__wait_for_alarm
  \/ ReadOnlyCall
  \/ delay
  \/ delay_until_returns
  \/ sys__thread_exit
  \/ Tick
  \/ TimerInterrupt

Spec == Init /\ [][Next]_vars

-----------------------------------------------------------------------------
AlarmsTypeOK ==
  /\ s \in TimeState
  /\ \A t \in Desc : sleeping[t].alarm \in AlarmAddr \cup {NULL} /\ sleeping[t].until \in Nat

(***************************************************************************)
(* The list of active alarms is exact and in the order of their times,     *)
(* however alarms were set, moved, repeated and removed, also by the       *)
(* actions that run while the list is walked (k_schedule_alarms,           *)
(* list_sort_add): its first alarm is always the one the timer must be     *)
(* set for.                                                                *)
(***************************************************************************)
AlarmListExact ==
  LET l == s.kalarms
  IN  Stopped(s) \/
      /\ ToSet(l) = {a \in AlarmAddr : s.alarm[a].magic /\ s.alarm[a].active}
      /\ \A i, j \in 1 .. Len(l) : i < j =>
           /\ l[i] # l[j]
           /\ time_cmp(s.alarm[l[i]].exp_time, s.alarm[l[j]].exp_time) <= 0

(***************************************************************************)
(* While threads run no alarm is overdue by more than the timer cannot     *)
(* resolve: an alarm that is not within the threshold when the timer is    *)
(* set may have to wait for the shortest interval.  Setting, moving and    *)
(* removing alarms, long delays measured in several intervals, and calls   *)
(* during which the counter expires never lose the timer's setting.        *)
(***************************************************************************)
NoOverdueAlarm ==
  UserMode =>
    \A a \in ToSet(s.kalarms) :
      Value(Now(s)) <= Value(s.alarm[a].exp_time) + Value(min_interval) - Value(threshold)

(***************************************************************************)
(* Whoever is blocked on an alarm will be released: the alarm exists and   *)
(* is active (sys__wait_for_alarm, k_alarm_add with IPC_WAIT, release_all  *)
(* in k_schedule_alarms and k_alarm_remove).                               *)
(***************************************************************************)
SleepersHaveAlarm ==
  \A a \in AlarmAddr :
    ~Stopped(s) /\ s.k.q[wait_q(a)] # <<>> => s.alarm[a].magic /\ s.alarm[a].active

(***************************************************************************)
(* "Delay thread until given time is reached (passes)" (programs/api/      *)
(* time.c): a thread inside delay_until is not made ready before that      *)
(* time, but for the threshold, whatever other alarms expire.              *)
(***************************************************************************)
SleepsLongEnough ==
  [][\A t \in Desc :
       /\ sleeping[t] # NoDelay /\ s.k.state[t] = WAIT
       /\ s'.k.state[t] # WAIT
       => Value(Now(s')) + Value(threshold) >= sleeping[t].until]_vars

(***************************************************************************)
(* The timer is only ever loaded with an interval it can measure: what     *)
(* i8253_set_time_to_counter ASSERTs of the time it is given.              *)
(***************************************************************************)
IntervalInRange == ~s.tm.asserted
=============================================================================
