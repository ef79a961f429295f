------------------------------- MODULE KTime --------------------------------
(***************************************************************************)
(* The dispatch to secondary schedulers (kernel/sched.c), Round Robin      *)
(* (kernel/sched_rr.c) and EDF (kernel/sched_edf.c), and the alarms of     *)
(* KAlarms with them, as operators on the state s of the kernel: the       *)
(* threads k, the timer tm, the alarms, and the schedulers' data.          *)
(*                                                                         *)
(* They are one module because they call each other: an alarm's action     *)
(* schedules threads, activating a thread sets an alarm, and setting an    *)
(* alarm may run the actions of those that have expired.                   *)
(***************************************************************************)
EXTENDS KAlarms

CONSTANTS
  edf_ready, edf_wait,  \* the queues of the EDF scheduler
  TIME_SLICE,           \* a Round Robin slice (ksched_rr.params.rr.time_slice)
  RR_THRESHOLD          \* a shorter remainder is not worth going on with

ASSUME KTimeAssumption ==
  /\ {edf_ready, edf_wait} \subseteq WaitQueue
  /\ TIME_SLICE \in Time /\ RR_THRESHOLD \in Time

SCHED_FIFO == "FIFO"
SCHED_RR   == "RR"
SCHED_EDF  == "EDF"
Policy        == {SCHED_FIFO, SCHED_RR, SCHED_EDF}

EDF_TERMINATE == "TERMINATE"
EDF_CONTINUE  == "CONTINUE"
EDF_SKIP      == "SKIP"
OverrunFlag   == {EDF_TERMINATE, EDF_CONTINUE, EDF_SKIP}

\* kthread_sched_data_t: for Round Robin, and for EDF.
SchedData ==
  [policy : Policy, activated : BOOLEAN,
   remainder : Time, slice_end : Time,
   relative_deadline : Time, period : Time, next_run : Time, active_deadline : Time,
   flag : OverrunFlag,
   period_alarm : AlarmAddr \cup {NULL}, deadline_alarm : AlarmAddr \cup {NULL}]

NewSchedData ==
  [policy |-> SCHED_FIFO, activated |-> FALSE,
   remainder |-> ZeroTime, slice_end |-> ZeroTime,
   relative_deadline |-> ZeroTime, period |-> ZeroTime,
   next_run |-> ZeroTime, active_deadline |-> ZeroTime, flag |-> EDF_CONTINUE,
   period_alarm |-> NULL, deadline_alarm |-> NULL]

KernelState ==
  [k       : KState,
   tm      : TimerState,
   kalarms : Seq(AlarmAddr),                \* the active alarms
   alarm   : [AlarmAddr -> KAlarm],
   sched   : [Desc -> SchedData],
   rr_alarm   : AlarmAddr \cup {NULL},
   edf_active : Desc \cup {NULL},
   stop       : Stop]

\* The next step of a function, unless the kernel has stopped in the one before.
Then(s, Step(_)) == IF Stopped(s) THEN s ELSE Step(s)

(***************************************************************************)
(* What a kernel function ends with.  It is where the recursion closes: an *)
(* alarm's action schedules, scheduling sets an alarm, and setting an      *)
(* alarm runs the actions of those that have expired.                      *)
(***************************************************************************)
RECURSIVE Settle(_, _, _, _)

kthreads_reschedule(s) == Settle(s, FALSE, NULL, TRUE)

-----------------------------------------------------------------------------
(***************************************************************************)
(* Queues of threads, as in KThread.                                       *)
(***************************************************************************)
MoveToReady(s, t)      == OnceQueued(s, t, kthread_move_to_ready(s.k, t))
MoveToReadyFirst(s, t) == OnceQueued(s, t, kthread_move_to_ready_first(s.k, t))
QueueRemove(s, Q, t)   == [s EXCEPT !.k = kthreadq_remove(@, Q, t)]

kthread_is_ready(s, t) == s.k.state[t] \in {ACTIVE, READY}

kthread_remove_from_ready(s, t) ==
  [s EXCEPT !.k = ClearMaskIfEmpty(kthreadq_remove(@, ready_q(@.prio[t]), t), @.prio[t])]

WithReschedule(s, yes) == IF yes THEN kthreads_reschedule(s) ELSE s

-----------------------------------------------------------------------------
(***************************************************************************)
(* The calls of time.c.                                                    *)
(***************************************************************************)
k_alarm_add(s, a) == Settle(Armed(s, a), TRUE, a, FALSE)

\* The caller finds the alarm's address with NewAlarm.
k_alarm_new(s, params) ==
  IF FreeAlarm(s) = {} THEN [s EXCEPT !.stop = "bound"]
  ELSE k_alarm_add(Allocated(s, NewAlarm(s), params), NewAlarm(s))

k_alarm_set(s, a, params) ==
  IF ~Known(s, a) THEN [s EXCEPT !.stop = "assert"]
  ELSE IF TimeChanges(s, a, params)
  THEN k_alarm_add(WithParams(Unlink(s, a), a, params), a)
  ELSE WithParams(s, a, params)

k_alarm_remove(s, a) ==
  IF ~Known(s, a) THEN [s EXCEPT !.stop = "assert"]
  ELSE Settle(Deallocated(Unlink(s, a), a), TRUE, NULL, s.k.q[wait_q(a)] # <<>>)

-----------------------------------------------------------------------------
(***************************************************************************)
(* Round Robin.                                                            *)
(***************************************************************************)
\* rr_init: an alarm that is not active.
rr_init(s) ==
  LET s1 == k_alarm_new(s, [FreedAlarm EXCEPT !.action = "rr_timer", !.magic = TRUE])
  IN  [s1 EXCEPT !.rr_alarm = NewAlarm(s)]

rr_thread_add(s, t) == [s EXCEPT !.sched[t].remainder = TIME_SLICE]

\* Mutation: an alarm left from the thread's slice before is not set anew.
rr_thread_activate_once(s, t) ==
  LET end == time_add(Now(s), TIME_SLICE)
      al  == [s.alarm[s.rr_alarm] EXCEPT !.exp_time = end, !.param = t]
      s1  == [s EXCEPT !.sched[t].remainder = TIME_SLICE, !.sched[t].slice_end = end]
  IN  IF s.alarm[s.rr_alarm].param = t /\ s.alarm[s.rr_alarm].active THEN s1
      ELSE k_alarm_set(s1, s.rr_alarm, al)

\* A remainder too small gets another slice; the alarm is set to the slice's end.
rr_thread_activate(s, t) ==
  LET left == s.sched[t].remainder
      run  == IF time_cmp(left, RR_THRESHOLD) <= 0 THEN time_add(left, TIME_SLICE) ELSE left
      end  == time_add(Now(s), run)
      al   == [s.alarm[s.rr_alarm] EXCEPT !.exp_time = end, !.param = t]
  IN  k_alarm_set([s EXCEPT !.sched[t].remainder = run, !.sched[t].slice_end = end],
                  s.rr_alarm, al)

\* The slice is over, unless the alarm is that of a thread no longer active.
rr_timer(s, t) ==
  IF s.k.active_thread # t THEN s
  ELSE kthreads_reschedule(MoveToReady([s EXCEPT !.sched[t].remainder = ZeroTime], t))

\* A slice that is interrupted leaves a remainder; with enough of it the thread is
\* the next of its priority.
rr_thread_deactivate(s, t) ==
  LET left == time_sub(s.sched[t].slice_end, Now(s))
      s1   == [s EXCEPT !.sched[t].slice_end = left, !.sched[t].remainder = left]
  IN  IF s.sched[t].remainder.sec + s.sched[t].remainder.nsec = 0 THEN s
      ELSE IF ~kthread_is_ready(s, t) THEN s1
      ELSE IF time_cmp(left, RR_THRESHOLD) <= 0 THEN MoveToReady(s1, t)
      ELSE MoveToReadyFirst(s1, t)

-----------------------------------------------------------------------------
(***************************************************************************)
(* EDF.                                                                    *)
(***************************************************************************)
edf_check_deadline(s, t) == time_cmp(Now(s), s.sched[t].active_deadline) > 0

Deadline(s, t) == s.sched[t].active_deadline

\* Mutation: the first of the queue is taken, whatever its deadline.
EarliestJob_first(s) ==
  IF s.edf_active # NULL THEN s.edf_active ELSE Head(s.k.q[wait_q(edf_ready)])

\* The loop of k_edf_schedule: the thread selected before, or the first in the
\* queue, unless another one's deadline is earlier; of several, the first.
EarliestJob(s) ==
  LET jobs == (IF s.edf_active = NULL THEN <<>> ELSE <<s.edf_active>>)
                \o s.k.q[wait_q(edf_ready)]
      best == {i \in 1 .. Len(jobs) :
                 \A j \in 1 .. Len(jobs) :
                   LET c == time_cmp(Deadline(s, jobs[i]), Deadline(s, jobs[j]))
                   IN  c < 0 \/ (c = 0 /\ i <= j)}
  IN  jobs[CHOOSE i \in best : TRUE]

\* The thread that was selected goes back among the EDF threads, unless it is blocked.
Preempt(s, t) ==
  IF s.k.state[t] = READY
  THEN Enqueue(kthread_remove_from_ready(s, t), t, wait_q(edf_ready))
  ELSE IF s.k.state[t] = ACTIVE
  THEN Enqueue([s EXCEPT !.sched[t].activated = FALSE], t, wait_q(edf_ready))
  ELSE s

\* k_edf_schedule: its new state, and whether it made another thread ready.
EdfSwitches(s) == s.k.q[wait_q(edf_ready)] # <<>> /\ EarliestJob(s) # s.edf_active

Select(s, first) ==
  LET s1 == QueueRemove(s, wait_q(edf_ready), first)
      s2 == IF s.edf_active = NULL THEN s1 ELSE Preempt(s1, s.edf_active)
  IN  MoveToReady([s2 EXCEPT !.edf_active = first], first)

k_edf_schedule(s) == IF EdfSwitches(s) THEN Select(s, EarliestJob(s)) ELSE s

EdfReschedule(s) == WithReschedule(k_edf_schedule(s), EdfSwitches(s))

edf_thread_add(s, t) == [s EXCEPT !.sched[t].period_alarm = NULL]

Deselect(s, t) == IF s.edf_active = t THEN [s EXCEPT !.edf_active = NULL] ELSE s

edf_thread_remove(s, t) ==
  LET s1 == Deselect(s, t)
      s2 == IF s.sched[t].period_alarm = NULL THEN s1
            ELSE [k_alarm_remove(s1, s.sched[t].period_alarm)
                    EXCEPT !.sched[t].period_alarm = NULL]
  IN  k_edf_schedule([s2 EXCEPT !.sched[t].policy = SCHED_FIFO])

PeriodAlarm(s, t) ==
  [FreedAlarm EXCEPT !.exp_time = s.sched[t].next_run, !.period = s.sched[t].period,
                     !.periodic = TRUE, !.action = "edf_period_timer", !.param = t,
                     !.magic = TRUE]

DeadlineAlarm(s, t, exp) ==
  [FreedAlarm EXCEPT !.exp_time = exp, !.action = "edf_deadline_timer", !.param = t,
                     !.magic = TRUE]

\* The next period's times, and its deadline in the alarm for it.
NextPeriod(s, t) ==
  LET run == time_add(s.sched[t].next_run, s.sched[t].period)
      s1  == [s EXCEPT !.sched[t].next_run = run,
                       !.sched[t].active_deadline =
                          time_add(run, s.sched[t].relative_deadline)]
      s2  == Deselect(s1, t)
  IN  k_alarm_set(s2, s2.sched[t].deadline_alarm, DeadlineAlarm(s2, t, Deadline(s2, t)))

\* edf_set_thread_sched_parameters with EDF_SET
edf_set(s, t, deadline, period, flag) ==
  LET now == Now(s)
      s1  == [Deselect(s, t) EXCEPT
                !.sched[t].period = period, !.sched[t].relative_deadline = deadline,
                !.sched[t].flag = flag, !.sched[t].next_run = time_add(now, period)]
      PeriodSet(s2) ==
        [k_alarm_new(s2, PeriodAlarm(s2, t)) EXCEPT
           !.sched[t].period_alarm = NewAlarm(s2),
           !.sched[t].next_run = time_sub(now, period),
           !.sched[t].active_deadline = time_add(now, deadline)]
  IN  PeriodSet([k_alarm_new(s1, DeadlineAlarm(s1, t, ZeroTime)) EXCEPT
                   !.sched[t].deadline_alarm = NewAlarm(s1)])

\* ... with EDF_WAIT; `now' is read when the call starts
edf_wait_period(s, t) ==
  LET now == Now(s)
      s1  == Deselect(s, t)
      Waits(s2) ==
        kthreads_reschedule(
          Enqueue(s2, t, wait_q(IF time_cmp(s2.sched[t].next_run, now) > 0
                                THEN edf_wait ELSE edf_ready)))
  IN  IF edf_check_deadline(s1, t) THEN s1
      ELSE Then(IF time_cmp(now, s1.sched[t].next_run) > 0 THEN NextPeriod(s1, t) ELSE s1,
                Waits)

\* ... with EDF_EXIT: the alarms are removed but still named.
edf_exit(s, t) ==
  LET s1 == Deselect(s, t)
      RemoveAlarm(u, a) == IF a = NULL THEN u ELSE k_alarm_remove(u, a)
      DeadlineRemoved(s2) == RemoveAlarm(s2, s2.sched[t].deadline_alarm)
  IN  IF edf_check_deadline(s1, t) THEN s1
      ELSE EdfReschedule([DeadlineRemoved(RemoveAlarm(s1, s1.sched[t].period_alarm))
                            EXCEPT !.sched[t].policy = SCHED_FIFO])

-----------------------------------------------------------------------------
(***************************************************************************)
(* The calls of the schedulers from thread.c.                              *)
(***************************************************************************)
ksched_thread_add(s, t, policy) ==
  LET s1 == [s EXCEPT !.sched[t].policy = policy, !.sched[t].activated = FALSE]
  IN  CASE policy = SCHED_RR  -> rr_thread_add(s1, t)
        [] policy = SCHED_EDF -> edf_thread_add(s1, t)
        [] OTHER -> s1

ksched_thread_remove(s, t) ==
  IF s.sched[t].policy = SCHED_EDF THEN edf_thread_remove(s, t) ELSE s

ksched_set_thread_policy(s, t, policy) ==
  LET Added(s1) == CASE policy = SCHED_RR  -> rr_thread_add(s1, t)
                     [] policy = SCHED_EDF -> edf_thread_add(s1, t)
                     [] OTHER -> s1
  IN  IF s.sched[t].policy = policy THEN s
      ELSE Added([ksched_thread_remove(s, t) EXCEPT !.sched[t].policy = policy])

\* `activated' says that the thread's activation has been told to its scheduler.
ksched_activate_thread(s, t) ==
  LET s1 == IF s.sched[t].policy = SCHED_RR THEN rr_thread_activate(s, t) ELSE s
  IN  IF s.sched[t].activated THEN s ELSE [s1 EXCEPT !.sched[t].activated = TRUE]

ksched_deactivate_thread(s, t) ==
  LET s1 == CASE s.sched[t].policy = SCHED_RR  -> rr_thread_deactivate(s, t)
              [] s.sched[t].policy = SCHED_EDF -> k_edf_schedule(s)
              [] OTHER -> s
  IN  IF s.sched[t].activated THEN [s1 EXCEPT !.sched[t].activated = FALSE] ELSE s

(***************************************************************************)
(* kthreads_schedule with its calls of the secondary schedulers.           *)
(***************************************************************************)
StillActive(s, curr) == IF CurrIsActive(s.k) THEN MoveToReady(s, curr) ELSE s

ActivateNext(s) ==
  LET k1 == ActivateFirst(s.k, kthread_ready_list_highest(s.k))
  IN  ksched_activate_thread([s EXCEPT !.k = k1], k1.active_thread)

kthreads_schedule_next(s) ==
  LET curr == s.k.active_thread
  IN  IF Stopped(s) THEN s
      ELSE IF ~CurrIsActive(s.k) /\ kthread_ready_list_highest(s.k) < 0
      THEN [s EXCEPT !.stop = "assert"]
      ELSE IF ~MustSwitch(s.k) THEN s
      ELSE Then(StillActive(IF curr = NULL THEN s ELSE ksched_deactivate_thread(s, curr), curr),
                ActivateNext)

kthread_create_sched(s, t, prio, proc, policy) ==
  ksched_thread_add(
    [s EXCEPT !.k = kthread_create(@, t, prio, proc), !.sched[t] = NewSchedData],
    t, policy)

\* kthread_cancel: KThread's, with the thread's scheduler told between the counts
\* and the end of the process.
kthread_cancel_sched(s, t, exit_status) ==
  LET k1 == Detach(s.k, t)
      s1 == [s EXCEPT !.k = [k1 EXCEPT !.ref_cnt[t] = @ - 1,
                                       !.exit_status[t] = exit_status,
                                       !.thr_count[k1.proc[t]] = @ - 1]]
      Freed(s2) ==
        kthreads_reschedule(
          [s2 EXCEPT !.k = FreeOrRelease(RemoveProcessIfEmpty(@, s.k.proc[t]), t)])
  IN  IF s.k.state[t] = PASSIVE \/ (s.k.state[t] = ACTIVE /\ t # s.k.active_thread) THEN s
      ELSE Then(ksched_thread_remove(s1, t), Freed)

\* Mutation: the thread keeps its place among the threads of its old priority.
kthread_set_prio_inPlace(s, t, prio) == [s EXCEPT !.k.prio[t] = prio]

kthread_set_prio(s, t, prio) ==
  LET s1 == IF s.k.state[t] = READY THEN kthread_remove_from_ready(s, t) ELSE s
      s2 == [s1 EXCEPT !.k.prio[t] = prio]
  IN  IF kthread_is_ready(s, t) THEN kthreads_reschedule(MoveToReady(s2, t)) ELSE s2

-----------------------------------------------------------------------------
(***************************************************************************)
(* The EDF timers.                                                         *)
(***************************************************************************)
Waiting(s, t) == t \in ToSet(s.k.q[wait_q(edf_wait)])

\* A new period: the thread leaves edf.wait, for edf.ready unless it is too late.
edf_period_timer(s, t) ==
  LET s1 == QueueRemove(s, wait_q(edf_wait), t)
  IN  IF ~Waiting(s, t) THEN s
      ELSE IF edf_check_deadline(s1, t) THEN s1
      ELSE EdfReschedule(Enqueue(s1, t, wait_q(edf_ready)))

\* EDF_TERMINATE
Terminate(s, t) ==
  LET Ended(s2) == kthread_cancel_sched([s2 EXCEPT !.sched[t].period_alarm = NULL], t, -1)
      PeriodOver(s1) == Then(k_alarm_remove(s1, s1.sched[t].deadline_alarm), Ended)
  IN  Then(k_alarm_remove(s, s.sched[t].period_alarm), PeriodOver)

\* EDF_SKIP
SkipPeriod(s, t) ==
  LET Ready(s2) == kthreads_reschedule(Enqueue(s2, t, wait_q(edf_ready)))
      Skipped(s1) ==
        Then(k_alarm_set(s1, s1.sched[t].period_alarm, PeriodAlarm(s1, t)), Ready)
  IN  Then(NextPeriod(s, t), Skipped)

\* The deadline has come: too late in edf.wait, the thread is told so; running or
\* blocked elsewhere, its flag says what happens.
edf_deadline_timer(s, t) ==
  LET flag == s.sched[t].flag
      s1   == IF Waiting(s, t)
              THEN MoveToReady(QueueRemove(s, wait_q(edf_wait), t), t) ELSE s
  IN  IF ~edf_check_deadline(s, t) THEN QueueRemove(s, wait_q(edf_wait), t)
      ELSE WithReschedule(CASE flag = EDF_TERMINATE -> Terminate(s1, t)
                            [] flag = EDF_SKIP /\ ~Waiting(s, t) -> SkipPeriod(s1, t)
                            [] OTHER -> s1,
                          Waiting(s, t))

-----------------------------------------------------------------------------
(***************************************************************************)
(* The actions of alarms, and where the circle closes.                     *)
(***************************************************************************)
ThreadAction(s, a) ==
  LET s1 == HandlerThread(s, a)
  IN  IF Stopped(s1) THEN s1 ELSE [s1 EXCEPT !.sched[HandlerDesc(s)] = NewSchedData]

RunAction(s, a) ==
  LET t == s.alarm[a].param
  IN  CASE s.alarm[a].action = "none"               -> s
        [] s.alarm[a].action = "thread"             -> ThreadAction(s, a)
        [] s.alarm[a].action = "rr_timer"           -> rr_timer(s, t)
        [] s.alarm[a].action = "edf_period_timer"   -> edf_period_timer(s, t)
        [] s.alarm[a].action = "edf_deadline_timer" -> edf_deadline_timer(s, t)

\* The loop of k_schedule_alarms; a turn does nothing when the loop is over.
Turn(r, ref_time) ==
  LET a == Head(r.s.kalarms)
  IN  IF LoopOver(r, ref_time) THEN r ELSE Released(r, RunAction(Expire(r.s, a), a))

ExpireAlarms(s, ref_time) ==
  LET turn[i \in 0 .. MaxTurns] == IF i = 0 THEN [s |-> s, resched |-> FALSE]
                                   ELSE Turn(turn[i - 1], ref_time)
  IN  turn[MaxTurns]

k_schedule_alarms(s) == LoopEnded(ExpireAlarms(s, ReferenceTime(Now(s))), Now(s))

\* What follows k_schedule_alarms.
Finish(r, a, resched) ==
  IF Reschedules(r, a, resched) THEN kthreads_schedule_next(BlockOwner(r.s, a)) ELSE r.s

Settle(s, alarms, a, resched) ==
  Finish(IF alarms THEN k_schedule_alarms(s) ELSE [s |-> s, resched |-> FALSE], a, resched)

\* The timer's interrupt: the arch layer's handler, then k_timer_interrupt if it is
\* set and due.
timer_interrupt(s) ==
  LET s1 == [s EXCEPT !.tm = arch_timer_handler(@)]
  IN  IF ~Stopped(s1) /\ TimerExpired(s.tm) /\ s.tm.handler
      THEN Settle(s1, TRUE, NULL, FALSE)
      ELSE s1

(***************************************************************************)
(* The kernel's start, as far as time and threads go: k_time_init, then    *)
(* kthreads_init with ksched_init.                                         *)
(***************************************************************************)
InitialKernel ==
  LET s0 == [k |-> NoThreads, tm |-> arch_timer_init,
             kalarms |-> <<>>,
             alarm   |-> [a \in AlarmAddr |-> FreedAlarm],
             sched   |-> [t \in Desc |-> NewSchedData],
             rr_alarm |-> NULL, edf_active |-> NULL, stop |-> "no"]
  IN  kthreads_reschedule(
        kthread_create_sched(rr_init(s0), Idle, 0, KernelProc, SCHED_FIFO))
=============================================================================
