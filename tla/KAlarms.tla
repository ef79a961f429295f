------------------------------ MODULE KAlarms -------------------------------
(***************************************************************************)
(* The alarms of kernel/time.c, as operators on the state s of the kernel: *)
(* the threads k, the timer tm and the alarms.                             *)
(*                                                                         *)
(* An alarm's action schedules threads, activating a thread of a secondary *)
(* scheduler sets an alarm, and setting an alarm runs the actions of those *)
(* that have expired.  Here the circle is open: KTime closes it with       *)
(* recursion, and Alarms, where all threads have the policy SCHED_FIFO,    *)
(* without it.                                                             *)
(***************************************************************************)
EXTENDS KThread, ArchTimer

CONSTANTS
  AlarmAddr,     \* addresses an alarm may be allocated at
  MaxHandlerId,  \* bound: the last id a thread that runs an alarm's function gets
  MaxTurns       \* bound: alarms that expire in one call of k_schedule_alarms

ASSUME KAlarmsAssumption ==
  /\ AlarmAddr \subseteq WaitQueue /\ NULL \notin AlarmAddr
  /\ MaxHandlerId \in 0 .. MASK_BITS - 1
  /\ MaxTurns \in Nat

\* What an alarm does when it expires: nothing but release its queue, run a
\* function of the program in a new thread, or one of the schedulers' functions.
Action == {"none", "thread", "rr_timer", "edf_period_timer", "edf_deadline_timer"}

\* kalarm_t; a freed one has magic = FALSE.
KAlarm ==
  [exp_time : Time, period : Time, periodic : BOOLEAN, wait : BOOLEAN,
   action : Action, param : Desc \cup {NULL},
   active : BOOLEAN, thread : Desc \cup {NULL}, magic : BOOLEAN]

FreedAlarm ==
  [exp_time |-> ZeroTime, period |-> ZeroTime, periodic |-> FALSE, wait |-> FALSE,
   action |-> "none", param |-> NULL, active |-> FALSE, thread |-> NULL,
   magic |-> FALSE]

(***************************************************************************)
(* Why the kernel no longer runs: a failed ASSERT; a thread put in a queue *)
(* while it is in one already, which corrupts both lists; or a bound of    *)
(* the model (no address left where an object could be allocated).         *)
(***************************************************************************)
Stop == {"no", "assert", "two_queues", "bound"}

TimeState ==
  [k       : KState,
   tm      : TimerState,
   kalarms : Seq(AlarmAddr),     \* the active alarms
   alarm   : [AlarmAddr -> KAlarm],
   stop    : Stop]

Stopped(s) == s.stop # "no" \/ s.tm.asserted \/ ~Running(s.k)
Now(s)     == arch_get_time(s.tm)

-----------------------------------------------------------------------------
(***************************************************************************)
(* Queues of threads, as in KThread; a queued thread is not queued again.  *)
(***************************************************************************)
InSomeQueue(s, t) == \E Q \in Queue : t \in ToSet(s.k.q[Q])

OnceQueued(s, t, k) ==
  [s EXCEPT !.k = k, !.stop = IF @ = "no" /\ InSomeQueue(s, t) THEN "two_queues" ELSE @]

Enqueue(s, t, Q) == OnceQueued(s, t, kthread_enqueue(s.k, t, Q))
ReleaseAll(s, Q) == [s EXCEPT !.k = kthreadq_release_all(@, Q)]

-----------------------------------------------------------------------------
(***************************************************************************)
(* Alarms.                                                                 *)
(***************************************************************************)
\* list_sort_add with alarm_cmp: behind those that expire no later.
SortedIn(s, a) ==
  LET late == {i \in 1 .. Len(s.kalarms) :
                 time_cmp(s.alarm[a].exp_time, s.alarm[s.kalarms[i]].exp_time) < 0}
  IN  [s EXCEPT !.kalarms =
         IF late = {} THEN Append(@, a)
         ELSE InsertAt(@, CHOOSE i \in late : \A j \in late : i <= j, a)]

ListRemove(s, a) == [s EXCEPT !.kalarms = list_find_and_remove(@, a)]

\* The first alarm leaves the list; a periodic one returns with its next time.
Expire(s, a) ==
  LET s1 == [s EXCEPT !.kalarms = Tail(@)]
  IN  IF s.alarm[a].periodic
      THEN SortedIn([s1 EXCEPT !.alarm[a].exp_time = time_add(@, s.alarm[a].period)], a)
      ELSE [s1 EXCEPT !.alarm[a].active = FALSE]

\* The action of an alarm that a thread set: a new thread, one priority above it,
\* at the address kmalloc returns.
HandlerDesc(s) == CHOOSE d \in FreeDesc(s.k) : TRUE

HandlerThread(s, a) ==
  LET owner == s.alarm[a].thread
  IN  IF FreeDesc(s.k) = {} \/ s.k.ids.last_id >= MaxHandlerId THEN [s EXCEPT !.stop = "bound"]
      ELSE [s EXCEPT !.k = kthread_create(@, HandlerDesc(s), @.prio[owner] + 1, @.proc[owner])]

\* k_alarm_add up to its call of k_schedule_alarms: an alarm without a time is not active.
Armed(s, a) ==
  LET exp == s.alarm[a].exp_time
  IN  IF exp.sec + exp.nsec > 0
      THEN SortedIn([s EXCEPT !.alarm[a].active = TRUE], a)
      ELSE [s EXCEPT !.alarm[a].active = FALSE]

FreeAlarm(s) == {a \in AlarmAddr : ~s.alarm[a].magic}

\* The address kmalloc returns.
NewAlarm(s) == CHOOSE a \in FreeAlarm(s) : TRUE

\* k_alarm_new up to k_alarm_add.
Allocated(s, a, params) ==
  [s EXCEPT !.alarm[a] = params, !.k = [@ EXCEPT !.q[wait_q(a)] = <<>>]]

\* What an id must be that programs give: the address of an alarm.
Known(s, a) == a # NULL /\ s.alarm[a].magic

\* k_alarm_set keeps whether the alarm is active and who set it first.
WithParams(s, a, params) ==
  [s EXCEPT !.alarm[a] = [params EXCEPT !.active = s.alarm[a].active,
                                        !.thread = s.alarm[a].thread]]

\* Mutation: an active alarm stays where it was in the list when its time changes.
TimeChanges_unmoved(s, a, params) ==
  ~s.alarm[a].active /\ time_cmp(s.alarm[a].exp_time, params.exp_time) # 0

\* Only if its time changes k_alarm_set moves the alarm.
TimeChanges(s, a, params) == time_cmp(s.alarm[a].exp_time, params.exp_time) # 0

Unlink(s, a) == IF s.alarm[a].active THEN ListRemove(s, a) ELSE s

\* k_alarm_remove of an alarm that is not linked, up to k_schedule_alarms.
Deallocated(s, a) == ReleaseAll([s EXCEPT !.alarm[a] = FreedAlarm], wait_q(a))

-----------------------------------------------------------------------------
(***************************************************************************)
(* k_schedule_alarms: the first alarm expires, acts and releases its       *)
(* queue, until the first is not due before ref_time; resched says that    *)
(* threads have become ready.                                              *)
(***************************************************************************)
Expired(s, ref_time) ==
  s.kalarms # <<>> /\ time_cmp(s.alarm[Head(s.kalarms)].exp_time, ref_time) <= 0

\* A turn from r on: the first alarm has expired, and its action led to s1.
Released(r, s1) ==
  LET a == Head(r.s.kalarms)
  IN  [s       |-> ReleaseAll(s1, wait_q(a)),
       resched |-> \/ r.resched
                   \/ r.s.alarm[a].action = "thread"
                   \/ s1.k.q[wait_q(a)] # <<>>]

LoopOver(r, ref_time) == Stopped(r.s) \/ ~Expired(r.s, ref_time)

\* Mutation: a timer that is set is left as it is.
SetTimer_once(s, time) ==
  IF s.kalarms = <<>> \/ s.tm.handler THEN s
  ELSE [s EXCEPT !.tm =
          arch_timer_set(@, time_sub(s.alarm[Head(s.kalarms)].exp_time, time))]

\* arch_timer_set to the first alarm, if any is left.
SetTimer(s, time) ==
  IF s.kalarms = <<>> THEN s
  ELSE [s EXCEPT !.tm =
          arch_timer_set(@, time_sub(s.alarm[Head(s.kalarms)].exp_time, time))]

\* Mutation: alarms within the timer's shortest interval, not half of it, are taken.
ReferenceTime_early(time) == time_add(time, min_interval)
ReferenceTime(time)       == time_add(time, threshold)

\* What follows the loop.
LoopEnded(r, time) ==
  IF LoopOver(r, ReferenceTime(time))
  THEN [r EXCEPT !.s = IF Stopped(@) THEN @ ELSE SetTimer(@, time)]
  ELSE [r EXCEPT !.s.stop = "bound"]

\* Mutation: it is not asked whether the alarm has expired already.
OwnerBlocks_expired(al) == al.thread # NULL /\ al.wait

\* The alarm, still active, was set by a thread with IPC_WAIT: its owner waits.
OwnerBlocks(al) == al.thread # NULL /\ al.active /\ al.wait

(***************************************************************************)
(* After k_schedule_alarms threads are scheduled if some have become ready *)
(* by what the function did (resched) or by an alarm, or if the owner of   *)
(* the alarm a blocks.                                                     *)
(***************************************************************************)
Blocks(s, a) == a # NULL /\ OwnerBlocks(s.alarm[a])
BlockOwner(s, a) == IF Blocks(s, a) THEN Enqueue(s, s.alarm[a].thread, wait_q(a)) ELSE s

Reschedules(r, a, resched) == ~Stopped(r.s) /\ (resched \/ r.resched \/ Blocks(r.s, a))
=============================================================================
