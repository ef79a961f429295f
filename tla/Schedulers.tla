----------------------------- MODULE Schedulers -----------------------------
(***************************************************************************)
(* Programs whose threads are scheduled by Round Robin or by EDF: the      *)
(* calls of kernel/sched.c and programs/api/thread.c, creation, blocking,  *)
(* cancelling and ending of such threads, and the timer.  As in the two    *)
(* demonstration programs (programs/round_robin, programs/EDF) a main      *)
(* thread with the policy SCHED_FIFO creates workers of one policy, sleeps *)
(* and cancels them; here it may do so in any order, at any time.          *)
(***************************************************************************)
EXTENDS KTime

CONSTANTS
  Main, MainProc, MainPrio,
  sem,             \* the queue of a semaphore workers block on
  Workers,         \* the policy of the workers: SCHED_RR or SCHED_EDF
  WorkerPrio,      \* priorities the workers are created with
  NewPrio,         \* priorities given to them later
  Delays,          \* how long main sleeps, in nanoseconds
  Jobs,            \* EDF parameters: <<deadline, period, flag>>
  MaxTime,         \* bound: the clock stops here
  MaxThreads       \* bound: threads created, idle and main included

ASSUME SchedulersAssumption ==
  /\ Main \in Desc \ {Idle} /\ MainProc \in Proc \ {KernelProc} /\ MainPrio \in Prio
  /\ sem \in WaitQueue \ (AlarmAddr \cup {edf_ready, edf_wait})
  /\ Workers \subseteq {SCHED_RR, SCHED_EDF}
  /\ WorkerPrio \subseteq Prio \ {0} /\ NewPrio \subseteq Prio \ {0}
  /\ Delays \subseteq Nat \ {0} /\ Jobs \subseteq (Nat \ {0}) \X (Nat \ {0}) \X OverrunFlag
  /\ MaxTime \in Nat /\ MaxThreads \in 0 .. MASK_BITS - 1

VARIABLES
  s,         \* the kernel
  workers,   \* the policy of this program's workers
  sleeping,  \* the alarm of the delay main is in, or NULL
  job        \* job[t]: whether an EDF thread is before edf_set, after it, or done

vars == <<s, workers, sleeping, job>>

Self == s.k.active_thread

Init ==
  /\ s = kthreads_reschedule(
           kthread_create_sched([InitialKernel EXCEPT !.k.procs = @ \cup {MainProc}],
                                Main, MainPrio, MainProc, SCHED_FIFO))
  /\ workers \in Workers
  /\ sleeping = NULL
  /\ job = [t \in Desc |-> "none"]

UserMode   == ~Stopped(s) /\ ~s.tm.pending
UserCall   == UserMode /\ Self # Idle /\ s.k.proc[Self] \in s.k.procs
MainCall   == UserCall /\ Self = Main /\ sleeping = NULL
WorkerCall == UserCall /\ Self # Main

\* Live workers that main can name.
Worker == {t \in s.k.all_threads \ {Idle, Main} : s.k.state[t] # PASSIVE}

-----------------------------------------------------------------------------
sys__create_thread ==
  /\ MainCall /\ FreeDesc(s.k) # {} /\ s.k.ids.last_id < MaxThreads
  /\ \E t \in FreeDesc(s.k), prio \in WorkerPrio :
       /\ s' = kthreads_reschedule(kthread_create_sched(s, t, prio, MainProc, workers))
       /\ job' = [job EXCEPT ![t] = "none"]
  /\ UNCHANGED <<workers, sleeping>>

\* An EDF worker is not cancelled, and ends, before it has called edf_exit.
MayEnd(t) == t = Main \/ workers = SCHED_RR \/ job[t] = "done"

\* EXIT (kernel/errno.h) evaluates kthread_cancel twice, as in Threads: thr_count goes
\* down by two, and the process may end with the caller in it.
CancelTwice(t) ==
  \E s1 \in {kthread_cancel_sched(s, t, -1)} :
    s' = IF Stopped(s1) THEN s1 ELSE kthread_cancel_sched(s1, t, -1)

sys__cancel_thread ==
  /\ MainCall
  /\ \E t \in Worker : MayEnd(t) /\ CancelTwice(t)
  /\ UNCHANGED <<workers, sleeping, job>>

sys__thread_exit ==
  /\ UserCall /\ MayEnd(Self) /\ (Self = Main => sleeping = NULL)
  /\ s' = kthread_cancel_sched(s, Self, 0)
  /\ UNCHANGED <<workers, sleeping, job>>

\* delay, and its removal of the alarm when the call is over
delay ==
  /\ MainCall /\ FreeAlarm(s) # {}
  /\ \E d \in Delays :
       s' = k_alarm_new(s, [FreedAlarm EXCEPT !.exp_time = time_add(Now(s), Normal(d)),
                                              !.wait = TRUE, !.thread = Main,
                                              !.magic = TRUE])
  /\ sleeping' = NewAlarm(s)
  /\ UNCHANGED <<workers, job>>

delay_until_returns ==
  /\ UserCall /\ Self = Main /\ sleeping # NULL
  /\ s' = k_alarm_remove(s, sleeping)
  /\ sleeping' = NULL
  /\ UNCHANGED <<workers, job>>

\* A call in which a worker blocks, and the one in which another lets it go on.
sem_wait ==
  /\ WorkerCall /\ (workers = SCHED_EDF => job[Self] = "set")
  /\ s' = kthreads_reschedule(Enqueue(s, Self, wait_q(sem)))
  /\ UNCHANGED <<workers, sleeping, job>>

sem_post ==
  /\ UserCall /\ (Self = Main => sleeping = NULL)
  /\ s.k.q[wait_q(sem)] # <<>>
  /\ s' = kthreads_reschedule([s EXCEPT !.k = kthreadq_release(@, wait_q(sem))])
  /\ UNCHANGED <<workers, sleeping, job>>

(***************************************************************************)
(* sys__set_thread_sched_params of a Round Robin worker: with the policy   *)
(* it has, and a priority if greater than 0.  A worker does not give       *)
(* itself a priority (kthread_set_prio would queue it twice).              *)
(***************************************************************************)
sys__set_thread_sched_params ==
  /\ MainCall /\ workers = SCHED_RR
  /\ \E t \in Worker, prio \in NewPrio :
       s' = kthread_set_prio(ksched_set_thread_policy(s, t, SCHED_RR), t, prio)
  /\ UNCHANGED <<workers, sleeping, job>>

\* edf_set, edf_wait and edf_exit of programs/api/thread.c.
EdfCall == WorkerCall /\ workers = SCHED_EDF

EdfSet ==
  /\ EdfCall /\ job[Self] = "none"
  /\ \E j \in Jobs :
       s' = edf_set(ksched_set_thread_policy(s, Self, SCHED_EDF),
                    Self, Normal(j[1]), Normal(j[2]), j[3])
  /\ job' = [job EXCEPT ![Self] = "set"]
  /\ UNCHANGED <<workers, sleeping>>

EdfWait ==
  /\ EdfCall /\ job[Self] = "set"
  /\ s' = edf_wait_period(s, Self)
  /\ UNCHANGED <<workers, sleeping, job>>

\* edf_exit fails if the deadline has passed, and the thread remains an EDF thread.
EdfExit ==
  /\ EdfCall /\ job[Self] = "set"
  /\ s' = edf_exit(s, Self)
  /\ job' = [job EXCEPT ![Self] = IF edf_check_deadline(s, Self) THEN @ ELSE "done"]
  /\ UNCHANGED <<workers, sleeping>>

Tick ==
  /\ UserMode /\ Value(Now(s)) < MaxTime
  /\ s' = [s EXCEPT !.tm = CountDown(@)]
  /\ UNCHANGED <<workers, sleeping, job>>

TimerInterrupt ==
  /\ ~Stopped(s) /\ s.tm.pending
  /\ s' = timer_interrupt(s)
  /\ UNCHANGED <<workers, sleeping, job>>

Next ==
  \/ sys__create_thread
  \/ sys__cancel_thread
  \/ sys__thread_exit
  \/ delay
  \/ delay_until_returns
  \/ sem_wait
  \/ sem_post
  \/ sys__set_thread_sched_params
  \/ EdfSet
  \/ EdfWait
  \/ EdfExit
  \/ Tick
  \/ TimerInterrupt

Spec == Init /\ [][Next]_vars

-----------------------------------------------------------------------------
SchedulersTypeOK ==
  /\ s \in KernelState
  /\ workers \in Workers
  /\ sleeping \in AlarmAddr \cup {NULL}
  /\ job \in [Desc -> {"none", "set", "done"}]

(***************************************************************************)
(* Queues, states and mask agree also when schedulers move threads between *)
(* ready_q, edf.ready and edf.wait inside kthreads_schedule, in alarms and *)
(* in other threads' calls; a blocked thread is in the queue its           *)
(* descriptor names (an EDF thread may have been dropped from edf.wait,    *)
(* see EDF in the README); and no ready thread has a higher priority than  *)
(* the one that runs.                                                      *)
(***************************************************************************)
SchedulingConsistent ==
  Stopped(s) \/
  LET k == s.k
  IN  /\ \A Q \in Queue : \A t \in ToSet(k.q[Q]) :
           /\ k.queue[t] = Q
           /\ k.state[t] = (IF Q \in ReadyQueue THEN READY ELSE WAIT)
           /\ Q \in ReadyQueue => Q = ready_q(k.prio[t])
      /\ \A t \in k.all_threads :
           k.state[t] = WAIT => t \in ToSet(k.q[k.queue[t]]) \/ k.queue[t] = wait_q(edf_wait)
      /\ \A p \in Prio :
           /\ p % WORD \in k.rdy_mask[p \div WORD] <=> k.q[ready_q(p)] # <<>>
           /\ k.q[ready_q(p)] # <<>> => p <= k.prio[Self]
      /\ \A t \in Desc : k.state[t] = ACTIVE <=> t = Self

(***************************************************************************)
(* An alarm left from a slice that was interrupted does not end a later    *)
(* one ("TODO: remove alarm!!!" in rr_thread_deactivate): if the alarm is  *)
(* for the thread that runs, it is for the end of the slice it runs in.    *)
(***************************************************************************)
SliceAlarmIsCurrent ==
  UserMode /\ s.sched[Self].policy = SCHED_RR =>
    LET al == s.alarm[s.rr_alarm]
    IN  al.active /\ al.param = Self => al.exp_time = s.sched[Self].slice_end

(***************************************************************************)
(* EDF: no job waits in edf.ready whose deadline is earlier than that of   *)
(* the thread selected to run (k_edf_schedule).  After edf_set, or after   *)
(* an edf_wait or edf_exit that comes too late, no thread is selected.     *)
(***************************************************************************)
EarliestDeadlineSelected ==
  UserMode /\ s.edf_active # NULL =>
    \A t \in ToSet(s.k.q[wait_q(edf_ready)]) :
      time_cmp(Deadline(s, s.edf_active), Deadline(s, t)) <= 0

(***************************************************************************)
(* "thread must not be in any list" (kthread_enqueue, kernel/thread.c):    *)
(* what a scheduler or an alarm moves to a queue is in none.               *)
(***************************************************************************)
EnqueuedOnce == s.stop # "two_queues"
=============================================================================
