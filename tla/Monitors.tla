------------------------------ MODULE Monitors ------------------------------
(***************************************************************************)
(* Monitors with condition queues (kernel/monitor.c) on top of the thread  *)
(* subsystem.  A thread that blocks in monitor_lock or monitor_wait comes  *)
(* back owning the monitor: ownership is handed over in the kernel by the  *)
(* thread that unlocks, waits or signals.                                  *)
(***************************************************************************)
EXTENDS Threads

CONSTANTS
  Mon,    \* monitors; each names the entrance queue of its kmonitor_t
  Cond    \* condition queues (kmonitor_q)

ASSUME MonitorsAssumption ==
  Mon \subseteq WaitQueue /\ Cond \subseteq WaitQueue /\ Mon \cap Cond = {}

VARIABLES
  m,        \* [lock, owner, qdata]: the kmonitor_t fields and the qdata of threads
  live,     \* monitors and condition queues that are initialised
  entered   \* entered[t]: monitors t has locked and not unlocked (history variable)

monVars == <<m, live, entered>>
allVars == <<vars, monVars>>

MonitorState ==
  [lock  : [Mon -> BOOLEAN],
   owner : [Mon -> Desc \cup {NULL}],
   qdata : [Desc -> Mon \cup {NULL}]]

MonInit ==
  /\ Init
  /\ m = [lock  |-> [x \in Mon |-> FALSE],
          owner |-> [x \in Mon |-> NULL],
          qdata |-> [t \in Desc |-> NULL]]
  /\ live = {}
  /\ entered = [t \in Desc |-> {}]

Entering(x) == entered' = [entered EXCEPT ![Self] = @ \cup {x}]
Leaving(x)  == entered' = [entered EXCEPT ![Self] = @ \ {x}]

-----------------------------------------------------------------------------
sys__monitor_init(x) ==
  /\ FreeToCall /\ x \notin live
  /\ live' = live \cup {x}
  /\ m' = [m EXCEPT !.lock[x] = FALSE, !.owner[x] = NULL]
  /\ k' = [k EXCEPT !.q[wait_q(x)] = <<>>]
  /\ entered' = [t \in Desc |-> entered[t] \ {x}]
  /\ UNCHANGED <<handles, joining>>

\* Waiters of a condition queue keep the address of the monitor in qdata, so it is
\* never destroyed while there are any; it may be while others are in it or at it.
sys__monitor_destroy(x) ==
  /\ FreeToCall /\ x \in live
  /\ \A c \in Cond : \A t \in ToSet(k.q[wait_q(c)]) : m.qdata[t] # x
  /\ live' = live \ {x}
  /\ k' = IF k.q[wait_q(x)] = <<>> THEN k
          ELSE kthreads_schedule(kthreadq_release_all(k, wait_q(x)))
  /\ UNCHANGED <<m, entered, handles, joining>>

sys__monitor_queue_init(c) ==
  /\ FreeToCall /\ c \notin live
  /\ live' = live \cup {c}
  /\ k' = [k EXCEPT !.q[wait_q(c)] = <<>>]
  /\ UNCHANGED <<m, entered, handles, joining>>

\* The threads released here return from monitor_wait without the monitor.
sys__monitor_queue_destroy(c) ==
  /\ FreeToCall /\ c \in live
  /\ live' = live \ {c}
  /\ entered' = [t \in Desc |-> IF t \in ToSet(k.q[wait_q(c)])
                                THEN entered[t] \ {m.qdata[t]} ELSE entered[t]]
  /\ k' = IF k.q[wait_q(c)] = <<>> THEN k
          ELSE kthreads_schedule(kthreadq_release_all(k, wait_q(c)))
  /\ UNCHANGED <<m, handles, joining>>

-----------------------------------------------------------------------------
sys__monitor_lock(x) ==
  /\ FreeToCall /\ x \in live
  /\ IF m.lock[x]
     THEN /\ k' = kthreads_schedule(kthread_enqueue(k, Self, wait_q(x)))
          /\ m' = m
     ELSE /\ m' = [m EXCEPT !.lock[x] = TRUE, !.owner[x] = Self]
          /\ k' = k
  /\ Entering(x)
  /\ UNCHANGED <<live, handles, joining>>

\* Mutation: the monitor is opened and the first waiter only made ready.
HandOver_open(mm, x) == [mm EXCEPT !.owner[x] = NULL, !.lock[x] = FALSE]

\* Hand the monitor to the first thread at its entrance, or open it.
HandOver(mm, x) ==
  [mm EXCEPT !.owner[x] = kthreadq_get(k, wait_q(x)),
             !.lock[x]  = k.q[wait_q(x)] # <<>>]

sys__monitor_unlock(x) ==
  /\ FreeToCall /\ x \in live
  /\ m.owner[x] = Self
  /\ m' = HandOver(m, x)
  /\ k' = IF k.q[wait_q(x)] = <<>> THEN k
          ELSE kthreads_schedule(kthreadq_release(k, wait_q(x)))
  /\ Leaving(x)
  /\ UNCHANGED <<live, handles, joining>>

sys__monitor_wait(x, c) ==
  /\ FreeToCall /\ {x, c} \subseteq live
  /\ m.owner[x] = Self
  /\ m' = HandOver([m EXCEPT !.qdata[Self] = x], x)
  /\ k' = kthreads_schedule(
            kthreadq_release(kthread_enqueue(k, Self, wait_q(c)), wait_q(x)))
  /\ UNCHANGED <<live, entered, handles, joining>>

\* EXIT ( E_NOT_OWNER ): nothing changes.
NotOwner(x) ==
  /\ FreeToCall /\ x \in live
  /\ m.owner[x] # Self
  /\ UNCHANGED allVars

-----------------------------------------------------------------------------
\* Mutation: a signalled thread gets the monitor even when it is locked.
ReleaseFirst_intoLocked(s, c) ==
  LET t == Head(s.k.q[wait_q(c)])
      x == s.m.qdata[t]
  IN  [s EXCEPT !.k = kthreadq_release(@, wait_q(c)),
                !.m.lock[x] = TRUE, !.m.owner[x] = t, !.reschedule = TRUE]

(***************************************************************************)
(* k_monitor_release: one turn of its loop takes the first thread of       *)
(* condition queue c.  It gets the monitor it waits with, if that is not   *)
(* locked, or goes to the end of the monitor's entrance queue.             *)
(***************************************************************************)
ReleaseFirst(s, c) ==
  LET t == Head(s.k.q[wait_q(c)])
      x == s.m.qdata[t]
  IN  IF s.m.lock[x]
      THEN [s EXCEPT !.k = kthread_enqueue(kthreadq_remove_first(@, wait_q(c)),
                                           t, wait_q(x))]
      ELSE [s EXCEPT !.k = kthreadq_release(@, wait_q(c)),
                     !.m = [@ EXCEPT !.lock[x] = TRUE, !.owner[x] = t],
                     !.reschedule = TRUE]

Reschedule(s) == IF s.reschedule THEN kthreads_schedule(s.k) ELSE s.k

k_monitor_release(c, turns) ==
  LET after[i \in 0 .. turns] ==
        IF i = 0 THEN [k |-> k, m |-> m, reschedule |-> FALSE]
                 ELSE ReleaseFirst(after[i - 1], c)
  IN  /\ k' = Reschedule(after[turns])
      /\ m' = after[turns].m

sys__monitor_signal(c) ==
  /\ FreeToCall /\ c \in live
  /\ k_monitor_release(c, IF k.q[wait_q(c)] = <<>> THEN 0 ELSE 1)
  /\ UNCHANGED <<live, entered, handles, joining>>

sys__monitor_broadcast(c) ==
  /\ FreeToCall /\ c \in live
  /\ k_monitor_release(c, Len(k.q[wait_q(c)]))
  /\ UNCHANGED <<live, entered, handles, joining>>

-----------------------------------------------------------------------------
\* A step of Threads; a new thread has entered no monitor.
ThreadStep ==
  /\ Next
  /\ entered' = [t \in Desc |-> IF t \in k'.all_threads \ k.all_threads THEN {}
                                ELSE entered[t]]
  /\ UNCHANGED <<m, live>>

MonNext ==
  \/ ThreadStep
  \/ \E x \in Mon :
       \/ sys__monitor_init(x)
       \/ sys__monitor_destroy(x)
       \/ sys__monitor_lock(x)
       \/ sys__monitor_unlock(x)
       \/ NotOwner(x)
       \/ \E c \in Cond : sys__monitor_wait(x, c)
  \/ \E c \in Cond :
       \/ sys__monitor_queue_init(c)
       \/ sys__monitor_queue_destroy(c)
       \/ sys__monitor_signal(c)
       \/ sys__monitor_broadcast(c)

MonSpec == MonInit /\ [][MonNext]_allVars

-----------------------------------------------------------------------------
MonTypeOK == /\ TypeOK
             /\ m \in MonitorState
             /\ live \subseteq Mon \cup Cond
             /\ entered \in [Desc -> SUBSET Mon]

(***************************************************************************)
(* No thread is left at an open monitor: threads block at the entrance     *)
(* only while the monitor is locked, a locked monitor has an owner and an  *)
(* open one has none, in whatever order lock, unlock, wait, signal and     *)
(* broadcast come, monitors and queues are destroyed, and threads exit or  *)
(* are cancelled while they wait.                                          *)
(***************************************************************************)
NobodyAtOpenMonitor ==
  \A x \in Mon \cap live :
    /\ m.lock[x] <=> m.owner[x] # NULL
    /\ k.q[wait_q(x)] # <<>> => m.lock[x]

(***************************************************************************)
(* Mutual exclusion: of the threads that called monitor_lock and have not  *)
(* unlocked, at most one is out of the kernel's queues at a time, and that *)
(* one is the owner; it also owns the monitor when monitor_wait returns    *)
(* (unless the condition queue was destroyed), even with one condition     *)
(* queue used for several monitors and owners that end inside.             *)
(***************************************************************************)
Inside(t, x) == x \in entered[t] /\ k.state[t] \in {ACTIVE, READY}

MutualExclusion ==
  \A x \in Mon \cap live : \A t \in k.all_threads : Inside(t, x) => m.owner[x] = t
=============================================================================
