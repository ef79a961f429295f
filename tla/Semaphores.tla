----------------------------- MODULE Semaphores -----------------------------
(***************************************************************************)
(* Semaphores (kernel/semaphore.c) on top of the thread subsystem: the     *)
(* programs of Threads, which can also make the semaphore system calls.    *)
(***************************************************************************)
EXTENDS Threads

CONSTANTS
  Sem,            \* user semaphores; each names the queue of its ksem_t
  InitialValue,   \* arguments of sem_init
  MaxValue        \* bound: sem_post is not called above this value

ASSUME SemaphoresAssumption ==
  /\ Sem \subseteq WaitQueue
  /\ InitialValue \subseteq Int /\ MaxValue \in Nat

VARIABLES
  live,       \* semaphores with a ksem_t: sem->ptr is not NULL
  sem_value

semVars == <<live, sem_value>>
allVars == <<vars, semVars>>

SemInit ==
  /\ Init
  /\ live = {}
  /\ sem_value = [s \in Sem |-> 0]

\* Initialising a live semaphore again would leak its ksem_t and its waiters;
\* programs do not do that.
sys__sem_init(s) ==
  /\ FreeToCall /\ s \notin live
  /\ \E initial_value \in InitialValue :
       sem_value' = [sem_value EXCEPT ![s] = initial_value]
  /\ live' = live \cup {s}
  /\ k' = [k EXCEPT !.q[wait_q(s)] = <<>>]
  /\ UNCHANGED <<handles, joining>>

\* Mutation: the threads blocked on the semaphore are not released.
sys__sem_destroy_silent(s) ==
  /\ FreeToCall /\ s \in live
  /\ live' = live \ {s}
  /\ UNCHANGED <<k, sem_value, handles, joining>>

sys__sem_destroy(s) ==
  /\ FreeToCall /\ s \in live
  /\ k' = IF k.q[wait_q(s)] = <<>> THEN k
          ELSE kthreads_schedule(kthreadq_release_all(k, wait_q(s)))
  /\ live' = live \ {s}
  /\ UNCHANGED <<sem_value, handles, joining>>

\* Mutation: the value also grows when a thread is released.
sys__sem_post_both(s) ==
  /\ FreeToCall /\ s \in live
  /\ sem_value[s] < MaxValue
  /\ sem_value' = [sem_value EXCEPT ![s] = @ + 1]
  /\ k' = kthreads_schedule(kthreadq_release(k, wait_q(s)))
  /\ UNCHANGED <<live, handles, joining>>

sys__sem_post(s) ==
  /\ FreeToCall /\ s \in live
  /\ IF k.q[wait_q(s)] = <<>>
     THEN /\ sem_value[s] < MaxValue
          /\ sem_value' = [sem_value EXCEPT ![s] = @ + 1]
          /\ k' = k
     ELSE /\ k' = kthreads_schedule(kthreadq_release(k, wait_q(s)))
          /\ UNCHANGED sem_value
  /\ UNCHANGED <<live, handles, joining>>

sys__sem_wait(s) ==
  /\ FreeToCall /\ s \in live
  /\ IF sem_value[s] > 0
     THEN /\ sem_value' = [sem_value EXCEPT ![s] = @ - 1]
          /\ k' = k
     ELSE /\ k' = kthreads_schedule(kthread_enqueue(k, Self, wait_q(s)))
          /\ UNCHANGED sem_value
  /\ UNCHANGED <<live, handles, joining>>

SemNext ==
  \/ Next /\ UNCHANGED semVars
  \/ \E s \in Sem : \/ sys__sem_init(s)
                    \/ sys__sem_destroy(s)
                    \/ sys__sem_post(s)
                    \/ sys__sem_wait(s)

SemSpec == SemInit /\ [][SemNext]_allVars

-----------------------------------------------------------------------------
SemTypeOK == /\ TypeOK
             /\ live \subseteq Sem
             /\ sem_value \in [Sem -> Int]

(***************************************************************************)
(* No wake-up is lost: a thread is blocked on a semaphore only while its   *)
(* value is not positive, and never on a destroyed semaphore (whose ksem_t *)
(* and queue are freed memory), whatever threads exit or are cancelled in  *)
(* between (sys__sem_post, sys__sem_wait, sys__sem_destroy).               *)
(***************************************************************************)
NoLostWakeup ==
  \A s \in Sem : k.q[wait_q(s)] # <<>> => s \in live /\ sem_value[s] <= 0

(***************************************************************************)
(* Each semaphore is a CountingSemaphore: scheduling, thread exit and      *)
(* cancellation do not change its value or the order of its waiters, and a *)
(* blocked thread goes on only when it is given a unit or it is destroyed. *)
(***************************************************************************)
Abstract(s) == INSTANCE CountingSemaphore
                 WITH Thread <- Desc, exists <- s \in live,
                      value <- sem_value[s], waiting <- k.q[wait_q(s)]

ImplementsSemaphore ==
  /\ \A s \in Sem : Abstract(s)!Init
  /\ [][\A s \in Sem : [Abstract(s)!Next]_(Abstract(s)!vars)]_allVars
=============================================================================
