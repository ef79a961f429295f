-------------------------- MODULE SemaphoresProofs --------------------------
(***************************************************************************)
(* The invariants of Semaphores hold for any number of threads, semaphores *)
(* and initial values: the semaphore calls keep the invariant of the       *)
(* thread subsystem, and no thread call blocks anybody on a semaphore.     *)
(***************************************************************************)
EXTENDS Semaphores, ThreadsProofs

-----------------------------------------------------------------------------
(***************************************************************************)
(* The inductive invariant: nobody waits for a unit that is there, on top  *)
(* of the invariant of the thread subsystem, which says that the running   *)
(* thread is in no queue and that the queues are those of its waiters.     *)
(***************************************************************************)
SemInv ==
  /\ IInv
  /\ live \subseteq Sem
  /\ sem_value \in [Sem -> Int]
  /\ NoLostWakeup

\* Semaphores have different queues.
LEMMA SemQueues ==
  /\ \A s \in Sem : wait_q(s) \in BlockedQueue /\ \A v \in Desc : wait_q(s) # join_queue(v)
  /\ \A s, u \in Sem : wait_q(s) = wait_q(u) => s = u
BY SemaphoresAssumption, QueueNames DEF wait_q

\* A call leaves waiting as the queue of s, and the other semaphores' as they were.
LeavesQueue(s, waiting) ==
  /\ k'.q[wait_q(s)] = waiting
  /\ \A u \in Sem \ {s} : k'.q[wait_q(u)] = k.q[wait_q(u)]

\* sem_destroy releases all waiters.
LEMMA DestroyInv ==
  ASSUME SemInv, NEW s \in Sem, sys__sem_destroy(s)
  PROVE  SemInv' /\ LeavesQueue(s, <<>>)
<1>1. /\ IInv /\ Good(k) /\ Sound(k) /\ Consistent(k) /\ live \subseteq Sem
      /\ sem_value \in [Sem -> Int] /\ NoLostWakeup
  BY DEF SemInv, IInv, GInv, Good
<1>2. sem_value' = sem_value /\ live' = live \ {s} /\ UNCHANGED <<handles, joining>>
  BY DEF sys__sem_destroy
<1>3. CASE k.q[wait_q(s)] = <<>>
  <2>1. k' = k
    BY <1>3 DEF sys__sem_destroy
  <2>2. NoLostWakeup'
    BY <1>1, <1>2, <1>3, <2>1 DEF NoLostWakeup
  <2> QED BY <1>1, <1>2, <1>3, <2>1, <2>2 DEF SemInv, IInv, GInv, LeavesQueue
<1>4. CASE k.q[wait_q(s)] # <<>>
  <2> DEFINE r == kthreadq_release_all(k, wait_q(s))
  <2>1. k' = kthreads_schedule(r)
    BY <1>4 DEF sys__sem_destroy
  <2>2. ReleasedAll(k, wait_q(s), r)
    BY <1>1, SemQueues, ReleaseAllOK
  <2> HIDE DEF r
  <2>3. Good(r) /\ Sound(r)
    <3>1. \A v \in Desc : r.state[v] # PASSIVE <=> k.state[v] # PASSIVE
      BY <2>2 DEF ReleasedAll, PASSIVE, WAIT, READY
    <3>2. \A v \in Desc : r.q[join_queue(v)] = k.q[join_queue(v)]
      BY <2>2, SemQueues, QueueNames DEF ReleasedAll
    <3> QED BY <1>1, <2>2, <3>1, <3>2, GoodMoves DEF ReleasedAll
  <2>4. IInv' /\ \A Q \in BlockedQueue : k'.q[Q] = r.q[Q]
    BY <1>1, <1>2, <2>1, <2>2, <2>3, RescheduleOK DEF ReleasedAll, Rescheduled, BlockedSame
  <2>5. LeavesQueue(s, <<>>)
    BY <2>2, <2>4, SemQueues DEF ReleasedAll, LeavesQueue
  <2>6. NoLostWakeup'
    BY <1>1, <1>2, <2>5 DEF NoLostWakeup, LeavesQueue
  <2> QED BY <1>1, <1>2, <2>4, <2>5, <2>6 DEF SemInv
<1> QED BY <1>3, <1>4

\* sem_post releases one waiter if there is one.
LEMMA PostInv ==
  ASSUME SemInv, NEW s \in Sem, sys__sem_post(s)
  PROVE  /\ SemInv'
         /\ LeavesQueue(s, IF k.q[wait_q(s)] = <<>> THEN <<>> ELSE Tail(k.q[wait_q(s)]))
<1>1. /\ IInv /\ Good(k) /\ Sound(k) /\ Consistent(k) /\ live \subseteq Sem
      /\ sem_value \in [Sem -> Int] /\ NoLostWakeup
  BY DEF SemInv, IInv, GInv, Good
<1>2. live' = live /\ UNCHANGED <<handles, joining>>
  BY DEF sys__sem_post
<1>3. CASE k.q[wait_q(s)] = <<>>
  <2>1. k' = k /\ sem_value' = [sem_value EXCEPT ![s] = @ + 1]
    BY <1>3 DEF sys__sem_post
  <2>2. sem_value' \in [Sem -> Int] /\ \A u \in Sem \ {s} : sem_value'[u] = sem_value[u]
    BY <1>1, <2>1
  <2>3. NoLostWakeup'
    BY <1>1, <1>2, <1>3, <2>1, <2>2 DEF NoLostWakeup
  <2> QED BY <1>1, <1>2, <1>3, <2>1, <2>2, <2>3 DEF SemInv, IInv, GInv, LeavesQueue
<1>4. CASE k.q[wait_q(s)] # <<>>
  <2> DEFINE r == kthreadq_release(k, wait_q(s))
  <2>1. k' = kthreads_schedule(r) /\ sem_value' = sem_value
    BY <1>4 DEF sys__sem_post
  <2>2. ReleasedFirst(k, wait_q(s), r)
    BY <1>1, <1>4, SemQueues, ReleaseOK
  <2> HIDE DEF r
  <2>3. Good(r) /\ Sound(r)
    <3>1. \A v \in Desc : r.state[v] # PASSIVE <=> k.state[v] # PASSIVE
      BY <2>2 DEF ReleasedFirst, PASSIVE, WAIT, READY
    <3>2. \A v \in Desc : r.q[join_queue(v)] = k.q[join_queue(v)]
      BY <2>2, SemQueues, QueueNames DEF ReleasedFirst
    <3> QED BY <1>1, <2>2, <3>1, <3>2, GoodMoves DEF ReleasedFirst
  <2>4. IInv' /\ \A Q \in BlockedQueue : k'.q[Q] = r.q[Q]
    BY <1>1, <1>2, <2>1, <2>2, <2>3, RescheduleOK DEF ReleasedFirst, Rescheduled, BlockedSame
  <2>5. LeavesQueue(s, Tail(k.q[wait_q(s)]))
    BY <2>2, <2>4, SemQueues DEF ReleasedFirst, LeavesQueue
  <2>6. NoLostWakeup'
    BY <1>1, <1>2, <1>4, <2>1, <2>5 DEF NoLostWakeup, LeavesQueue
  <2> QED BY <1>1, <1>2, <1>4, <2>1, <2>4, <2>5, <2>6 DEF SemInv
<1> QED BY <1>3, <1>4

\* sem_wait takes a unit, or blocks on a live semaphore that has none.
LEMMA WaitInv ==
  ASSUME SemInv, NEW s \in Sem, sys__sem_wait(s)
  PROVE  /\ SemInv' /\ Self \in Desc
         /\ LeavesQueue(s, IF sem_value[s] > 0 THEN k.q[wait_q(s)]
                                              ELSE Append(k.q[wait_q(s)], Self))
<1>1. /\ IInv /\ Good(k) /\ Sound(k) /\ Consistent(k) /\ k \in KState /\ QueuesOK(k)
      /\ live \subseteq Sem /\ sem_value \in [Sem -> Int] /\ NoLostWakeup
  BY DEF SemInv, IInv, GInv, Good, Consistent
<1>2. /\ live' = live /\ UNCHANGED <<handles, joining>>
      /\ s \in live /\ Self \in Desc \ {Idle} /\ Self \in k.all_threads
      /\ k.state[Self] = ACTIVE
  BY <1>1, RunsFacts DEF IInv, GInv, Self, sys__sem_wait, FreeToCall, UserCall
<1>3. CASE sem_value[s] > 0
  <2>1. k' = k /\ sem_value' = [sem_value EXCEPT ![s] = @ - 1]
    BY <1>3 DEF sys__sem_wait
  <2>2. /\ sem_value' \in [Sem -> Int]
        /\ \A u \in Sem \ {s} : sem_value'[u] = sem_value[u]
    BY <1>1, <2>1
  <2>3. ~(sem_value[s] <= 0)
    BY <1>1, <1>3
  <2>4. NoLostWakeup'
    BY <1>1, <1>2, <2>1, <2>2, <2>3 DEF NoLostWakeup
  <2> QED BY <1>1, <1>2, <1>3, <2>1, <2>2, <2>4 DEF SemInv, IInv, GInv, LeavesQueue
<1>4. CASE ~(sem_value[s] > 0)
  <2> DEFINE r == kthread_enqueue(k, Self, wait_q(s))
  <2>1. k' = kthreads_schedule(r) /\ sem_value' = sem_value
    BY <1>4 DEF sys__sem_wait
  <2>2. ~Queued(k, Self)
    BY <1>1, <1>2 DEF Queued, QueuesOK, Belongs, ACTIVE, READY, WAIT
  <2>3. Enqueued(k, Self, wait_q(s), r)
    BY <1>1, <1>2, <2>2, SemQueues, EnqueueOK
  <2> HIDE DEF r
  <2>4. Good(r) /\ Sound(r)
    <3>1. \A v \in Desc : r.state[v] # PASSIVE <=> k.state[v] # PASSIVE
      BY <1>2, <2>3 DEF Enqueued, PASSIVE, WAIT, ACTIVE
    <3>2. \A v \in Desc : r.q[join_queue(v)] = k.q[join_queue(v)]
      BY <2>3, SemQueues, QueueNames DEF Enqueued, OtherQueuesSame
    <3> QED BY <1>1, <2>3, <3>1, <3>2, GoodMoves DEF Enqueued
  <2>5. IInv' /\ \A Q \in BlockedQueue : k'.q[Q] = r.q[Q]
    BY <1>1, <1>2, <2>1, <2>3, <2>4, RescheduleOK DEF Enqueued, Rescheduled, BlockedSame
  <2>6. LeavesQueue(s, Append(k.q[wait_q(s)], Self))
    BY <2>3, <2>5, SemQueues DEF Enqueued, OtherQueuesSame, Queue, LeavesQueue
  <2>7. sem_value[s] <= 0
    BY <1>1, <1>4
  <2>8. NoLostWakeup'
    BY <1>1, <1>2, <2>1, <2>6, <2>7 DEF NoLostWakeup, LeavesQueue
  <2> QED BY <1>1, <1>2, <1>4, <2>1, <2>5, <2>6, <2>8 DEF SemInv
<1> QED BY <1>3, <1>4

\* sem_init: the queue of a semaphore that does not exist is empty.
LEMMA CreateInv ==
  ASSUME SemInv, NEW s \in Sem, sys__sem_init(s)
  PROVE  SemInv' /\ LeavesQueue(s, <<>>)
<1>1. /\ IInv /\ k \in KState /\ live \subseteq Sem /\ sem_value \in [Sem -> Int] /\ NoLostWakeup
  BY DEF SemInv, IInv, GInv, Good, Consistent
<1>2. PICK initial_value \in InitialValue : sem_value' = [sem_value EXCEPT ![s] = initial_value]
  BY DEF sys__sem_init
<1>3. /\ live' = live \cup {s} /\ UNCHANGED <<handles, joining>> /\ s \notin live
      /\ k' = WithQueue(k, wait_q(s), <<>>)
  BY DEF sys__sem_init, WithQueue
<1>4. k.q[wait_q(s)] = <<>>
  BY <1>1, <1>3 DEF NoLostWakeup
<1>5. k' = k
  <2>1. k.q \in [Queue -> Seq(Desc)]
    BY <1>1 DEF KState
  <2>2. [k.q EXCEPT ![wait_q(s)] = <<>>] = k.q
    BY <1>4, <2>1
  <2>3. k' = [k EXCEPT !.q = [k.q EXCEPT ![wait_q(s)] = <<>>]]
    BY <1>3 DEF WithQueue
  <2> QED BY <1>1, <2>2, <2>3 DEF KState
<1>6. sem_value' \in [Sem -> Int] /\ \A u \in Sem \ {s} : sem_value'[u] = sem_value[u]
  BY <1>1, <1>2, SemaphoresAssumption
<1>7. NoLostWakeup'
  BY <1>1, <1>3, <1>4, <1>5, <1>6 DEF NoLostWakeup
<1> QED BY <1>1, <1>3, <1>4, <1>5, <1>6, <1>7 DEF SemInv, IInv, GInv, LeavesQueue

\* A call of thread.c takes a thread that it ends out of the queue it is in.
LEMMA ThreadStepInv ==
  ASSUME SemInv, [Next]_vars, UNCHANGED semVars
  PROVE  /\ SemInv'
         /\ \E t : \A s \in Sem : k'.q[wait_q(s)] = list_find_and_remove(k.q[wait_q(s)], t)
<1>1. PICK t \in Desc \cup {NULL} : Frame(k, k', t)
  BY NextInv DEF SemInv
<1>2. live' = live /\ sem_value' = sem_value
  BY DEF semVars
<1>3. \A s \in Sem : k'.q[wait_q(s)] = list_find_and_remove(k.q[wait_q(s)], t)
  BY <1>1, SemaphoresAssumption DEF Frame
<1>4. \A s \in Sem : k.q[wait_q(s)] = <<>> => k'.q[wait_q(s)] = <<>>
  BY <1>3, NoDupEmpty DEF list_find_and_remove
<1>5. NoLostWakeup'
  BY <1>2, <1>4 DEF SemInv, NoLostWakeup
<1> QED BY <1>2, <1>3, <1>5, NextInv DEF SemInv

LEMMA SemInvInvariant == SemSpec => []SemInv
<1>1. SemInit => SemInv
  <2> SUFFICES ASSUME SemInit PROVE SemInv
    OBVIOUS
  <2>1. IInv /\ \A w \in WaitQueue : k.q[wait_q(w)] = <<>>
    BY InitInv DEF SemInit
  <2> QED BY <2>1, SemaphoresAssumption DEF SemInit, SemInv, NoLostWakeup
<1>2. SemInv /\ [SemNext]_allVars => SemInv'
  <2> SUFFICES ASSUME SemInv, [SemNext]_allVars PROVE SemInv'
    OBVIOUS
  <2>1. CASE [Next]_vars /\ UNCHANGED semVars
    BY <2>1, ThreadStepInv
  <2>2. ASSUME NEW s \in Sem,
               sys__sem_init(s) \/ sys__sem_destroy(s) \/ sys__sem_post(s) \/ sys__sem_wait(s)
        PROVE  SemInv'
    BY <2>2, CreateInv, DestroyInv, PostInv, WaitInv
  <2> QED BY <2>1, <2>2 DEF SemNext, allVars
<1> QED BY <1>1, <1>2, PTL DEF SemSpec

-----------------------------------------------------------------------------
(***************************************************************************)
(* Type correctness: the programs' variables and the kernel's keep their   *)
(* types also when semaphores are used.                                    *)
(***************************************************************************)
THEOREM SemTypeCorrect == SemSpec => []SemTypeOK
<1>1. SemInv => SemTypeOK
  BY InvImplies DEF SemInv, SemTypeOK
<1> QED BY <1>1, SemInvInvariant, PTL

(***************************************************************************)
(* No thread is left blocked on a semaphore that has a unit for it, or on  *)
(* one that is destroyed, whatever threads are created, exit or are        *)
(* cancelled between the calls of semaphore.c.                             *)
(***************************************************************************)
THEOREM NoWakeupEverLost == SemSpec => []NoLostWakeup
<1>1. SemInv => NoLostWakeup
  BY DEF SemInv
<1> QED BY <1>1, SemInvInvariant, PTL

-----------------------------------------------------------------------------
(***************************************************************************)
(* Refinement: what each call does to one semaphore is a step of           *)
(* CountingSemaphore, or none.                                             *)
(***************************************************************************)
AbstractStep(s) == [Abstract(s)!Next]_(Abstract(s)!vars)

\* Another semaphore's call, or one that changes nothing of s.
LEMMA StutterStep ==
  ASSUME NEW s \in Sem, s \in live' <=> s \in live, sem_value'[s] = sem_value[s],
         k'.q[wait_q(s)] = k.q[wait_q(s)]
  PROVE  AbstractStep(s)
BY DEF AbstractStep, Abstract!vars

\* A thread that is cancelled leaves the queue of s.
LEMMA WithdrawStep ==
  ASSUME k \in KState, NEW s \in Sem, NEW t, live' = live, sem_value' = sem_value,
         k'.q[wait_q(s)] = list_find_and_remove(k.q[wait_q(s)], t)
  PROVE  AbstractStep(s)
<1> DEFINE w == k.q[wait_q(s)]
<1>1. w \in Seq(Desc)
  BY SemQueues, QueueNames, SemaphoresAssumption DEF KState
<1>2. CASE t \notin ToSet(w)
  BY <1>2, StutterStep DEF list_find_and_remove
<1>3. CASE t \in ToSet(w)
  <2> DEFINE i == IndexOf(w, t)
             r == list_find_and_remove(w, t)
  <2>1. /\ i \in 1 .. Len(w) /\ r \in Seq(Desc) /\ Len(r) = Len(w) - 1
        /\ \A j \in 1 .. Len(r) : r[j] = IF j < i THEN w[j] ELSE w[j + 1]
    BY <1>1, <1>3, RemoveGet
  <2> HIDE DEF i, r, w
  <2>2. r = [j \in 1 .. Len(w) - 1 |-> w[IF j < i THEN j ELSE j + 1]]
    BY <1>1, <2>1
  <2>3. \E n \in 1 .. Len(w) :
          k'.q[wait_q(s)] = [j \in 1 .. Len(w) - 1 |-> w[IF j < n THEN j ELSE j + 1]]
    BY <2>1, <2>2 DEF r, w
  <2>4. Abstract(s)!Withdraw
    BY <2>3 DEF Abstract!Withdraw, w
  <2> QED BY <2>4 DEF AbstractStep, Abstract!Next
<1> QED BY <1>2, <1>3

\* The semaphores a call is not about.
LEMMA OtherStep ==
  ASSUME SemInv, NEW s \in Sem, NEW q, LeavesQueue(s, q), NEW u \in Sem \ {s},
         live' \in {live, live \cup {s}, live \ {s}},
         sem_value' = sem_value \/ \E v : sem_value' = [sem_value EXCEPT ![s] = v]
  PROVE  AbstractStep(u)
<1>1. sem_value'[u] = sem_value[u]
  BY DEF SemInv
<1>2. u \in live' <=> u \in live
  OBVIOUS
<1>3. k'.q[wait_q(u)] = k.q[wait_q(u)]
  BY DEF LeavesQueue
<1> QED BY <1>1, <1>2, <1>3, StutterStep

LEMMA CreateStep ==
  ASSUME SemInv, NEW s \in Sem, sys__sem_init(s)
  PROVE  \A u \in Sem : AbstractStep(u)
<1>1. PICK initial_value \in InitialValue : sem_value' = [sem_value EXCEPT ![s] = initial_value]
  BY DEF sys__sem_init
<1>2. /\ LeavesQueue(s, <<>>) /\ live' = live \cup {s} /\ s \notin live
      /\ sem_value'[s] \in InitialValue
  BY <1>1, CreateInv DEF sys__sem_init, SemInv
<1>3. Abstract(s)!Create
  <2>1. ~(s \in live) /\ s \in live' /\ k'.q[wait_q(s)] = <<>>
    BY <1>2 DEF LeavesQueue
  <2> QED BY <1>2, <2>1 DEF Abstract!Create
<1>4. AbstractStep(s)
  BY <1>3 DEF AbstractStep, Abstract!Next
<1>5. \A u \in Sem \ {s} : AbstractStep(u)
  BY <1>1, <1>2, OtherStep
<1> QED BY <1>4, <1>5

LEMMA DestroyStep ==
  ASSUME SemInv, NEW s \in Sem, sys__sem_destroy(s)
  PROVE  \A u \in Sem : AbstractStep(u)
<1>1. LeavesQueue(s, <<>>) /\ live' = live \ {s} /\ s \in live /\ sem_value' = sem_value
  BY DestroyInv DEF sys__sem_destroy
<1>2. Abstract(s)!Destroy
  BY <1>1 DEF Abstract!Destroy, LeavesQueue
<1>3. AbstractStep(s)
  BY <1>2 DEF AbstractStep, Abstract!Next
<1>4. \A u \in Sem \ {s} : AbstractStep(u)
  BY <1>1, OtherStep
<1> QED BY <1>3, <1>4

LEMMA PostStep ==
  ASSUME SemInv, NEW s \in Sem, sys__sem_post(s)
  PROVE  \A u \in Sem : AbstractStep(u)
<1> DEFINE w == k.q[wait_q(s)]
<1>1. live' = live /\ s \in live /\ LeavesQueue(s, IF w = <<>> THEN <<>> ELSE Tail(w))
  BY PostInv DEF sys__sem_post
<1>2. IF w = <<>> THEN sem_value' = [sem_value EXCEPT ![s] = @ + 1]
                  ELSE sem_value' = sem_value
  BY DEF sys__sem_post
<1>3. Abstract(s)!Give
  <2>1. sem_value'[s] = IF w = <<>> THEN sem_value[s] + 1 ELSE sem_value[s]
    BY <1>2 DEF SemInv
  <2>2. k'.q[wait_q(s)] = IF w = <<>> THEN w ELSE Tail(w)
    BY <1>1 DEF LeavesQueue
  <2> HIDE DEF w
  <2>3. IF w = <<>> THEN sem_value'[s] = sem_value[s] + 1 /\ k'.q[wait_q(s)] = w
                    ELSE sem_value'[s] = sem_value[s] /\ k'.q[wait_q(s)] = Tail(w)
    BY <2>1, <2>2
  <2> QED BY <1>1, <2>3 DEF Abstract!Give, w
<1>4. AbstractStep(s)
  BY <1>3 DEF AbstractStep, Abstract!Next
<1>5. \A u \in Sem \ {s} : AbstractStep(u)
  BY <1>1, <1>2, OtherStep
<1> QED BY <1>4, <1>5

LEMMA WaitStep ==
  ASSUME SemInv, NEW s \in Sem, sys__sem_wait(s)
  PROVE  \A u \in Sem : AbstractStep(u)
<1> DEFINE w == k.q[wait_q(s)]
<1>1. /\ live' = live /\ s \in live /\ Self \in Desc /\ sem_value[s] \in Int
      /\ LeavesQueue(s, IF sem_value[s] > 0 THEN w ELSE Append(w, Self))
  BY WaitInv DEF sys__sem_wait, SemInv
<1>2. IF sem_value[s] > 0 THEN sem_value' = [sem_value EXCEPT ![s] = @ - 1]
                          ELSE sem_value' = sem_value
  BY DEF sys__sem_wait
<1>3. ASSUME sem_value[s] > 0 PROVE AbstractStep(s)
  <2>1. sem_value'[s] = sem_value[s] - 1 /\ k'.q[wait_q(s)] = w
    BY <1>1, <1>2, <1>3 DEF SemInv, LeavesQueue
  <2>2. Abstract(s)!Take
    BY <1>1, <1>3, <2>1 DEF Abstract!Take
  <2> QED BY <2>2 DEF AbstractStep, Abstract!Next
<1>4. ASSUME ~(sem_value[s] > 0) PROVE AbstractStep(s)
  <2>1. sem_value' = sem_value /\ k'.q[wait_q(s)] = Append(w, Self) /\ sem_value[s] <= 0
    BY <1>1, <1>2, <1>4 DEF LeavesQueue
  <2>2. Abstract(s)!Wait
    BY <1>1, <2>1 DEF Abstract!Wait
  <2> QED BY <2>2 DEF AbstractStep, Abstract!Next
<1>5. \A u \in Sem \ {s} : AbstractStep(u)
  BY <1>1, <1>2, OtherStep
<1> QED BY <1>3, <1>4, <1>5

LEMMA SemNextStep ==
  ASSUME SemInv, [SemNext]_allVars
  PROVE  \A u \in Sem : AbstractStep(u)
<1>1. CASE [Next]_vars /\ UNCHANGED semVars
  <2>1. k \in KState
    BY DEF SemInv, IInv, GInv, Good, Consistent
  <2>2. PICK t : \A s \in Sem : k'.q[wait_q(s)] = list_find_and_remove(k.q[wait_q(s)], t)
    BY <1>1, ThreadStepInv
  <2> QED BY <1>1, <2>1, <2>2, WithdrawStep DEF semVars
<1>2. ASSUME NEW s \in Sem,
             sys__sem_init(s) \/ sys__sem_destroy(s) \/ sys__sem_post(s) \/ sys__sem_wait(s)
      PROVE  \A u \in Sem : AbstractStep(u)
  BY <1>2, CreateStep, DestroyStep, PostStep, WaitStep
<1> QED BY <1>1, <1>2 DEF SemNext, allVars

(***************************************************************************)
(* semaphore.c on top of thread.c implements CountingSemaphore, for each   *)
(* semaphore: whatever the scheduler does, and whoever exits or is         *)
(* cancelled, a post gives its unit to the thread that waits longest or    *)
(* adds it to the value, and a wait takes one or queues up.                *)
(***************************************************************************)
THEOREM SemaphoresImplemented == SemSpec => ImplementsSemaphore
<1>1. SemInit => \A s \in Sem : Abstract(s)!Init
  <2> SUFFICES ASSUME SemInit, NEW s \in Sem PROVE Abstract(s)!Init
    OBVIOUS
  <2>1. k.q[wait_q(s)] = <<>>
    BY InitInv, SemaphoresAssumption DEF SemInit
  <2>2. ~(s \in live) /\ sem_value[s] = 0
    BY DEF SemInit
  <2> QED BY <2>1, <2>2 DEF Abstract!Init
<1>2. SemInv /\ [SemNext]_allVars => [\A s \in Sem : AbstractStep(s)]_allVars
  BY SemNextStep
<1>3. SemSpec => [][\A s \in Sem : AbstractStep(s)]_allVars
  BY <1>2, SemInvInvariant, PTL DEF SemSpec
<1>4. SemSpec => \A s \in Sem : Abstract(s)!Init
  BY <1>1 DEF SemSpec
<1> QED BY <1>3, <1>4 DEF ImplementsSemaphore, AbstractStep

===============================================================================
