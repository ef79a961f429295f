---------------------------- MODULE DevicesProofs ----------------------------
(***************************************************************************)
(* The device layer: the lock of a device is held by one thread, the       *)
(* drivers' indices stay in their buffers, the special keys that are down  *)
(* are known, and the circular buffers are the queues of RingBuffer.  The  *)
(* loops of the drivers are folds over sequences, so the lemmas about them *)
(* speak of the states between their turns.                                *)
(***************************************************************************)
EXTENDS Devices, ThreadsProofs, SequenceTheorems

(***************************************************************************)
(* The inductive invariant: who waits has called lock and not yet unlock,  *)
(* at most one of those who have does not wait, and the device is locked.  *)
(***************************************************************************)
LocksOK ==
  \A d \in Device :
    /\ ToSet(k.q[wait_q(d)]) \subseteq locking[d]
    /\ \A a, b \in Inside(d) : a = b
    /\ locking[d] # {} => kdev[d].locked

LockInv ==
  /\ IInv
  /\ locking \in [Device -> SUBSET Desc]
  /\ kdev \in [Device -> [open : BOOLEAN, locked : BOOLEAN]]
  /\ LocksOK

LEMMA DeviceQueues ==
  /\ Device \subseteq WaitQueue
  /\ \A d \in Device : wait_q(d) \in BlockedQueue /\ \A v \in Desc : wait_q(d) # join_queue(v)
  /\ \A d, e \in Device : wait_q(d) = wait_q(e) => d = e
BY DevicesAssumption, QueueNames DEF wait_q

LEMMA LockFacts ==
  ASSUME LockInv
  PROVE  /\ IInv /\ Good(k) /\ Sound(k) /\ Consistent(k) /\ k \in KState /\ QueuesOK(k)
         /\ Self \in Desc /\ Self \in k.all_threads /\ k.state[Self] = ACTIVE
         /\ ~Queued(k, Self)
         /\ \A d \in Device : /\ k.q[wait_q(d)] \in Seq(Desc) /\ NoDup(k.q[wait_q(d)])
                              /\ locking[d] \subseteq Desc
         /\ \A d \in Device : ~Waits(k, Self, d)
<1>1. /\ IInv /\ Good(k) /\ Sound(k) /\ Consistent(k) /\ k \in KState /\ QueuesOK(k)
  BY DEF LockInv, IInv, GInv, Good, Consistent
<1>2. Self \in Desc /\ Self \in k.all_threads /\ k.state[Self] = ACTIVE
  BY <1>1, RunsFacts DEF IInv, GInv, Self
<1>3. ~Queued(k, Self)
  BY <1>1, <1>2 DEF Queued, QueuesOK, Belongs, ACTIVE, READY, WAIT
<1>4. \A d \in Device : wait_q(d) \in Queue
  BY DeviceQueues DEF Queue
<1>5. \A d \in Device : /\ k.q[wait_q(d)] \in Seq(Desc) /\ NoDup(k.q[wait_q(d)])
                        /\ locking[d] \subseteq Desc
  BY <1>1, <1>4 DEF KState, QueuesOK, LockInv
<1>6. \A d \in Device : ~Waits(k, Self, d)
  BY <1>3, <1>4 DEF Waits, Queued
<1> QED BY <1>1, <1>2, <1>3, <1>5, <1>6

\* One device's lock at a time.
LockOK(d) ==
  /\ ToSet(k.q[wait_q(d)]) \subseteq locking[d]
  /\ \A a, b \in Inside(d) : a = b
  /\ locking[d] # {} => kdev[d].locked

\* A device whose queue and lock are as they were.
LEMMA OtherLock ==
  ASSUME LocksOK, NEW d \in Device, k'.q[wait_q(d)] = k.q[wait_q(d)],
         locking'[d] = locking[d], kdev'[d].locked = kdev[d].locked
  PROVE  LockOK(d)'
BY DEF LocksOK, LockOK, Inside, Waits

-----------------------------------------------------------------------------
\* A free device is locked; a locked one is waited for, or refused.
LEMMA LockStep ==
  ASSUME LockInv, sys__device_lock
  PROVE  LockInv'
<1>1. PICK wait \in BOOLEAN : Self \notin locking["COM1"] /\ k_device_lock("COM1", wait)
  BY DEF sys__device_lock
<1> DEFINE d == "COM1"
           Q == wait_q(d)
<1>2. /\ d \in Device /\ Q \in BlockedQueue /\ UNCHANGED <<handles, joining>>
      /\ Self # Idle
  BY DevicesAssumption, DeviceQueues
     DEF sys__device_lock, Call, FreeToCall, UserCall
<1>3. PICK s \in Desc : s = Self
  BY LockFacts
<1>4. /\ IInv /\ LocksOK /\ locking \in [Device -> SUBSET Desc]
      /\ kdev \in [Device -> [open : BOOLEAN, locked : BOOLEAN]]
  BY DEF LockInv
<1>5. CASE UNCHANGED <<k, kdev, locking>>
  BY <1>2, <1>4, <1>5 DEF LockInv, IInv, GInv, LocksOK, Inside, Waits
<1>6. CASE ~UNCHANGED <<k, kdev, locking>>
  <2>1. /\ kdev' = [kdev EXCEPT ![d].locked = TRUE]
        /\ locking' = [locking EXCEPT ![d] = @ \cup {s}]
        /\ k' = IF kdev[d].locked THEN kthreads_schedule(kthread_enqueue(k, s, Q)) ELSE k
    BY <1>1, <1>3, <1>6 DEF k_device_lock
  <2>2. /\ kdev' \in [Device -> [open : BOOLEAN, locked : BOOLEAN]]
        /\ kdev'[d].locked /\ \A e \in Device \ {d} : kdev'[e].locked = kdev[e].locked
    BY <1>2, <1>4, <2>1
  <2>3. /\ locking' \in [Device -> SUBSET Desc]
        /\ locking'[d] = locking[d] \cup {s}
        /\ \A e \in Device \ {d} : locking'[e] = locking[e]
    BY <1>2, <1>4, <2>1
  <2>4. CASE ~kdev[d].locked
    <3>1. k' = k
      BY <2>1, <2>4
    <3>2. locking[d] = {}
      BY <1>2, <1>4, <2>4 DEF LocksOK
    <3>3. ToSet(k.q[Q]) = {} /\ locking'[d] = {s}
      BY <1>2, <1>4, <2>3, <3>2 DEF LocksOK
    <3>4. LockOK(d)'
      BY <2>2, <3>1, <3>3 DEF LockOK, Inside
    <3>5. \A e \in Device \ {d} : LockOK(e)'
      BY <1>4, <2>2, <2>3, <3>1, OtherLock
    <3>6. IInv'
      BY <1>2, <1>4, <3>1 DEF IInv, GInv
    <3> QED BY <2>2, <2>3, <3>4, <3>5, <3>6 DEF LockInv, LocksOK, LockOK
  <2>5. CASE kdev[d].locked
    <3> DEFINE r == kthread_enqueue(k, s, Q)
    <3>1. k' = kthreads_schedule(r)
      BY <2>1, <2>5
    <3>2. Enqueued(k, s, Q, r)
      BY <1>2, <1>3, LockFacts, EnqueueOK
    <3> HIDE DEF r
    <3>3. Good(r) /\ Sound(r)
      <4>1. \A v \in Desc : r.state[v] # PASSIVE <=> k.state[v] # PASSIVE
        BY <1>3, <3>2, LockFacts DEF Enqueued, PASSIVE, WAIT, ACTIVE
      <4>2. \A v \in Desc : r.q[join_queue(v)] = k.q[join_queue(v)]
        BY <1>2, <3>2, DeviceQueues, QueueNames DEF Enqueued, OtherQueuesSame
      <4> QED BY <3>2, <4>1, <4>2, LockFacts, GoodMoves DEF Enqueued
    <3>4. IInv' /\ \A R \in BlockedQueue : k'.q[R] = r.q[R]
      BY <1>2, <1>4, <3>1, <3>2, <3>3, RescheduleOK DEF Enqueued, Rescheduled, BlockedSame
    <3>5. k'.q[Q] = Append(k.q[Q], s) /\ ToSet(k'.q[Q]) = ToSet(k.q[Q]) \cup {s}
      <4>1. k.q[Q] \in Seq(Desc)
        BY <1>2, LockFacts
      <4>2. k'.q[Q] = Append(k.q[Q], s)
        BY <1>2, <3>2, <3>4 DEF Enqueued
      <4> QED BY <4>1, <4>2, AppendList
    <3>6. \A e \in Device \ {d} : k'.q[wait_q(e)] = k.q[wait_q(e)]
      BY <1>2, <3>2, <3>4, DeviceQueues DEF Enqueued, OtherQueuesSame, Queue
    <3>7. LockOK(d)'
      <4>1. ToSet(k.q[Q]) \subseteq locking[d]
        BY <1>2, <1>4 DEF LocksOK
      <4>2. \A a \in Inside(d)' : a \in Inside(d)
        BY <2>3, <3>5 DEF Inside, Waits
      <4>3. \A a, b \in Inside(d) : a = b
        BY <1>2, <1>4 DEF LocksOK
      <4> QED BY <2>2, <2>3, <3>5, <4>1, <4>2, <4>3 DEF LockOK
    <3>8. \A e \in Device \ {d} : LockOK(e)'
      BY <1>4, <2>2, <2>3, <3>6, OtherLock
    <3> QED BY <2>2, <2>3, <3>4, <3>7, <3>8 DEF LockInv, LocksOK, LockOK
  <2> QED BY <2>4, <2>5
<1> QED BY <1>5, <1>6

\* The lock is handed over, or given up when nobody waits.
LEMMA UnlockStep ==
  ASSUME LockInv, sys__device_unlock
  PROVE  LockInv'
<1> DEFINE d == "COM1"
           Q == wait_q(d)
<1>1. /\ Self \in locking[d] /\ k_device_unlock(d)
      /\ locking' = [locking EXCEPT ![d] = @ \ {Self}]
      /\ d \in Device /\ Q \in BlockedQueue /\ UNCHANGED <<handles, joining>>
  BY DevicesAssumption, DeviceQueues DEF sys__device_unlock
<1>2. PICK s \in Desc : s = Self /\ ~Waits(k, s, d)
  BY <1>1, LockFacts
<1>3. /\ IInv /\ LocksOK /\ locking \in [Device -> SUBSET Desc]
      /\ kdev \in [Device -> [open : BOOLEAN, locked : BOOLEAN]]
  BY DEF LockInv
<1>4. /\ locking' \in [Device -> SUBSET Desc]
      /\ locking'[d] = locking[d] \ {s}
      /\ \A e \in Device \ {d} : locking'[e] = locking[e]
  BY <1>1, <1>2, <1>3
<1>5. /\ ToSet(k.q[Q]) \subseteq locking[d] /\ kdev[d].locked
      /\ \A t \in locking[d] : t # s => Waits(k, t, d)
  BY <1>1, <1>2, <1>3 DEF LocksOK, Inside
<1>6. CASE k.q[Q] = <<>>
  <2>1. k' = k /\ kdev' = [kdev EXCEPT ![d].locked = FALSE]
    BY <1>1, <1>6 DEF k_device_unlock
  <2>2. /\ kdev' \in [Device -> [open : BOOLEAN, locked : BOOLEAN]]
        /\ \A e \in Device \ {d} : kdev'[e].locked = kdev[e].locked
    BY <1>1, <1>3, <2>1
  <2>3. ToSet(k.q[Q]) = {} /\ locking'[d] = {}
    BY <1>4, <1>5, <1>6, NoDupEmpty DEF Waits
  <2>4. LockOK(d)'
    BY <2>1, <2>3 DEF LockOK, Inside
  <2>5. \A e \in Device \ {d} : LockOK(e)'
    BY <1>3, <1>4, <2>1, <2>2, OtherLock
  <2>6. IInv'
    BY <1>1, <1>3, <2>1 DEF IInv, GInv
  <2> QED BY <1>4, <2>2, <2>4, <2>5, <2>6 DEF LockInv, LocksOK, LockOK
<1>7. CASE k.q[Q] # <<>>
  <2> DEFINE r == kthreadq_release(k, Q)
             h == Head(k.q[Q])
  <2>1. k' = kthreads_schedule(r) /\ kdev' = kdev
    BY <1>1, <1>7 DEF k_device_unlock
  <2>2. ReleasedFirst(k, Q, r)
    BY <1>1, <1>7, LockFacts, ReleaseOK
  <2> HIDE DEF r
  <2>3. Good(r) /\ Sound(r)
    <3>1. \A v \in Desc : r.state[v] # PASSIVE <=> k.state[v] # PASSIVE
      BY <2>2 DEF ReleasedFirst, PASSIVE, WAIT, READY
    <3>2. \A v \in Desc : r.q[join_queue(v)] = k.q[join_queue(v)]
      BY <1>1, <2>2, DeviceQueues, QueueNames DEF ReleasedFirst
    <3> QED BY <2>2, <3>1, <3>2, LockFacts, GoodMoves DEF ReleasedFirst
  <2>4. IInv' /\ \A R \in BlockedQueue : k'.q[R] = r.q[R]
    BY <1>1, <1>3, <2>1, <2>2, <2>3, RescheduleOK DEF ReleasedFirst, Rescheduled, BlockedSame
  <2>5. k'.q[Q] = Tail(k.q[Q])
    BY <1>1, <2>2, <2>4 DEF ReleasedFirst
  <2>6. h \in ToSet(k.q[Q]) /\ ToSet(k'.q[Q]) = ToSet(k.q[Q]) \ {h}
    BY <1>1, <1>7, <2>5, LockFacts, TailList
  <2>7. \A e \in Device \ {d} : k'.q[wait_q(e)] = k.q[wait_q(e)]
    BY <1>1, <2>2, <2>4, DeviceQueues DEF ReleasedFirst
  <2> HIDE DEF h
  <2>8. LockOK(d)'
    <3>1. \A a \in Inside(d)' : a = h
      BY <1>4, <1>5, <2>6 DEF Inside, Waits
    <3>2. ToSet(k'.q[Q]) \subseteq locking'[d]
      BY <1>2, <1>4, <1>5, <2>6 DEF Waits
    <3> QED BY <1>5, <2>1, <3>1, <3>2 DEF LockOK
  <2>9. \A e \in Device \ {d} : LockOK(e)'
    BY <1>3, <1>4, <2>1, <2>7, OtherLock
  <2> QED BY <1>3, <1>4, <2>1, <2>4, <2>8, <2>9 DEF LockInv, LocksOK, LockOK
<1> QED BY <1>6, <1>7

\* A thread in a queue, or active, lives.
LEMMA SystemLives ==
  ASSUME NEW x, Good(x), Runs(x), NEW t \in Desc, InSystem(x, t)
  PROVE  Live(x, t)
<1>1. CASE t = x.active_thread
  BY <1>1 DEF Runs, Live, Awake
<1>2. ASSUME NEW Q \in Queue, t \in ToSet(x.q[Q]) PROVE Live(x, t)
  BY <1>2 DEF Good, Consistent, QueuesOK, Belongs, Queue, Live, Awake, Waiting
<1> QED BY <1>1, <1>2 DEF InSystem

\* A call of thread.c: who is ended no longer waits, and has no lock.
LEMMA ThreadStep ==
  ASSUME LockInv, [Next]_vars, locking' = StillLocking, kdev' = kdev
  PROVE  LockInv'
<1>1. PICK t \in Desc \cup {NULL} : Frame(k, k', t)
  BY NextInv DEF LockInv
<1>2. IInv' /\ Good(k)' /\ Runs(k)'
  BY NextInv DEF LockInv, IInv, GInv
<1>3. /\ locking' \in [Device -> SUBSET Desc]
      /\ \A d \in Device : \A v : v \in locking'[d] <=> v \in locking[d] /\ InSystem(k', v)
  BY DEF LockInv, StillLocking
<1>4. ASSUME NEW d \in Device PROVE LockOK(d)'
  <2>1. /\ k'.q[wait_q(d)] = list_find_and_remove(k.q[wait_q(d)], t)
        /\ wait_q(d) \in BlockedQueue /\ wait_q(d) \in Queue
    BY <1>1, DeviceQueues DEF Frame, Queue
  <2>2. ToSet(k'.q[wait_q(d)]) = ToSet(k.q[wait_q(d)]) \ {t}
    BY <2>1, LockFacts, RemoveList
  <2>3. ToSet(k'.q[wait_q(d)]) \subseteq locking'[d]
    BY <1>3, <2>1, <2>2 DEF LockInv, LocksOK, InSystem
  <2>4. Waits(k, t, d) => t \notin locking'[d]
    <3>1. Waits(k, t, d) => t \in Desc
      BY LockFacts, ToSetType DEF Waits
    <3>2. Waits(k, t, d) => Waiting(k, t)
      BY <2>1 DEF Waits, Waiting
    <3>3. Waits(k, t, d) => ~Live(k', t)
      BY <1>1, <3>1, <3>2 DEF Frame
    <3> QED BY <1>2, <1>3, <3>1, <3>3, SystemLives
  <2>5. \A a \in Inside(d)' : a \in Inside(d)
    BY <1>3, <2>2, <2>4 DEF Inside, Waits
  <2> QED BY <1>3, <2>3, <2>5 DEF LockInv, LocksOK, LockOK
<1> QED BY <1>2, <1>3, <1>4 DEF LockInv, LocksOK, LockOK

\* Everything else: names, the keyboard and the serial port.
LEMMA OtherPart ==
  ASSUME LockInv, UNCHANGED threadVars,
         \/ kdev' = kdev
         \/ \E d \in Device, o \in BOOLEAN : kdev' = [kdev EXCEPT ![d].open = o]
  PROVE  LockInv'
<1>1. /\ kdev' \in [Device -> [open : BOOLEAN, locked : BOOLEAN]]
      /\ \A e \in Device : kdev'[e].locked = kdev[e].locked
  BY DEF LockInv
<1>2. \A e \in Device : LockOK(e)'
  BY <1>1, OtherLock DEF LockInv, threadVars
<1>3. IInv'
  BY DEF LockInv, IInv, GInv, threadVars
<1> QED BY <1>1, <1>2, <1>3 DEF LockInv, LocksOK, LockOK, threadVars

LEMMA NamesStep ==
  ASSUME LockInv, sys__device_open \/ sys__device_close \/ sys__set_default
  PROVE  LockInv'
<1>1. UNCHANGED threadVars
  BY DEF sys__device_open, sys__device_close, sys__set_default
<1>2. ASSUME NEW name, kdev' = Opened(k_device_open(name)) PROVE LockInv'
  <2>1. k_device_open(name) \in Device \cup {NoDevice}
    BY DEF k_device_open
  <2> QED BY <1>1, <1>2, <2>1, OtherPart DEF Opened
<1>3. CASE sys__device_close
  BY <1>1, <1>3, OtherPart DEF sys__device_close
<1> QED BY <1>2, <1>3 DEF sys__device_open, sys__set_default

LEMMA LockNext == LockInv /\ [DevNext]_devVars => LockInv'
<1> SUFFICES ASSUME LockInv, [DevNext]_devVars PROVE LockInv'
  OBVIOUS
<1>1. CASE sys__device_open \/ sys__device_close \/ sys__set_default
  BY <1>1, NamesStep
<1>2. CASE sys__device_lock \/ sys__device_unlock
  BY <1>2, LockStep, UnlockStep
<1>3. CASE ThreadCall
  BY <1>3, ThreadStep DEF ThreadCall, layerVars
<1>4. CASE k_memory_fault
  <2>1. CASE UNCHANGED <<k, locking>>
    BY <1>4, <2>1, OtherPart DEF k_memory_fault, layerVars, threadVars
  <2>2. CASE (\E status \in ExitStatus : k' = kthread_cancel(k, Self, status))
             /\ locking' = StillLocking
    <3>1. sys__thread_exit
      BY <1>4, <2>2 DEF k_memory_fault, sys__thread_exit
    <3> QED BY <1>4, <2>2, <3>1, ThreadStep DEF k_memory_fault, layerVars, Next
  <2> QED BY <1>4, <2>1, <2>2 DEF k_memory_fault
<1>5. CASE PressKey \/ ReleaseKey \/ KeyboardInterrupt \/ KeyboardRecv \/ KeyboardSend
  BY <1>5, OtherPart
     DEF PressKey, ReleaseKey, KeyboardInterrupt, KeyboardRecv, KeyboardSend, layerVars
<1>6. CASE \/ ByteArrives \/ TransmitterEmpty \/ UartInterrupt
           \/ UartSend \/ UartSetConf \/ UartRecv
  BY <1>6, OtherPart
     DEF ByteArrives, TransmitterEmpty, UartInterrupt, UartSend, UartSetConf, UartRecv, layerVars
<1>7. CASE UNCHANGED devVars
  BY <1>7, OtherPart DEF devVars, layerVars
<1> QED BY <1>1, <1>2, <1>3, <1>4, <1>5, <1>6, <1>7 DEF DevNext

LEMMA LockInit == DevInit => LockInv
<1> SUFFICES ASSUME DevInit PROVE LockInv
  OBVIOUS
<1>1. IInv /\ \A w \in WaitQueue : k.q[wait_q(w)] = <<>>
  BY InitInv DEF DevInit
<1>2. \A d \in Device : ToSet(k.q[wait_q(d)]) = {} /\ locking[d] = {}
  BY <1>1, DeviceQueues, NoDupEmpty DEF DevInit
<1>3. LocksOK
  BY <1>2 DEF LocksOK, Inside
<1> QED BY <1>1, <1>3 DEF DevInit, LockInv

LEMMA LockInvariant == DevSpec => []LockInv
BY LockInit, LockNext, PTL DEF DevSpec

-----------------------------------------------------------------------------
(***************************************************************************)
(* A device's lock is held by at most one thread, and nobody waits for a   *)
(* device that is free, whatever threads end, fault or are cancelled       *)
(* between k_device_lock and k_device_unlock.                              *)
(***************************************************************************)
THEOREM LockAlwaysHeldByOne == DevSpec => []LockHeldByOne
<1>1. ASSUME LockInv, NEW d \in Device PROVE Cardinality(Inside(d)) <= 1
  <2>1. CASE Inside(d) = {}
    BY <2>1, FS_EmptySet
  <2>2. CASE Inside(d) # {}
    <3>1. PICK a \in Inside(d) : Inside(d) = {a}
      BY <1>1, <2>2 DEF LockInv, LocksOK
    <3> QED BY <3>1, FS_Singleton
  <2> QED BY <2>1, <2>2
<1>2. LockInv => LockHeldByOne
  BY <1>1 DEF LockHeldByOne, LockInv, LocksOK
<1> QED BY <1>2, LockInvariant, PTL

-----------------------------------------------------------------------------
(***************************************************************************)
(* Loops over a sequence: FoldLeft is the last of the states between the   *)
(* turns.                                                                  *)
(***************************************************************************)
\* What holds of 0, and of i when it holds of i - 1, holds up to n.
LEMMA Upto ==
  ASSUME NEW n \in Nat, NEW T, 0 \in T, \A i \in 1 .. n : i - 1 \in T => i \in T
  PROVE  \A i \in 0 .. n : i \in T
<1> DEFINE Bad == {i \in 0 .. n : i \notin T}
<1> SUFFICES ASSUME Bad # {} PROVE FALSE
  OBVIOUS
<1>1. PICK i \in Bad : \A j \in Bad : i <= j
  <2>1. Bad \subseteq Nat
    OBVIOUS
  <2> HIDE DEF Bad
  <2> QED BY <2>1, LeastExists
<1>2. i \in 1 .. n /\ i - 1 \in 0 .. n /\ i - 1 \notin Bad
  BY <1>1
<1> QED BY <1>1, <1>2

LEMMA ModType ==
  ASSUME NEW n \in Nat \ {0}, NEW x \in Nat
  PROVE  x % n \in 0 .. n - 1
OBVIOUS

LEMMA MaxUpto ==
  ASSUME NEW n \in Nat, NEW s \in SUBSET (1 .. n), n \in s
  PROVE  Max(s) = n
<1>1. n \in s /\ \A y \in s : n >= y
  OBVIOUS
<1>2. \A x \in s : (\A y \in s : x >= y) => x = n
  OBVIOUS
<1> QED BY <1>1, <1>2 DEF Max

\* The greatest of a set of indices is one of them.
LEMMA MaxIndex ==
  ASSUME NEW n \in Nat, NEW s \in SUBSET (1 .. n), s # {}
  PROVE  Max(s) \in s
<1> DEFINE back == {n - i : i \in s}
<1>1. back \in SUBSET Nat /\ back # {}
  <2>1. \A i \in s : n - i \in Nat
    OBVIOUS
  <2> QED BY <2>1
<1>2. PICK b \in back : \A c \in back : b <= c
  <2> HIDE DEF back
  <2> QED BY <1>1, LeastExists
<1>3. PICK m \in s : b = n - m
  BY <1>2
<1>4. \A y \in s : m >= y
  <2> SUFFICES ASSUME NEW y \in s PROVE m >= y
    OBVIOUS
  <2>1. n - m <= n - y
    BY <1>2, <1>3
  <2> QED BY <2>1, <1>3
<1> QED BY <1>3, <1>4 DEF Max

LEMMA UptoSets ==
  ASSUME NEW i \in Nat
  PROVE  /\ i = 0 => 1 .. i = {}
         /\ i > 0 => 1 .. i # {} /\ Max(1 .. i) = i /\ (1 .. i) \ {i} = 1 .. i - 1
<1>1. i = 0 => 1 .. i = {}
  OBVIOUS
<1>2. i > 0 => i \in 1 .. i /\ (1 .. i) \ {i} = 1 .. i - 1
  OBVIOUS
<1> QED BY <1>1, <1>2, MaxUpto

LEMMA Indices ==
  ASSUME NEW B, NEW seq \in Seq(B)
  PROVE  /\ DOMAIN seq = 1 .. Len(seq) /\ Len(seq) \in Nat
         /\ {} \in SUBSET (DOMAIN seq)
         /\ \A i \in 0 .. Len(seq) : 1 .. i \in SUBSET (DOMAIN seq)
         /\ \A s \in SUBSET (DOMAIN seq) : s # {} =>
              /\ Max(s) \in s /\ seq[Max(s)] \in B
              /\ s \ {Max(s)} \in SUBSET (DOMAIN seq)
         /\ 1 .. 0 = {}
         /\ \A i \in 1 .. Len(seq) : seq[i] \in B
         /\ \A i \in 1 .. Len(seq) :
              1 .. i # {} /\ Max(1 .. i) = i /\ (1 .. i) \ {i} = 1 .. i - 1
<1>1. DOMAIN seq = 1 .. Len(seq) /\ Len(seq) \in Nat
  OBVIOUS
<1>2. \A i \in 1 .. Len(seq) : seq[i] \in B
  OBVIOUS
<1>3. PICK n \in Nat : n = Len(seq)
  BY <1>1
<1>4. \A s \in SUBSET (1 .. n) : s # {} => Max(s) \in s
  BY MaxIndex
<1>5. \A i \in 0 .. n : 1 .. i \in SUBSET (1 .. n)
  OBVIOUS
<1>6. \A i \in 1 .. n : 1 .. i # {} /\ Max(1 .. i) = i /\ (1 .. i) \ {i} = 1 .. i - 1
  BY UptoSets
<1>7. 1 .. 0 = {}
  OBVIOUS
<1> QED BY <1>1, <1>2, <1>3, <1>4, <1>5, <1>6, <1>7

\* The result of a fold with the function F, for every set of indices folded over.
OneTurn(g, F, base, seq, s) ==
  g[s] = IF s = {} THEN base ELSE F[<<g[s \ {Max(s)}], seq[Max(s)]>>]

Folded(g, F, base, seq, n) == \A s \in SUBSET (1 .. n) : OneTurn(g, F, base, seq, s)
FoldOf(g, F, base, seq)    == \A s \in SUBSET (DOMAIN seq) : OneTurn(g, F, base, seq, s)

LEMMA FoldExists ==
  ASSUME NEW S, NEW B, NEW F \in [S \X B -> S], NEW base \in S, NEW seq \in Seq(B)
  PROVE  \E g \in [SUBSET (DOMAIN seq) -> S] : FoldOf(g, F, base, seq)
<1> DEFINE T == {n \in Nat : n <= Len(seq) =>
                   \E g \in [SUBSET (1 .. n) -> S] : Folded(g, F, base, seq, n)}
<1>0. Len(seq) \in Nat
  OBVIOUS
<1>1. 0 \in T
  <2> DEFINE g == [s \in SUBSET (1 .. 0) |-> base]
  <2>1. g \in [SUBSET (1 .. 0) -> S]
    OBVIOUS
  <2>2. \A s \in SUBSET (1 .. 0) : s = {}
    OBVIOUS
  <2>3. Folded(g, F, base, seq, 0)
    BY <2>2 DEF Folded, OneTurn
  <2> QED BY <2>1, <2>3
<1>2. ASSUME NEW n \in 1 .. Len(seq), n - 1 \in T PROVE n \in T
  <2>0. n - 1 \in Nat /\ n - 1 <= Len(seq)
    BY <1>0
  <2>1. PICK f \in [SUBSET (1 .. n - 1) -> S] : Folded(f, F, base, seq, n - 1)
    BY <1>2, <2>0
  <2>2. n \in Nat /\ seq[n] \in B
    BY <1>0
  <2> DEFINE g == [s \in SUBSET (1 .. n) |->
                     IF n \in s THEN F[<<f[s \ {n}], seq[n]>>] ELSE f[s]]
  <2>3. \A s \in SUBSET (1 .. n) : s \ {n} \in SUBSET (1 .. n - 1)
    BY <2>2
  <2>4. ASSUME NEW s \in SUBSET (1 .. n)
        PROVE  /\ g[s] \in S
               /\ g[s] = IF s = {} THEN base ELSE F[<<g[s \ {Max(s)}], seq[Max(s)]>>]
    <3>1. CASE n \in s
      <4>1. Max(s) = n
        BY <2>2, <3>1, MaxUpto
      <4>2. s \ {n} \in SUBSET (1 .. n) /\ n \notin s \ {n}
        OBVIOUS
      <4>3. g[s \ {n}] = f[s \ {n}] /\ f[s \ {n}] \in S
        BY <2>1, <2>3, <4>2
      <4>4. g[s] = F[<<f[s \ {n}], seq[n]>>]
        BY <3>1
      <4> HIDE DEF g
      <4> QED BY <2>2, <3>1, <4>1, <4>3, <4>4
    <3>2. CASE n \notin s
      <4>1. s \in SUBSET (1 .. n - 1) /\ s \ {Max(s)} \in SUBSET (1 .. n)
            /\ n \notin s \ {Max(s)} /\ s \ {Max(s)} \in SUBSET (1 .. n - 1)
        BY <2>3, <3>2
      <4>2. g[s] = f[s] /\ g[s \ {Max(s)}] = f[s \ {Max(s)}] /\ f[s] \in S
        BY <2>1, <3>2, <4>1
      <4>3. f[s] = IF s = {} THEN base ELSE F[<<f[s \ {Max(s)}], seq[Max(s)]>>]
        BY <2>1, <4>1 DEF Folded, OneTurn
      <4> HIDE DEF g
      <4> QED BY <4>2, <4>3
    <3> QED BY <3>1, <3>2
  <2>5. g \in [SUBSET (1 .. n) -> S] /\ Folded(g, F, base, seq, n)
    <3>1. g = [s \in SUBSET (1 .. n) |-> g[s]]
      OBVIOUS
    <3> HIDE DEF g
    <3> QED BY <2>4, <3>1 DEF Folded, OneTurn
  <2> QED BY <2>2, <2>5
<1>3. Len(seq) \in T
  <2> HIDE DEF T
  <2>1. \A i \in 0 .. Len(seq) : i \in T
    BY <1>0, <1>1, <1>2, Upto
  <2> QED BY <1>0, <2>1
<1>4. Len(seq) <= Len(seq)
  BY <1>0
<1>5. PICK g \in [SUBSET (1 .. Len(seq)) -> S] : Folded(g, F, base, seq, Len(seq))
  BY <1>3, <1>4
<1>6. DOMAIN seq = 1 .. Len(seq)
  OBVIOUS
<1> QED BY <1>5, <1>6 DEF Folded, FoldOf, OneTurn

\* The states between the turns: h[i] is the result for the first i items.
LEMMA StatesBetween ==
  ASSUME NEW S, NEW n \in Nat, NEW h, h = [i \in 0 .. n |-> h[i]], h[0] \in S,
         \A i \in 1 .. n : h[i - 1] \in S => h[i] \in S
  PROVE  h \in [0 .. n -> S]
<1> DEFINE T == {i \in Nat : h[i] \in S}
<1>1. 0 \in T
  OBVIOUS
<1>2. ASSUME NEW i \in 1 .. n, i - 1 \in T PROVE i \in T
  <2>1. i \in Nat /\ h[i - 1] \in S
    BY <1>2
  <2> QED BY <2>1
<1>3. \A i \in 0 .. n : i \in T
  <2> HIDE DEF T
  <2> QED BY <1>1, <1>2, Upto
<1>4. \A i \in 0 .. n : h[i] \in S
  BY <1>3
<1> QED BY <1>4

\* The results for the first items are the states a loop goes through.
TypedTurns(it, S, F, base, seq) ==
  \A s \in SUBSET (DOMAIN seq) :
    (s # {} => it[s \ {Max(s)}] \in S) => OneTurn(it, F, base, seq, s)

LoopStates(h, it, S, F, base, seq) ==
  /\ h \in [0 .. Len(seq) -> S]
  /\ h[0] = base /\ h[Len(seq)] = it[DOMAIN seq]
  /\ \A i \in 1 .. Len(seq) : h[i] = F[<<h[i - 1], seq[i]>>]

LEMMA FoldRuns ==
  ASSUME NEW S, NEW B, NEW F \in [S \X B -> S], NEW base \in S, NEW seq \in Seq(B), NEW it,
         TypedTurns(it, S, F, base, seq)
  PROVE  \E h : LoopStates(h, it, S, F, base, seq)
<1>0. PICK n \in Nat : n = Len(seq) /\ DOMAIN seq = 1 .. n
  OBVIOUS
<1> DEFINE h == [i \in 0 .. n |-> it[1 .. i]]
<1>1. h = [i \in 0 .. n |-> h[i]] /\ \A i \in 0 .. n : h[i] = it[1 .. i]
  OBVIOUS
<1> HIDE DEF h
<1>2. h[0] = base
  <2>1. {} \in SUBSET (DOMAIN seq) /\ 1 .. 0 = {} /\ 0 \in 0 .. n
    OBVIOUS
  <2> QED BY <1>1, <2>1 DEF OneTurn, TypedTurns
<1>3. ASSUME NEW i \in 1 .. n, h[i - 1] \in S
      PROVE  h[i] = F[<<h[i - 1], seq[i]>>] /\ h[i] \in S
  <2>1. /\ 1 .. i \in SUBSET (DOMAIN seq) /\ 1 .. i # {}
        /\ Max(1 .. i) = i /\ (1 .. i) \ {i} = 1 .. i - 1 /\ seq[i] \in B
    BY <1>0, Indices
  <2>2. i \in 0 .. n /\ i - 1 \in 0 .. n
    OBVIOUS
  <2>3. h[i] = it[1 .. i] /\ h[i - 1] = it[1 .. i - 1]
    BY <1>1, <2>2
  <2>4. h[i] = F[<<h[i - 1], seq[i]>>]
    BY <1>3, <2>1, <2>3 DEF OneTurn, TypedTurns
  <2> QED BY <1>3, <2>1, <2>4
<1>4. h \in [0 .. n -> S]
  BY <1>1, <1>2, <1>3, StatesBetween
<1>5. \A i \in 1 .. n : h[i - 1] \in S
  BY <1>4
<1>6. h[n] = it[DOMAIN seq]
  BY <1>0, <1>1
<1> QED BY <1>0, <1>2, <1>3, <1>4, <1>5, <1>6 DEF LoopStates

-----------------------------------------------------------------------------
(***************************************************************************)
(* The body of the loop of uart_read.                                      *)
(***************************************************************************)
LEMMA PutInType ==
  ASSUME NEW u \in UartState, NEW b \in Byte
  PROVE  PutIn(u, b) \in UartState
<1>1. BUFFER_SIZE \in Nat \ {0}
  BY UartAssumption
<1>2. INC_MOD(u.inl) \in BufferIndex /\ INC_MOD(u.inf) \in BufferIndex
  BY <1>1 DEF UartState, BufferIndex, INC_MOD
<1>3. (IF u.insz = BUFFER_SIZE THEN u.insz ELSE u.insz + 1) \in 0 .. BUFFER_SIZE
  BY <1>1 DEF UartState
<1>4. [u.inbuff EXCEPT ![u.inl] = b] \in [BufferIndex -> Byte]
  BY DEF UartState
<1> QED BY <1>2, <1>3, <1>4 DEF PutIn, UartState

LEMMA PutInSteps ==
  ASSUME NEW u \in UartState, NEW seq \in Seq(Byte)
  PROVE  \E h \in [0 .. Len(seq) -> UartState] :
           /\ h[0] = u /\ FoldLeft(PutIn, u, seq) = h[Len(seq)]
           /\ \A i \in 1 .. Len(seq) : h[i] = PutIn(h[i - 1], seq[i])
<1> DEFINE F == [p \in UartState \X Byte |-> PutIn(p[1], p[2])]
           D == SUBSET (DOMAIN seq)
           Turn(f, s) == IF s = {} THEN u ELSE PutIn(f[s \ {Max(s)}], seq[Max(s)])
           it == CHOOSE f : f = [s \in D |-> Turn(f, s)]
<1>1. F \in [UartState \X Byte -> UartState]
      /\ \A y \in UartState, c \in Byte : F[<<y, c>>] = PutIn(y, c)
  BY PutInType
<1> HIDE DEF F
<1>2. PICK g \in [D -> UartState] : FoldOf(g, F, u, seq)
  BY <1>1, FoldExists
<1>3. g = [s \in D |-> Turn(g, s)]
  <2>1. \A s \in D : s # {} => s \ {Max(s)} \in D /\ seq[Max(s)] \in Byte
    BY Indices
  <2>2. \A s \in D : g[s] = Turn(g, s)
    BY <1>1, <1>2, <2>1 DEF FoldOf, OneTurn
  <2> HIDE DEF Turn
  <2> QED BY <1>2, <2>2
<1>4. it = [s \in D |-> Turn(it, s)]
  BY <1>3
<1>5. FoldLeft(PutIn, u, seq) = it[DOMAIN seq]
  BY DEF FoldLeft, MapThenFoldSet
<1> HIDE DEF it
<1>6. TypedTurns(it, UartState, F, u, seq)
  <2>1. \A s \in D : s # {} => seq[Max(s)] \in Byte
    BY Indices
  <2> QED BY <1>1, <1>4, <2>1 DEF OneTurn, TypedTurns
<1>7. PICK h : LoopStates(h, it, UartState, F, u, seq)
  BY <1>1, <1>6, FoldRuns
<1>8. PICK n \in Nat : n = Len(seq) /\ \A i \in 1 .. n : seq[i] \in Byte
  BY Indices
<1>9. /\ h \in [0 .. n -> UartState] /\ h[0] = u /\ h[n] = it[DOMAIN seq]
      /\ \A i \in 1 .. n : h[i] = F[<<h[i - 1], seq[i]>>]
  BY <1>7, <1>8 DEF LoopStates
<1>10. \A i \in 1 .. n : h[i - 1] \in UartState
  BY <1>9
<1>11. \A i \in 1 .. n : h[i] = PutIn(h[i - 1], seq[i])
  BY <1>1, <1>8, <1>9, <1>10
<1>12. FoldLeft(PutIn, u, seq) = h[n]
  BY <1>5, <1>9
<1> QED BY <1>8, <1>9, <1>11, <1>12

-----------------------------------------------------------------------------
(***************************************************************************)
(* The keyboard: types.                                                    *)
(***************************************************************************)
Decoder == [multi_code : BOOLEAN, key : Keystroke, down : SUBSET SpecKeys]

LEMMA SpecialType ==
  /\ \A c \in DOMAIN Special : Special[c] \in Events
  /\ \A c \in DOMAIN SpecialE0 : SpecialE0[c] \in Events
<1>1. ASSUME NEW c \in DOMAIN Special PROVE Special[c] \in Events
  BY DEF Special, Events, SpecKeys
<1>2. ASSUME NEW c \in DOMAIN SpecialE0 PROVE SpecialE0[c] \in Events
  BY DEF SpecialE0, Events, SpecKeys
<1> QED BY <1>1, <1>2

LEMMA KeyTypes ==
  /\ NoKey \in Keystroke /\ CHAR("K_RCTRL_UP") \in Keystroke
  /\ \A e \in Events : SpecialKey(e) \in Keystroke
  /\ \A x \in Keystroke : ASCII_KEY(x) \in Keystroke
  /\ \A x \in Keystroke, s \in SUBSET SpecKeys : [x EXCEPT !.down = @ \cup s] \in Keystroke
<1>1. NoKey \in Keystroke
  BY DEF NoKey, Keystroke
<1>2. CHAR("K_RCTRL_UP") \in Keystroke
  BY <1>1 DEF CHAR, Keystroke
<1>3. \A e \in Events : K_SPEC_KEY(e) \in Keystroke
  BY <1>1 DEF K_SPEC_KEY, Keystroke
<1>4. \A x \in Keystroke : ASCII_KEY(x) \in Keystroke
  BY <1>1 DEF ASCII_KEY, CHAR, Keystroke
<1>5. \A x \in Keystroke, s \in SUBSET SpecKeys : [x EXCEPT !.down = @ \cup s] \in Keystroke
  BY DEF Keystroke
<1> QED BY <1>1, <1>2, <1>3, <1>4, <1>5 DEF SpecialKey

LEMMA TypedType ==
  ASSUME NEW d \in Decoder, NEW c
  PROVE  Typed(d, c) \in Keystroke
<1>1. CASE c \notin DOMAIN keyb_codes
  BY <1>1, KeyTypes DEF Typed
<1>2. CASE c \in DOMAIN keyb_codes
  <2>1. PICK x \in {keyb_codes[c], keyb_codes_shift[c]} : Typed(d, c) = CHAR(x)
    BY <1>2 DEF Typed
  <2>2. [NoKey EXCEPT !.ascii = x] \in Keystroke
    BY <1>2, KeyTypes DEF Keystroke
  <2> QED BY <2>1, <2>2 DEF CHAR
<1> QED BY <1>1, <1>2

LEMMA EventType ==
  ASSUME NEW d \in Decoder, NEW e \in Events
  PROVE  KeyEvent(d, e) \in Decoder
<1>1. e[1] \in SpecKeys /\ e[2] \in {"down", "up", "toggle"}
  BY DEF Events
<1>2. KeyEvent(d, e).down \in SUBSET SpecKeys
  BY <1>1 DEF KeyEvent, Decoder
<1>3. SpecialKey(e) \in Keystroke
  BY KeyTypes
<1> QED BY <1>2, <1>3 DEF KeyEvent, Decoder

LEMMA DecoderType ==
  ASSUME NEW d \in Decoder, NEW c
  PROVE  i8042_prepare_char(d, c) \in Decoder
<1>1. AfterE0(d, c) \in Decoder
  <2>1. [d EXCEPT !.key = NoKey, !.multi_code = FALSE] \in Decoder
    BY KeyTypes DEF Decoder
  <2> QED BY <2>1, SpecialType, EventType DEF AfterE0
<1>2. [d EXCEPT !.multi_code = TRUE, !.key = NoKey] \in Decoder
  BY KeyTypes DEF Decoder
<1>3. c \in DOMAIN Special => KeyEvent(d, Special[c]) \in Decoder
  BY SpecialType, EventType
<1>4. [d EXCEPT !.key = Typed(d, c)] \in Decoder
  BY TypedType DEF Decoder
<1> QED BY <1>1, <1>2, <1>3, <1>4 DEF i8042_prepare_char

LEMMA InsertType ==
  ASSUME NEW b \in KeyboardState, NEW x \in Keystroke
  PROVE  /\ i8042_insert_keystroke(b, x) \in KeyboardState
         /\ i8042_insert_keystroke(b, x).decoder = b.decoder
<1>0. KEYB_BUFF_SIZE \in Nat \ {0}
  BY KeyboardAssumption
<1>1. CASE x = NoKey
  BY <1>1 DEF i8042_insert_keystroke
<1>2. CASE x # NoKey
  <2>1. /\ Following(b.last) \in 0 .. KEYB_BUFF_SIZE - 1
        /\ Following(b.first) \in 0 .. KEYB_BUFF_SIZE
    <3>1. \A i \in 0 .. KEYB_BUFF_SIZE : Following(i) \in 0 .. KEYB_BUFF_SIZE - 1
      BY <1>0, ModType DEF Following
    <3>2. 0 .. KEYB_BUFF_SIZE - 1 \subseteq 0 .. KEYB_BUFF_SIZE
      BY <1>0
    <3> QED BY <3>1, <3>2 DEF KeyboardState
  <2>2. (IF b.size < KEYB_BUFF_SIZE THEN b.size + 1 ELSE b.size) \in 0 .. KEYB_BUFF_SIZE
    BY <1>0 DEF KeyboardState
  <2>3. [b.buffer EXCEPT ![b.last] = [x EXCEPT !.down = @ \cup b.decoder.down]]
          \in [0 .. KEYB_BUFF_SIZE - 1 -> Keystroke]
    <3>1. [x EXCEPT !.down = @ \cup b.decoder.down] \in Keystroke
      BY KeyTypes DEF KeyboardState
    <3> QED BY <3>1 DEF KeyboardState
  <2> QED BY <1>2, <2>1, <2>2, <2>3 DEF i8042_insert_keystroke, KeyboardState
<1> QED BY <1>1, <1>2

\* One turn of the loop of i8042_interrupt_handler.
InsertCode(b, c) == LET r == i8042_read(b, c) IN i8042_insert_keystroke(r, r.decoder.key)

LEMMA ReadType ==
  ASSUME NEW b \in KeyboardState, NEW c
  PROVE  /\ i8042_read(b, c) \in KeyboardState
         /\ i8042_read(b, c).decoder = i8042_prepare_char(b.decoder, c)
         /\ i8042_read(b, c).decoder.key \in Keystroke
<1>1. i8042_prepare_char(b.decoder, c) \in Decoder
  BY DecoderType DEF KeyboardState, Decoder
<1> QED BY <1>1 DEF i8042_read, KeyboardState, Decoder

LEMMA InsertCodeType ==
  ASSUME NEW b \in KeyboardState, NEW c
  PROVE  /\ InsertCode(b, c) \in KeyboardState
         /\ InsertCode(b, c).decoder = i8042_prepare_char(b.decoder, c)
BY ReadType, InsertType DEF InsertCode

LEMMA InsertSteps ==
  ASSUME NEW b \in KeyboardState, NEW seq \in Seq(Keystroke)
  PROVE  \E h \in [0 .. Len(seq) -> KeyboardState] :
           /\ h[0] = b /\ FoldLeft(i8042_insert_keystroke, b, seq) = h[Len(seq)]
           /\ \A i \in 1 .. Len(seq) : h[i] = i8042_insert_keystroke(h[i - 1], seq[i])
<1> DEFINE F == [p \in KeyboardState \X Keystroke |-> i8042_insert_keystroke(p[1], p[2])]
           D == SUBSET (DOMAIN seq)
           Turn(f, s) == IF s = {} THEN b ELSE i8042_insert_keystroke(f[s \ {Max(s)}], seq[Max(s)])
           it == CHOOSE f : f = [s \in D |-> Turn(f, s)]
<1>1. F \in [KeyboardState \X Keystroke -> KeyboardState]
      /\ \A y \in KeyboardState, c \in Keystroke : F[<<y, c>>] = i8042_insert_keystroke(y, c)
  BY InsertType
<1> HIDE DEF F
<1>2. PICK g \in [D -> KeyboardState] : FoldOf(g, F, b, seq)
  BY <1>1, FoldExists
<1>3. g = [s \in D |-> Turn(g, s)]
  <2>1. \A s \in D : s # {} => s \ {Max(s)} \in D /\ seq[Max(s)] \in Keystroke
    BY Indices
  <2>2. \A s \in D : g[s] = Turn(g, s)
    BY <1>1, <1>2, <2>1 DEF FoldOf, OneTurn
  <2> HIDE DEF Turn
  <2> QED BY <1>2, <2>2
<1>4. it = [s \in D |-> Turn(it, s)]
  BY <1>3
<1>5. FoldLeft(i8042_insert_keystroke, b, seq) = it[DOMAIN seq]
  BY DEF FoldLeft, MapThenFoldSet
<1> HIDE DEF it
<1>6. TypedTurns(it, KeyboardState, F, b, seq)
  <2>1. \A s \in D : s # {} => seq[Max(s)] \in Keystroke
    BY Indices
  <2> QED BY <1>1, <1>4, <2>1 DEF OneTurn, TypedTurns
<1>7. PICK h : LoopStates(h, it, KeyboardState, F, b, seq)
  BY <1>1, <1>6, FoldRuns
<1>8. PICK n \in Nat : n = Len(seq) /\ \A i \in 1 .. n : seq[i] \in Keystroke
  BY Indices
<1>9. /\ h \in [0 .. n -> KeyboardState] /\ h[0] = b /\ h[n] = it[DOMAIN seq]
      /\ \A i \in 1 .. n : h[i] = F[<<h[i - 1], seq[i]>>]
  BY <1>7, <1>8 DEF LoopStates
<1>10. \A i \in 1 .. n : h[i - 1] \in KeyboardState
  BY <1>9
<1>11. \A i \in 1 .. n : h[i] = i8042_insert_keystroke(h[i - 1], seq[i])
  BY <1>1, <1>8, <1>9, <1>10
<1>12. FoldLeft(i8042_insert_keystroke, b, seq) = h[n]
  BY <1>5, <1>9
<1> QED BY <1>8, <1>9, <1>11, <1>12

LEMMA HandlerSteps ==
  ASSUME NEW b \in KeyboardState, NEW seq \in Seq(STRING)
  PROVE  \E h \in [0 .. Len(seq) -> KeyboardState] :
           /\ h[0] = b
           /\ i8042_interrupt_handler(b, seq) = [h[Len(seq)] EXCEPT !.decoder.key = NoKey]
           /\ \A i \in 1 .. Len(seq) : h[i] = InsertCode(h[i - 1], seq[i])
<1> DEFINE F == [p \in KeyboardState \X STRING |-> InsertCode(p[1], p[2])]
           D == SUBSET (DOMAIN seq)
           Turn(f, s) == IF s = {} THEN b ELSE InsertCode(f[s \ {Max(s)}], seq[Max(s)])
           it == CHOOSE f : f = [s \in D |-> Turn(f, s)]
<1>1. F \in [KeyboardState \X STRING -> KeyboardState]
      /\ \A y \in KeyboardState, c \in STRING : F[<<y, c>>] = InsertCode(y, c)
  BY InsertCodeType
<1> HIDE DEF F
<1>2. PICK g \in [D -> KeyboardState] : FoldOf(g, F, b, seq)
  BY <1>1, FoldExists
<1>3. g = [s \in D |-> Turn(g, s)]
  <2>1. \A s \in D : s # {} => s \ {Max(s)} \in D /\ seq[Max(s)] \in STRING
    BY Indices
  <2>2. \A s \in D : g[s] = Turn(g, s)
    BY <1>1, <1>2, <2>1 DEF FoldOf, OneTurn
  <2> HIDE DEF Turn
  <2> QED BY <1>2, <2>2
<1>4. it = [s \in D |-> Turn(it, s)]
  BY <1>3
<1>5. i8042_interrupt_handler(b, seq) = [it[DOMAIN seq] EXCEPT !.decoder.key = NoKey]
  BY DEF i8042_interrupt_handler, InsertCode, FoldLeft, MapThenFoldSet
<1> HIDE DEF it
<1>6. TypedTurns(it, KeyboardState, F, b, seq)
  <2>1. \A s \in D : s # {} => seq[Max(s)] \in STRING
    BY Indices
  <2> QED BY <1>1, <1>4, <2>1 DEF OneTurn, TypedTurns
<1>7. PICK h : LoopStates(h, it, KeyboardState, F, b, seq)
  BY <1>1, <1>6, FoldRuns
<1>8. PICK n \in Nat : n = Len(seq) /\ \A i \in 1 .. n : seq[i] \in STRING
  BY Indices
<1>9. /\ h \in [0 .. n -> KeyboardState] /\ h[0] = b /\ h[n] = it[DOMAIN seq]
      /\ \A i \in 1 .. n : h[i] = F[<<h[i - 1], seq[i]>>]
  BY <1>7, <1>8 DEF LoopStates
<1>10. \A i \in 1 .. n : h[i - 1] \in KeyboardState
  BY <1>9
<1>11. \A i \in 1 .. n : h[i] = InsertCode(h[i - 1], seq[i])
  BY <1>1, <1>8, <1>9, <1>10
<1>12. i8042_interrupt_handler(b, seq) = [h[n] EXCEPT !.decoder.key = NoKey]
  BY <1>5, <1>9
<1> QED BY <1>8, <1>9, <1>11, <1>12

-----------------------------------------------------------------------------
(***************************************************************************)
(* What codes do to the decoder, apart from the keystroke it returned.     *)
(***************************************************************************)
SameKeys(d, e) == d.multi_code = e.multi_code /\ d.down = e.down

LEMMA PrepareSame ==
  ASSUME NEW d \in Decoder, NEW e \in Decoder, SameKeys(d, e), NEW c
  PROVE  SameKeys(i8042_prepare_char(d, c), i8042_prepare_char(e, c))
<1>1. \A ev \in Events : SameKeys(KeyEvent(d, ev), KeyEvent(e, ev))
  BY DEF SameKeys, KeyEvent
<1>2. SameKeys(AfterE0(d, c), AfterE0(e, c))
  BY <1>1, SpecialType DEF AfterE0, SameKeys, Decoder
<1>3. c \in DOMAIN Special => SameKeys(KeyEvent(d, Special[c]), KeyEvent(e, Special[c]))
  BY <1>1, SpecialType
<1>4. /\ SameKeys([d EXCEPT !.multi_code = TRUE, !.key = NoKey],
                  [e EXCEPT !.multi_code = TRUE, !.key = NoKey])
      /\ SameKeys([d EXCEPT !.key = Typed(d, c)], [e EXCEPT !.key = Typed(e, c)])
  BY DEF SameKeys, Decoder
<1>5. d.multi_code = e.multi_code
  BY DEF SameKeys
<1> QED BY <1>2, <1>3, <1>4, <1>5 DEF i8042_prepare_char

\* D[i] is the decoder, at first d, when it has read the first i codes.
Decodes(D, d, seq) ==
  /\ D \in [0 .. Len(seq) -> Decoder] /\ D[0] = d
  /\ \A i \in 1 .. Len(seq) : D[i] = i8042_prepare_char(D[i - 1], seq[i])

\* Two decoders that read the same codes, one of them after m others.
LEMMA DecodersAgree ==
  ASSUME NEW s \in Seq(STRING), NEW t \in Seq(STRING), NEW m \in Nat, NEW n \in Nat,
         m + n <= Len(s), n <= Len(t), \A i \in 1 .. n : t[i] = s[m + i],
         NEW D, NEW d, Decodes(D, d, s), NEW E, NEW e, Decodes(E, e, t), SameKeys(D[m], e)
  PROVE  SameKeys(D[m + n], E[n])
<1> DEFINE T == {i \in Nat : SameKeys(D[m + i], E[i])}
<1>0. Len(s) \in Nat /\ Len(t) \in Nat
  OBVIOUS
<1>1. 0 \in T
  <2>1. m + 0 = m /\ E[0] = e
    BY DEF Decodes
  <2> QED BY <2>1
<1>2. ASSUME NEW i \in 1 .. n, i - 1 \in T PROVE i \in T
  <2>1. /\ i \in Nat /\ m + (i - 1) = m + i - 1
        /\ m + i - 1 \in 0 .. Len(s) /\ i - 1 \in 0 .. Len(t)
        /\ m + i \in 1 .. Len(s) /\ i \in 1 .. Len(t)
    BY <1>0
  <2>2. SameKeys(D[m + i - 1], E[i - 1])
    BY <1>2, <2>1
  <2>3. D[m + i - 1] \in Decoder /\ E[i - 1] \in Decoder
    BY <2>1 DEF Decodes
  <2>4. D[m + i] = i8042_prepare_char(D[m + i - 1], s[m + i])
        /\ E[i] = i8042_prepare_char(E[i - 1], s[m + i])
    BY <2>1 DEF Decodes
  <2>5. SameKeys(D[m + i], E[i])
    BY <2>2, <2>3, <2>4, PrepareSame
  <2> QED BY <2>1, <2>5
<1> HIDE DEF T
<1>3. \A i \in 0 .. n : i \in T
  BY <1>1, <1>2, Upto
<1>4. n \in T
  BY <1>3
<1> QED BY <1>4 DEF T

LEMMA KeyForgotten ==
  ASSUME NEW b \in KeyboardState, NEW r, r = [b EXCEPT !.decoder.key = NoKey]
  PROVE  r \in KeyboardState /\ SameKeys(r.decoder, b.decoder)
<1> DEFINE d == [b.decoder EXCEPT !.key = NoKey]
<1>1. d \in Decoder /\ SameKeys(d, b.decoder)
  BY KeyTypes DEF KeyboardState, Decoder, SameKeys
<1>2. r = [b EXCEPT !.decoder = d]
  BY DEF KeyboardState
<1> HIDE DEF d
<1>3. r \in KeyboardState /\ r.decoder = d
  BY <1>1, <1>2 DEF KeyboardState, Decoder
<1> QED BY <1>1, <1>3

LEMMA DecodedSteps ==
  ASSUME NEW b \in KeyboardState, NEW seq \in Seq(STRING)
  PROVE  /\ i8042_interrupt_handler(b, seq) \in KeyboardState
         /\ \E D : Decodes(D, b.decoder, seq) /\ SameKeys(Decoded(b, seq), D[Len(seq)])
<1>0. PICK n \in Nat : n = Len(seq)
  OBVIOUS
<1>1. PICK h \in [0 .. Len(seq) -> KeyboardState] :
        /\ h[0] = b /\ i8042_interrupt_handler(b, seq) = [h[Len(seq)] EXCEPT !.decoder.key = NoKey]
        /\ \A i \in 1 .. Len(seq) : h[i] = InsertCode(h[i - 1], seq[i])
  BY HandlerSteps
<1> DEFINE D == [i \in 0 .. n |-> h[i].decoder]
<1>2. D \in [0 .. n -> Decoder]
  BY <1>0, <1>1 DEF KeyboardState, Decoder
<1>3. D[0] = b.decoder
  BY <1>1
<1>4. \A i \in 1 .. n : D[i] = i8042_prepare_char(D[i - 1], seq[i])
  <2>1. \A i \in 1 .. n : i \in 0 .. n /\ i - 1 \in 0 .. n /\ h[i - 1] \in KeyboardState
    BY <1>0, <1>1
  <2> QED BY <1>0, <1>1, <2>1, InsertCodeType
<1>5. /\ h[n] \in KeyboardState /\ D[n] = h[n].decoder
      /\ i8042_interrupt_handler(b, seq) = [h[n] EXCEPT !.decoder.key = NoKey]
  BY <1>0, <1>1
<1> HIDE DEF D
<1>6. i8042_interrupt_handler(b, seq) \in KeyboardState /\ SameKeys(Decoded(b, seq), D[n])
  BY <1>5, KeyForgotten DEF Decoded
<1>7. Decodes(D, b.decoder, seq)
  BY <1>0, <1>2, <1>3, <1>4 DEF Decodes
<1> QED BY <1>0, <1>6, <1>7

LEMMA DecodedNone ==
  ASSUME NEW b \in KeyboardState
  PROVE  SameKeys(Decoded(b, <<>>), b.decoder)
<1>1. <<>> \in Seq(STRING) /\ Len(<<>>) = 0
  OBVIOUS
<1>2. PICK D : Decodes(D, b.decoder, <<>>) /\ SameKeys(Decoded(b, <<>>), D[Len(<<>>)])
  BY <1>1, DecodedSteps
<1> QED BY <1>1, <1>2 DEF Decodes

\* The codes that remain go on where the ones that were read have ended.
LEMMA DecodedRest ==
  ASSUME NEW b \in KeyboardState, NEW seq \in Seq(STRING), NEW m \in 1 .. Len(seq)
  PROVE  LET read == SubSeq(seq, 1, m)
             rest == SubSeq(seq, m + 1, Len(seq))
         IN  /\ read \in Seq(STRING) /\ rest \in Seq(STRING)
             /\ SameKeys(Decoded(i8042_interrupt_handler(b, read), rest), Decoded(b, seq))
<1> DEFINE read == SubSeq(seq, 1, m)
           rest == SubSeq(seq, m + 1, Len(seq))
           r    == i8042_interrupt_handler(b, read)
<1>1. PICK n \in Nat : Len(seq) = m + n
  <2>1. Len(seq) - m \in Nat /\ Len(seq) = m + (Len(seq) - m)
    OBVIOUS
  <2> QED BY <2>1
<1>2. /\ read \in Seq(STRING) /\ Len(read) = m
      /\ \A i \in 1 .. m : read[i] = seq[i]
  OBVIOUS
<1>3. /\ rest \in Seq(STRING) /\ Len(rest) = n
      /\ \A i \in 1 .. n : rest[i] = seq[m + i]
  BY <1>1
<1> HIDE DEF read, rest
<1>4. PICK D : Decodes(D, b.decoder, seq) /\ SameKeys(Decoded(b, seq), D[Len(seq)])
  BY DecodedSteps
<1>5. PICK E : Decodes(E, b.decoder, read) /\ SameKeys(Decoded(b, read), E[Len(read)])
  BY <1>2, DecodedSteps
<1>6. r \in KeyboardState
  BY <1>2, DecodedSteps
<1>7. PICK G : Decodes(G, r.decoder, rest) /\ SameKeys(Decoded(r, rest), G[Len(rest)])
  <2> HIDE DEF r
  <2> QED BY <1>3, <1>6, DecodedSteps
<1>8. SameKeys(D[m], E[m])
  <2>1. /\ 0 + m = m /\ m \in Nat /\ 0 \in Nat /\ m <= Len(seq) /\ m <= Len(read)
        /\ \A i \in 1 .. m : read[i] = seq[0 + i]
    BY <1>2
  <2>2. SameKeys(D[0], b.decoder)
    BY <1>4 DEF Decodes, SameKeys
  <2>3. SameKeys(D[0 + m], E[m])
    BY <1>2, <1>4, <1>5, <2>1, <2>2, DecodersAgree
  <2> QED BY <2>1, <2>3
<1>9. SameKeys(D[m], r.decoder)
  BY <1>2, <1>5, <1>8 DEF SameKeys, Decoded
<1>10. m \in Nat /\ m + n <= Len(seq) /\ n <= Len(rest)
  BY <1>1, <1>3
<1>11. SameKeys(D[m + n], G[n])
  <2> HIDE DEF r
  <2> QED BY <1>3, <1>4, <1>7, <1>9, <1>10, DecodersAgree
<1>12. D[m + n] = D[Len(seq)] /\ G[n] = G[Len(rest)]
  BY <1>1, <1>3
<1>13. SameKeys(Decoded(r, rest), Decoded(b, seq))
  BY <1>4, <1>7, <1>11, <1>12 DEF SameKeys
<1> QED BY <1>2, <1>3, <1>13 DEF read, rest

LEMMA DecodedAppend ==
  ASSUME NEW b \in KeyboardState, NEW seq \in Seq(STRING), NEW c \in STRING,
         NEW d \in Decoder, SameKeys(Decoded(b, seq), d)
  PROVE  SameKeys(Decoded(b, Append(seq, c)), i8042_prepare_char(d, c))
<1> DEFINE s == Append(seq, c)
<1>0. PICK m \in Nat : m = Len(seq)
  OBVIOUS
<1>1. s \in Seq(STRING) /\ Len(s) = m + 1 /\ s[m + 1] = c /\ \A i \in 1 .. m : s[i] = seq[i]
  BY <1>0, AppendProperties
<1> HIDE DEF s
<1>2. PICK D : Decodes(D, b.decoder, s) /\ SameKeys(Decoded(b, s), D[Len(s)])
  BY <1>1, DecodedSteps
<1>3. PICK E : Decodes(E, b.decoder, seq) /\ SameKeys(Decoded(b, seq), E[Len(seq)])
  BY DecodedSteps
<1>4. SameKeys(D[m], E[m])
  <2>1. /\ 0 + m = m /\ 0 \in Nat /\ 0 + m <= Len(s) /\ m <= Len(seq)
        /\ \A i \in 1 .. m : seq[i] = s[0 + i]
    BY <1>0, <1>1
  <2>2. SameKeys(D[0], b.decoder)
    BY <1>2 DEF Decodes, SameKeys
  <2>3. SameKeys(D[0 + m], E[m])
    BY <1>1, <1>2, <1>3, <2>1, <2>2, DecodersAgree
  <2> QED BY <2>1, <2>3
<1>5. D[m + 1] = i8042_prepare_char(D[m], c) /\ D[m] \in Decoder
  BY <1>1, <1>2 DEF Decodes
<1>6. SameKeys(D[m], d)
  BY <1>0, <1>3, <1>4 DEF SameKeys
<1>7. SameKeys(D[m + 1], i8042_prepare_char(d, c))
  BY <1>5, <1>6, PrepareSame
<1> QED BY <1>1, <1>2, <1>7 DEF SameKeys, s

-----------------------------------------------------------------------------
(***************************************************************************)
(* The codes of a key, and those sent before the kernel starts.            *)
(***************************************************************************)
\* What a key does to the special keys that are down.
HeldAfter(e, down) ==
  IF e = NoEvent THEN down
  ELSE CASE e[2] = "down"   -> down \cup {e[1]}
         [] e[2] = "up"     -> down \ {e[1]}
         [] e[2] = "toggle" -> (down \ {e[1]}) \cup ({e[1]} \ down)

LEMMA EventHeld ==
  ASSUME NEW d, NEW e \in Events
  PROVE  ~KeyEvent(d, e).multi_code /\ KeyEvent(d, e).down = HeldAfter(e, d.down)
<1>1. e # NoEvent
  BY DEF Events, NoEvent, SpecKeys
<1>2. KeyEvent(d, e).multi_code = FALSE
  BY DEF KeyEvent
<1>3. KeyEvent(d, e).down = HeldAfter(e, d.down)
  <2>1. e[2] = "down" \/ e[2] = "up" \/ e[2] = "toggle"
    BY DEF Events
  <2> QED BY <1>1, <2>1 DEF KeyEvent, HeldAfter
<1> QED BY <1>2, <1>3

LEMMA KeyDecoded ==
  ASSUME NEW b \in KeyboardState, ~b.decoder.multi_code, NEW c, ScanCodes(c)
  PROVE  ~Decoded(b, c).multi_code /\ Decoded(b, c).down = HeldAfter(EventOf(c), b.decoder.down)
<1>0. c \in Seq(STRING) /\ (Len(c) = 1 \/ Len(c) = 2)
  BY DEF ScanCodes
<1>1. PICK D : Decodes(D, b.decoder, c) /\ SameKeys(Decoded(b, c), D[Len(c)])
  BY <1>0, DecodedSteps
<1>2. /\ D[0] = b.decoder /\ D[0] \in Decoder /\ D[1] = i8042_prepare_char(D[0], c[1])
      /\ Len(c) = 2 => D[1] \in Decoder /\ D[2] = i8042_prepare_char(D[1], c[2])
  BY <1>0, <1>1 DEF Decodes
<1>3. CASE Len(c) = 1
  <2>1. c[1] # "E0" /\ ~D[0].multi_code
    BY <1>2, <1>3 DEF ScanCodes
  <2>2. CASE c[1] \in DOMAIN Special
    <3>1. D[1] = KeyEvent(D[0], Special[c[1]]) /\ Special[c[1]] \in Events
      BY <1>2, <2>1, <2>2, SpecialType DEF i8042_prepare_char
    <3>2. EventOf(c) = Special[c[1]]
      BY <1>3, <2>2 DEF EventOf
    <3> QED BY <1>1, <1>2, <1>3, <3>1, <3>2, EventHeld DEF SameKeys
  <2>3. CASE c[1] \notin DOMAIN Special
    <3>1. D[1] = [D[0] EXCEPT !.key = Typed(D[0], c[1])]
      BY <1>2, <2>1, <2>3 DEF i8042_prepare_char
    <3>2. EventOf(c) = NoEvent
      BY <1>3, <2>3 DEF EventOf
    <3> QED BY <1>1, <1>2, <1>3, <2>1, <3>1, <3>2 DEF SameKeys, HeldAfter, Decoder
  <2> QED BY <2>2, <2>3
<1>4. CASE Len(c) = 2
  <2>1. D[1] = [D[0] EXCEPT !.multi_code = TRUE, !.key = NoKey]
    BY <1>2, <1>4 DEF ScanCodes, i8042_prepare_char
  <2>2. D[1].multi_code /\ D[1].down = D[0].down /\ D[2] = AfterE0(D[1], c[2])
    BY <1>2, <1>4, <2>1 DEF Decoder, i8042_prepare_char
  <2>3. CASE c[2] \in DOMAIN SpecialE0
    <3>1. D[2] = KeyEvent(D[1], SpecialE0[c[2]]) /\ SpecialE0[c[2]] \in Events
      BY <2>2, <2>3, SpecialType DEF AfterE0
    <3>2. EventOf(c) = SpecialE0[c[2]]
      BY <1>4, <2>3 DEF EventOf
    <3> QED BY <1>1, <1>2, <1>4, <2>2, <3>1, <3>2, EventHeld DEF SameKeys
  <2>4. CASE c[2] \notin DOMAIN SpecialE0
    <3>1. D[2] = [D[1] EXCEPT !.key = NoKey, !.multi_code = FALSE]
      BY <2>2, <2>4 DEF AfterE0
    <3>2. EventOf(c) = NoEvent
      BY <1>4, <2>4 DEF EventOf
    <3> QED BY <1>1, <1>2, <1>4, <2>2, <3>1, <3>2 DEF SameKeys, HeldAfter, Decoder
  <2> QED BY <2>3, <2>4
<1> QED BY <1>0, <1>3, <1>4

\* i8042_init: the keyboard, whether it has stopped reading, the codes it has left.
Initialising == [kb : KeyboardState, stopped : BOOLEAN, codes : Seq(STRING)]

EmptyCode(r, c) ==
  IF r.stopped THEN [r EXCEPT !.codes = Append(@, c)]
  ELSE LET b == i8042_read(r.kb, c)
       IN  [r EXCEPT !.kb.decoder = [b.decoder EXCEPT !.key = NoKey],
                     !.stopped    = b.decoder.key = NoKey]

LEMMA EmptyType ==
  ASSUME NEW r \in Initialising, NEW c \in STRING
  PROVE  /\ EmptyCode(r, c) \in Initialising
         /\ r.stopped => EmptyCode(r, c) = [r EXCEPT !.codes = Append(@, c)]
         /\ ~r.stopped => /\ EmptyCode(r, c).codes = r.codes
                          /\ SameKeys(EmptyCode(r, c).kb.decoder,
                                      i8042_prepare_char(r.kb.decoder, c))
<1>1. CASE r.stopped
  BY <1>1, AppendProperties DEF EmptyCode, Initialising
<1>2. CASE ~r.stopped
  <2> DEFINE b == i8042_read(r.kb, c)
             d == [b.decoder EXCEPT !.key = NoKey]
             e == EmptyCode(r, c)
  <2>1. /\ b \in KeyboardState /\ r.kb \in KeyboardState
        /\ b.decoder = i8042_prepare_char(r.kb.decoder, c)
    BY ReadType DEF Initialising
  <2>2. d \in Decoder /\ SameKeys(d, b.decoder)
    BY <2>1, KeyTypes DEF KeyboardState, Decoder, SameKeys
  <2>3. e = [r EXCEPT !.kb.decoder = d, !.stopped = b.decoder.key = NoKey]
    BY <1>2 DEF EmptyCode
  <2>4. (b.decoder.key = NoKey) \in BOOLEAN
    OBVIOUS
  <2> HIDE DEF b, d, e
  <2>5. [r.kb EXCEPT !.decoder = d] \in KeyboardState /\ [r.kb EXCEPT !.decoder = d].decoder = d
    BY <2>1, <2>2 DEF KeyboardState, Decoder
  <2>6. e.kb = [r.kb EXCEPT !.decoder = d] /\ e.codes = r.codes /\ e \in Initialising
    BY <2>3, <2>4, <2>5 DEF Initialising
  <2> QED BY <1>2, <2>1, <2>2, <2>5, <2>6 DEF e
<1> QED BY <1>1, <1>2

LEMMA EmptySteps ==
  ASSUME NEW r \in Initialising, NEW seq \in Seq(STRING)
  PROVE  \E h \in [0 .. Len(seq) -> Initialising] :
           /\ h[0] = r /\ FoldLeft(EmptyCode, r, seq) = h[Len(seq)]
           /\ \A i \in 1 .. Len(seq) : h[i] = EmptyCode(h[i - 1], seq[i])
<1> DEFINE F == [p \in Initialising \X STRING |-> EmptyCode(p[1], p[2])]
           D == SUBSET (DOMAIN seq)
           Turn(f, s) == IF s = {} THEN r ELSE EmptyCode(f[s \ {Max(s)}], seq[Max(s)])
           it == CHOOSE f : f = [s \in D |-> Turn(f, s)]
<1>1. F \in [Initialising \X STRING -> Initialising]
      /\ \A y \in Initialising, c \in STRING : F[<<y, c>>] = EmptyCode(y, c)
  BY EmptyType
<1> HIDE DEF F
<1>2. PICK g \in [D -> Initialising] : FoldOf(g, F, r, seq)
  BY <1>1, FoldExists
<1>3. g = [s \in D |-> Turn(g, s)]
  <2>1. \A s \in D : s # {} => s \ {Max(s)} \in D /\ seq[Max(s)] \in STRING
    BY Indices
  <2>2. \A s \in D : g[s] = Turn(g, s)
    BY <1>1, <1>2, <2>1 DEF FoldOf, OneTurn
  <2> HIDE DEF Turn
  <2> QED BY <1>2, <2>2
<1>4. it = [s \in D |-> Turn(it, s)]
  BY <1>3
<1>5. FoldLeft(EmptyCode, r, seq) = it[DOMAIN seq]
  BY DEF FoldLeft, MapThenFoldSet
<1> HIDE DEF it
<1>6. TypedTurns(it, Initialising, F, r, seq)
  <2>1. \A s \in D : s # {} => seq[Max(s)] \in STRING
    BY Indices
  <2> QED BY <1>1, <1>4, <2>1 DEF OneTurn, TypedTurns
<1>7. PICK h : LoopStates(h, it, Initialising, F, r, seq)
  BY <1>1, <1>6, FoldRuns
<1>8. PICK n \in Nat : n = Len(seq) /\ \A i \in 1 .. n : seq[i] \in STRING
  BY Indices
<1>9. /\ h \in [0 .. n -> Initialising] /\ h[0] = r /\ h[n] = it[DOMAIN seq]
      /\ \A i \in 1 .. n : h[i] = F[<<h[i - 1], seq[i]>>]
  BY <1>7, <1>8 DEF LoopStates
<1>10. \A i \in 1 .. n : h[i - 1] \in Initialising
  BY <1>9
<1>11. \A i \in 1 .. n : h[i] = EmptyCode(h[i - 1], seq[i])
  BY <1>1, <1>8, <1>9, <1>10
<1>12. FoldLeft(EmptyCode, r, seq) = h[n]
  BY <1>5, <1>9
<1> QED BY <1>8, <1>9, <1>11, <1>12

LEMMA BeforeType ==
  KeyboardBefore \in KeyboardState /\ KeyboardBefore.decoder \in Decoder
<1>1. KEYB_BUFF_SIZE \in Nat \ {0}
  BY KeyboardAssumption
<1> QED BY <1>1, KeyTypes DEF KeyboardBefore, KeyboardState, Decoder

\* The codes i8042_init leaves are decoded as if it had left them all.
LEMMA InitDecoded ==
  ASSUME NEW seq \in Seq(STRING), NEW r, r = i8042_init(seq)
  PROVE  /\ r.kb \in KeyboardState /\ r.codes \in Seq(STRING)
         /\ SameKeys(Decoded(r.kb, r.codes), Decoded(KeyboardBefore, seq))
<1> DEFINE start == [kb |-> KeyboardBefore, stopped |-> FALSE, codes |-> <<>>]
<1>0. start \in Initialising
  BY BeforeType DEF Initialising
<1>1. PICK h \in [0 .. Len(seq) -> Initialising] :
        /\ h[0] = start /\ FoldLeft(EmptyCode, start, seq) = h[Len(seq)]
        /\ \A i \in 1 .. Len(seq) : h[i] = EmptyCode(h[i - 1], seq[i])
  BY <1>0, EmptySteps
<1>2. r = h[Len(seq)]
  BY <1>1 DEF i8042_init, EmptyCode, FoldLeft, MapThenFoldSet
<1>3. PICK D : /\ Decodes(D, KeyboardBefore.decoder, seq)
               /\ SameKeys(Decoded(KeyboardBefore, seq), D[Len(seq)])
  BY BeforeType, DecodedSteps
<1>4. PICK n \in Nat : n = Len(seq) /\ \A i \in 1 .. n : seq[i] \in STRING
  OBVIOUS
<1> DEFINE Tracks(i) == /\ SameKeys(Decoded(h[i].kb, h[i].codes), D[i])
                        /\ ~h[i].stopped => h[i].codes = <<>>
           T == {i \in Nat : Tracks(i)}
<1>5. 0 \in T
  <2>1. /\ SameKeys(Decoded(KeyboardBefore, <<>>), KeyboardBefore.decoder)
        /\ D[0] = KeyboardBefore.decoder
    BY <1>3, BeforeType, DecodedNone DEF Decodes
  <2> QED BY <1>1, <2>1
<1>6. ASSUME NEW i \in 1 .. n, i - 1 \in T PROVE i \in T
  <2> DEFINE x == h[i - 1]
             y == h[i]
             c == seq[i]
  <2>1. /\ x \in Initialising /\ y \in Initialising /\ c \in STRING
        /\ y = EmptyCode(x, c) /\ i \in Nat
        /\ D[i - 1] \in Decoder /\ D[i] = i8042_prepare_char(D[i - 1], c)
    <3>1. i \in Nat /\ i \in 0 .. Len(seq) /\ i - 1 \in 0 .. Len(seq) /\ i \in 1 .. Len(seq)
      BY <1>4
    <3>2. x \in Initialising /\ y \in Initialising /\ c \in STRING /\ y = EmptyCode(x, c)
      BY <1>1, <1>4, <3>1
    <3>3. D[i - 1] \in Decoder /\ D[i] = i8042_prepare_char(D[i - 1], c)
      BY <1>3, <3>1 DEF Decodes
    <3> QED BY <3>1, <3>2, <3>3
  <2>2. SameKeys(Decoded(x.kb, x.codes), D[i - 1]) /\ (~x.stopped => x.codes = <<>>)
    BY <1>6
  <2> HIDE DEF x, y, c
  <2>3. x.kb \in KeyboardState /\ x.codes \in Seq(STRING) /\ y.kb \in KeyboardState
    BY <2>1 DEF Initialising
  <2>4. CASE x.stopped
    <3>1. y.kb = x.kb /\ y.codes = Append(x.codes, c) /\ y.stopped
      <4>1. y = [x EXCEPT !.codes = Append(@, c)]
        BY <2>1, <2>4, EmptyType
      <4> QED BY <2>1, <2>4, <4>1 DEF Initialising
    <3>2. SameKeys(Decoded(y.kb, y.codes), D[i])
      BY <2>1, <2>2, <2>3, <3>1, DecodedAppend
    <3> QED BY <2>1, <3>1, <3>2 DEF y
  <2>5. CASE ~x.stopped
    <3>1. y.codes = <<>> /\ SameKeys(y.kb.decoder, i8042_prepare_char(x.kb.decoder, c))
      BY <2>1, <2>2, <2>5, EmptyType
    <3>2. SameKeys(x.kb.decoder, D[i - 1]) /\ x.kb.decoder \in Decoder
      <4>1. SameKeys(Decoded(x.kb, <<>>), x.kb.decoder)
        BY <2>3, DecodedNone
      <4> QED BY <2>2, <2>3, <2>5, <4>1 DEF SameKeys, KeyboardState, Decoder
    <3>3. SameKeys(i8042_prepare_char(x.kb.decoder, c), D[i])
      BY <2>1, <3>2, PrepareSame
    <3>4. SameKeys(Decoded(y.kb, <<>>), y.kb.decoder)
      BY <2>3, DecodedNone
    <3>5. SameKeys(Decoded(y.kb, y.codes), D[i])
      BY <3>1, <3>3, <3>4 DEF SameKeys
    <3> QED BY <2>1, <3>1, <3>5 DEF y
  <2> QED BY <2>4, <2>5
<1>7. n \in T
  <2> HIDE DEF T
  <2>1. \A i \in 0 .. n : i \in T
    BY <1>5, <1>6, Upto
  <2> QED BY <2>1
<1>8. r.kb \in KeyboardState /\ r.codes \in Seq(STRING)
  BY <1>1, <1>2, <1>4 DEF Initialising
<1> QED BY <1>2, <1>3, <1>4, <1>7, <1>8 DEF SameKeys

-----------------------------------------------------------------------------
(***************************************************************************)
(* Reading keystrokes.                                                     *)
(***************************************************************************)
\* The loop of i8042_get takes the first keystroke that is enough, or all.
TakenAsAsked(b, flags, beyond, n) ==
  LET Enough(i) == "ONLY_ASCII" \notin flags \/ NthKey(b, i, beyond).ascii # NoChar
  IN  (n = b.size \/ Enough(n)) /\ \A i \in 1 .. n - 1 : ~Enough(i)

LEMMA TakenType ==
  ASSUME NEW b \in KeyboardState, b.size > 0, NEW flags, NEW beyond
  PROVE  /\ Taken(b, flags, beyond) \in 1 .. b.size
         /\ TakenAsAsked(b, flags, beyond, Taken(b, flags, beyond))
<1> DEFINE Enough(i) == "ONLY_ASCII" \notin flags \/ NthKey(b, i, beyond).ascii # NoChar
           P(n) == (n = b.size \/ Enough(n)) /\ \A i \in 1 .. n - 1 : ~Enough(i)
           Stop == {n \in 1 .. b.size : n = b.size \/ Enough(n)}
<1>1. b.size \in Nat
  BY KeyboardAssumption DEF KeyboardState
<1> HIDE DEF Enough
<1>2. Stop \in SUBSET Nat /\ Stop # {}
  BY <1>1
<1>3. PICK n \in Stop : \A m \in Stop : n <= m
  <2> HIDE DEF Stop
  <2> QED BY <1>2, LeastExists
<1>4. n \in 1 .. b.size /\ P(n)
  <2>1. ASSUME NEW i \in 1 .. n - 1 PROVE ~Enough(i)
    <3>1. i \notin Stop /\ i \in 1 .. b.size
      BY <1>1, <1>3
    <3> QED BY <3>1
  <2> QED BY <1>3, <2>1
<1>5. Taken(b, flags, beyond) = CHOOSE m \in 1 .. b.size : P(m)
  BY DEF Taken, Enough
<1>6. \A m : P(m) => TakenAsAsked(b, flags, beyond, m)
  BY DEF TakenAsAsked, Enough
<1> HIDE DEF P
<1>7. Taken(b, flags, beyond) \in 1 .. b.size /\ P(Taken(b, flags, beyond))
  BY <1>4, <1>5
<1> QED BY <1>6, <1>7

LEMMA GetType ==
  ASSUME NEW b \in KeyboardState, NEW flags, NEW beyond \in Keystroke
  PROVE  /\ i8042_get(b, flags, beyond).kb \in KeyboardState
         /\ i8042_get(b, flags, beyond).kb.decoder = b.decoder
         /\ i8042_get(b, flags, beyond).key \in Keystroke
<1>0. KEYB_BUFF_SIZE \in Nat \ {0}
  BY KeyboardAssumption
<1>1. CASE b.size = 0
  BY <1>1, KeyTypes DEF i8042_get
<1>2. CASE b.size # 0
  <2> DEFINE b1 == ReadFirst(b, flags)
             n  == Taken(b1, flags, beyond)
             x  == NthKey(b1, n, beyond)
             b2 == IF "CLEAR_BUFFER" \in flags
                   THEN [b1 EXCEPT !.first = 0, !.last = 0, !.size = 0]
                   ELSE [b1 EXCEPT !.first = (@ + n) % KEYB_BUFF_SIZE, !.size = @ - n]
  <2>1. b1 \in KeyboardState /\ b1.size > 0 /\ b1.decoder = b.decoder
    <3>1. b.size > 0
      BY <1>0, <1>2 DEF KeyboardState
    <3>2. /\ (IF b.last > 0 THEN b.last - 1 ELSE KEYB_BUFF_SIZE) \in 0 .. KEYB_BUFF_SIZE
          /\ 1 \in 0 .. KEYB_BUFF_SIZE
      BY <1>0 DEF KeyboardState
    <3> DEFINE f == IF b.last > 0 THEN b.last - 1 ELSE KEYB_BUFF_SIZE
    <3>3. b1 = b \/ b1 = [b EXCEPT !.first = f, !.size = 1]
      BY DEF ReadFirst
    <3>4. f \in 0 .. KEYB_BUFF_SIZE
      BY <3>2
    <3> HIDE DEF b1, f
    <3>5. CASE b1 = b
      BY <3>1, <3>5
    <3>6. CASE b1 = [b EXCEPT !.first = f, !.size = 1]
      <4>1. b1.size = 1 /\ b1.decoder = b.decoder
        BY <3>6 DEF KeyboardState
      <4>2. b1 \in KeyboardState
        BY <3>2, <3>4, <3>6 DEF KeyboardState
      <4> QED BY <4>1, <4>2
    <3> QED BY <3>3, <3>5, <3>6
  <2> HIDE DEF b1
  <2>2. n \in 1 .. b1.size
    BY <2>1, TakenType
  <2> HIDE DEF n
  <2>3. b1.first \in Nat /\ b1.size \in Nat /\ b1.size <= KEYB_BUFF_SIZE /\ n \in Nat
    BY <1>0, <2>1, <2>2 DEF KeyboardState
  <2>4. x \in Keystroke
    <3>1. b1.first + n - 1 \in Nat
      BY <2>2, <2>3
    <3>2. (b1.first + n - 1) % KEYB_BUFF_SIZE \in 0 .. KEYB_BUFF_SIZE - 1
      BY <1>0, <3>1, ModType
    <3> QED BY <2>1, <3>2 DEF NthKey, KeyboardState
  <2>5. b2 \in KeyboardState /\ b2.decoder = b1.decoder
    <3>1. /\ (b1.first + n) % KEYB_BUFF_SIZE \in 0 .. KEYB_BUFF_SIZE
          /\ b1.size - n \in 0 .. KEYB_BUFF_SIZE
      <4>1. b1.first + n \in Nat
        BY <2>3
      <4>2. (b1.first + n) % KEYB_BUFF_SIZE \in 0 .. KEYB_BUFF_SIZE - 1
        BY <1>0, <4>1, ModType
      <4>3. b1.size - n \in 0 .. KEYB_BUFF_SIZE
        <5>1. PICK z \in Nat : z = b1.size
          BY <2>3
        <5>2. z - n \in 0 .. KEYB_BUFF_SIZE
          BY <1>0, <2>2, <2>3, <5>1
        <5> QED BY <5>1, <5>2
      <4> QED BY <1>0, <4>2, <4>3
    <3>2. [b1 EXCEPT !.first = (b1.first + n) % KEYB_BUFF_SIZE,
                     !.size = b1.size - n] \in KeyboardState
      BY <2>1, <3>1 DEF KeyboardState
    <3>3. 0 \in 0 .. KEYB_BUFF_SIZE /\ 0 \in 0 .. KEYB_BUFF_SIZE - 1
      BY <1>0
    <3>4. [b1 EXCEPT !.first = 0, !.last = 0, !.size = 0] \in KeyboardState
      BY <2>1, <3>3 DEF KeyboardState
    <3> QED BY <2>1, <3>2, <3>4 DEF KeyboardState
  <2>6. /\ i8042_get(b, flags, beyond).kb = b2
        /\ i8042_get(b, flags, beyond).key = (IF "ONLY_ASCII" \in flags THEN ASCII_KEY(x) ELSE x)
    BY <1>2 DEF i8042_get, b1, n
  <2> HIDE DEF x, b2
  <2> QED BY <2>1, <2>4, <2>5, <2>6, KeyTypes
<1> QED BY <1>1, <1>2

LEMMA SendType ==
  ASSUME NEW b \in KeyboardState, NEW keys \in Seq(Keystroke)
  PROVE  i8042_send(b, keys) \in KeyboardState /\ i8042_send(b, keys).decoder = b.decoder
<1>1. PICK h \in [0 .. Len(keys) -> KeyboardState] :
        /\ h[0] = b /\ FoldLeft(i8042_insert_keystroke, b, keys) = h[Len(keys)]
        /\ \A i \in 1 .. Len(keys) : h[i] = i8042_insert_keystroke(h[i - 1], keys[i])
  BY InsertSteps
<1>2. PICK n \in Nat : n = Len(keys) /\ \A i \in 1 .. n : keys[i] \in Keystroke
  OBVIOUS
<1> DEFINE T == {i \in Nat : h[i].decoder = b.decoder}
<1>3. 0 \in T
  BY <1>1
<1>4. ASSUME NEW i \in 1 .. n, i - 1 \in T PROVE i \in T
  <2>1. i \in Nat /\ h[i - 1].decoder = b.decoder /\ h[i - 1] \in KeyboardState
    BY <1>1, <1>2, <1>4
  <2> QED BY <1>1, <1>2, <2>1, InsertType
<1>5. n \in T
  <2> HIDE DEF T
  <2>1. \A i \in 0 .. n : i \in T
    BY <1>3, <1>4, Upto
  <2> QED BY <2>1
<1>6. h[n] \in KeyboardState
  BY <1>1, <1>2
<1> QED BY <1>1, <1>2, <1>5, <1>6 DEF i8042_send

-----------------------------------------------------------------------------
(***************************************************************************)
(* The serial port: types.                                                 *)
(***************************************************************************)
LEMMA ReceivedType ==
  /\ \A c \in ChipState : c.rx \in Seq(Byte) /\ Len(c.rx) \in 0 .. UART_FIFO
  /\ \A c \in ChipState, s \in Seq(Byte) : Len(s) <= UART_FIFO => [c EXCEPT !.rx = s] \in ChipState
<1>1. UART_FIFO \in Nat
  BY UartAssumption
<1>2. \A s \in BoundedSeq(Byte, UART_FIFO) : s \in Seq(Byte) /\ Len(s) \in 0 .. UART_FIFO
  BY <1>1 DEF BoundedSeq, SeqOf
<1>3. \A s \in Seq(Byte) : Len(s) <= UART_FIFO => s \in BoundedSeq(Byte, UART_FIFO)
  BY <1>1 DEF BoundedSeq, SeqOf
<1> QED BY <1>2, <1>3 DEF ChipState

LEMMA ReadUartType ==
  ASSUME NEW u \in UartState, NEW c \in ChipState
  PROVE  uart_read(u, c).u \in UartState /\ uart_read(u, c).chip \in ChipState
<1>1. c.rx \in Seq(Byte)
  BY ReceivedType
<1>2. PICK h \in [0 .. Len(c.rx) -> UartState] :
        /\ h[0] = u /\ FoldLeft(PutIn, u, c.rx) = h[Len(c.rx)]
        /\ \A i \in 1 .. Len(c.rx) : h[i] = PutIn(h[i - 1], c.rx[i])
  BY <1>1, PutInSteps
<1>3. Len(c.rx) \in 0 .. Len(c.rx)
  BY <1>1
<1>4. [c EXCEPT !.rx = <<>>] \in ChipState
  <2>1. <<>> \in Seq(Byte) /\ Len(<<>>) <= UART_FIFO
    BY UartAssumption
  <2> QED BY <2>1, ReceivedType
<1> QED BY <1>2, <1>3, <1>4 DEF uart_read

LEMMA RecvType ==
  ASSUME NEW u \in UartState, NEW size \in Nat
  PROVE  uart_recv(u, size).u \in UartState
<1>0. BUFFER_SIZE \in Nat \ {0} /\ u.insz \in 0 .. BUFFER_SIZE /\ u.inf \in 0 .. BUFFER_SIZE - 1
  BY UartAssumption DEF UartState, BufferIndex
<1> DEFINE n == IF size < u.insz THEN size ELSE u.insz
<1>1. u.inf + n \in Nat /\ u.insz - n \in 0 .. BUFFER_SIZE
  BY <1>0
<1> HIDE DEF n
<1>2. (u.inf + n) % BUFFER_SIZE \in BufferIndex
  BY <1>0, <1>1, ModType DEF BufferIndex
<1> QED BY <1>1, <1>2 DEF uart_recv, UartState, n

LEMMA WriteType ==
  ASSUME NEW u \in UartState, NEW c \in ChipState, NEW n \in 0 .. u.outsz
  PROVE  uart_write(u, c, n).u \in UartState /\ uart_write(u, c, n).chip \in ChipState
<1>0. BUFFER_SIZE \in Nat \ {0} /\ u.outsz \in 0 .. BUFFER_SIZE /\ u.outf \in 0 .. BUFFER_SIZE - 1
  BY UartAssumption DEF UartState, BufferIndex
<1>1. u.outf + n \in Nat /\ u.outsz - n \in 0 .. BUFFER_SIZE
  BY <1>0
<1>2. (u.outf + n) % BUFFER_SIZE \in BufferIndex
  BY <1>0, <1>1, ModType DEF BufferIndex
<1>3. [c EXCEPT !.busy = c.busy \/ n > 0] \in ChipState
  BY DEF ChipState
<1> QED BY <1>1, <1>2, <1>3 DEF uart_write, UartState

LEMMA ConfigType ==
  ASSUME NEW u \in UartState, NEW c \in ChipState, NEW mode
  PROVE  uart_config(u, c, mode).u \in UartState /\ uart_config(u, c, mode).chip \in ChipState
<1>1. 0 \in BufferIndex /\ 0 \in 0 .. BUFFER_SIZE
  BY UartAssumption DEF BufferIndex
<1>2. <<>> \in BoundedSeq(Byte, UART_FIFO)
  BY UartAssumption DEF BoundedSeq, SeqOf
<1>3. CASE mode \in {"UART_BYTE", "UART_STREAM"}
  BY <1>1, <1>2, <1>3 DEF uart_config, UartState, ChipState
<1> QED BY <1>3 DEF uart_config

LEMMA PayloadType ==
  ASSUME NEW data \in Seq(Byte), NEW flags
  PROVE  Payload(data, flags) \in Seq(Byte)
<1>1. CASE flags = "PRINTSTRING" /\ Terminator \in ToSet(data)
  <2> DEFINE P(i) == data[i] = Terminator /\ \A j \in 1 .. i - 1 : data[j] # Terminator
             S == {i \in 1 .. Len(data) : data[i] = Terminator}
  <2>1. S \in SUBSET Nat /\ S # {}
    BY <1>1 DEF ToSet
  <2>2. PICK i \in S : \A j \in S : i <= j
    <3> HIDE DEF S
    <3> QED BY <2>1, LeastExists
  <2>3. i \in 1 .. Len(data) /\ P(i)
    BY <2>2
  <2> DEFINE e == CHOOSE m \in 1 .. Len(data) : P(m)
  <2>4. e \in 1 .. Len(data)
    <3> HIDE DEF P
    <3> QED BY <2>3
  <2>5. Payload(data, flags) = SubSeq(data, 1, e - 1)
    BY <1>1 DEF Payload
  <2> HIDE DEF e
  <2> QED BY <2>4, <2>5
<1>2. CASE flags = "PRINTSTRING" /\ Terminator \notin ToSet(data)
  BY <1>2 DEF Payload
<1>3. CASE flags \in {"CLEAR", "GOTOXY"}
  BY <1>3, UartAssumption DEF Payload
<1>4. CASE flags \notin {"PRINTSTRING", "CLEAR", "GOTOXY"}
  BY <1>4 DEF Payload
<1> QED BY <1>1, <1>2, <1>3, <1>4

\* In the loop of uart_send the size is only known not to be negative.
SendingState ==
  [uart_type : {"UNDEFINED", "UT16550A"},
   mode      : {"UART_BYTE", "UART_STREAM"},
   inbuff    : [BufferIndex -> Byte], inf  : BufferIndex, inl  : BufferIndex,
   insz      : 0 .. BUFFER_SIZE,
   outbuff   : [BufferIndex -> Byte], outf : BufferIndex, outl : BufferIndex,
   outsz     : Nat]

LEMMA PutOutType ==
  ASSUME NEW u \in SendingState, NEW b \in Byte
  PROVE  PutOut(u, b) \in SendingState /\ PutOut(u, b).outsz = u.outsz + 1
<1>1. INC_MOD(u.outl) \in BufferIndex
  BY UartAssumption DEF SendingState, BufferIndex, INC_MOD
<1>2. [u.outbuff EXCEPT ![u.outl] = b] \in [BufferIndex -> Byte] /\ u.outsz + 1 \in Nat
  BY DEF SendingState
<1> QED BY <1>1, <1>2 DEF PutOut, SendingState

LEMMA PutOutSteps ==
  ASSUME NEW u \in SendingState, NEW seq \in Seq(Byte)
  PROVE  \E h \in [0 .. Len(seq) -> SendingState] :
           /\ h[0] = u /\ FoldLeft(PutOut, u, seq) = h[Len(seq)]
           /\ \A i \in 1 .. Len(seq) : h[i] = PutOut(h[i - 1], seq[i])
<1> DEFINE F == [p \in SendingState \X Byte |-> PutOut(p[1], p[2])]
           D == SUBSET (DOMAIN seq)
           Turn(f, s) == IF s = {} THEN u ELSE PutOut(f[s \ {Max(s)}], seq[Max(s)])
           it == CHOOSE f : f = [s \in D |-> Turn(f, s)]
<1>1. F \in [SendingState \X Byte -> SendingState]
      /\ \A y \in SendingState, c \in Byte : F[<<y, c>>] = PutOut(y, c)
  BY PutOutType
<1> HIDE DEF F
<1>2. PICK g \in [D -> SendingState] : FoldOf(g, F, u, seq)
  BY <1>1, FoldExists
<1>3. g = [s \in D |-> Turn(g, s)]
  <2>1. \A s \in D : s # {} => s \ {Max(s)} \in D /\ seq[Max(s)] \in Byte
    BY Indices
  <2>2. \A s \in D : g[s] = Turn(g, s)
    BY <1>1, <1>2, <2>1 DEF FoldOf, OneTurn
  <2> HIDE DEF Turn
  <2> QED BY <1>2, <2>2
<1>4. it = [s \in D |-> Turn(it, s)]
  BY <1>3
<1>5. FoldLeft(PutOut, u, seq) = it[DOMAIN seq]
  BY DEF FoldLeft, MapThenFoldSet
<1> HIDE DEF it
<1>6. TypedTurns(it, SendingState, F, u, seq)
  <2>1. \A s \in D : s # {} => seq[Max(s)] \in Byte
    BY Indices
  <2> QED BY <1>1, <1>4, <2>1 DEF OneTurn, TypedTurns
<1>7. PICK h : LoopStates(h, it, SendingState, F, u, seq)
  BY <1>1, <1>6, FoldRuns
<1>8. PICK n \in Nat : n = Len(seq) /\ \A i \in 1 .. n : seq[i] \in Byte
  BY Indices
<1>9. /\ h \in [0 .. n -> SendingState] /\ h[0] = u /\ h[n] = it[DOMAIN seq]
      /\ \A i \in 1 .. n : h[i] = F[<<h[i - 1], seq[i]>>]
  BY <1>7, <1>8 DEF LoopStates
<1>10. \A i \in 1 .. n : h[i - 1] \in SendingState
  BY <1>9
<1>11. \A i \in 1 .. n : h[i] = PutOut(h[i - 1], seq[i])
  BY <1>1, <1>8, <1>9, <1>10
<1>12. FoldLeft(PutOut, u, seq) = h[n]
  BY <1>5, <1>9
<1> QED BY <1>8, <1>9, <1>11, <1>12

LEMMA UartSendType ==
  ASSUME NEW u \in UartState, NEW data \in Seq(Byte), NEW flags
  PROVE  uart_send(u, data, flags) \in UartState
<1> DEFINE bytes == Payload(data, flags)
           m     == Room(u, bytes)
           seq   == SubSeq(bytes, 1, m)
<1>0. BUFFER_SIZE \in Nat /\ u.outsz \in 0 .. BUFFER_SIZE
  BY UartAssumption DEF UartState
<1>1. bytes \in Seq(Byte)
  BY PayloadType
<1> HIDE DEF bytes
<1>2. m \in Nat /\ m <= Len(bytes) /\ u.outsz + m <= BUFFER_SIZE
  BY <1>0, <1>1 DEF Room
<1> HIDE DEF m
<1>3. seq \in Seq(Byte) /\ Len(seq) = m /\ \A i \in 1 .. m : seq[i] \in Byte
  BY <1>1, <1>2
<1> HIDE DEF seq
<1>4. u \in SendingState
  BY <1>0 DEF UartState, SendingState
<1>5. PICK h \in [0 .. Len(seq) -> SendingState] :
        /\ h[0] = u /\ FoldLeft(PutOut, u, seq) = h[Len(seq)]
        /\ \A i \in 1 .. Len(seq) : h[i] = PutOut(h[i - 1], seq[i])
  BY <1>3, <1>4, PutOutSteps
<1> DEFINE T == {i \in Nat : h[i].outsz = u.outsz + i}
<1>6. 0 \in T
  BY <1>0, <1>5
<1>7. ASSUME NEW i \in 1 .. m, i - 1 \in T PROVE i \in T
  <2>1. /\ i \in Nat /\ h[i - 1].outsz = u.outsz + (i - 1)
        /\ h[i - 1] \in SendingState /\ h[i] = PutOut(h[i - 1], seq[i])
    BY <1>2, <1>3, <1>5, <1>7
  <2>2. h[i].outsz = h[i - 1].outsz + 1
    BY <1>3, <2>1, PutOutType
  <2> QED BY <1>0, <2>1, <2>2
<1>8. m \in T
  <2> HIDE DEF T
  <2>1. \A i \in 0 .. m : i \in T
    BY <1>2, <1>6, <1>7, Upto
  <2> QED BY <1>2, <2>1
<1>9. h[m] \in SendingState /\ h[m].outsz = u.outsz + m
  BY <1>2, <1>3, <1>5, <1>8
<1>10. h[m].outsz \in 0 .. BUFFER_SIZE
  BY <1>0, <1>2, <1>9
<1>11. h[m] \in UartState
  BY <1>9, <1>10 DEF UartState, SendingState
<1> QED BY <1>3, <1>5, <1>11 DEF uart_send, seq, m, bytes

-----------------------------------------------------------------------------
(***************************************************************************)
(* The interrupt subsystem: types.                                         *)
(***************************************************************************)
Handlers == {"k_syscall", "k_memory_fault", "arch_timer_handler",
             "uart_interrupt_handler", "i8042_interrupt_handler"}
Ics        == IcState(Handlers)
Registrations == (0 .. INTERRUPTS - 1) \X Handlers

LEMMA RegisteredType ==
  ASSUME NEW s \in Ics, NEW e \in Registrations
  PROVE  Registered(s, e) \in Ics
<1>1. e[1] \in 0 .. INTERRUPTS - 1 /\ e[2] \in Handlers
  BY DEF Registrations
<1>2. Append(s.ihandlers[e[1]], e[2]) \in Seq(Handlers)
  BY <1>1, AppendProperties DEF Ics, IcState
<1>3. [s EXCEPT !.ihandlers[e[1]] = Append(@, e[2])] \in Ics
  BY <1>1, <1>2 DEF Ics, IcState
<1>4. [s EXCEPT !.halted = TRUE] \in Ics
  BY DEF Ics, IcState
<1> QED BY <1>3, <1>4 DEF Registered, arch_register_interrupt_handler

LEMMA RegisteredSteps ==
  ASSUME NEW ic0 \in Ics, NEW seq \in Seq(Registrations)
  PROVE  \E h \in [0 .. Len(seq) -> Ics] :
           /\ h[0] = ic0 /\ FoldLeft(Registered, ic0, seq) = h[Len(seq)]
           /\ \A i \in 1 .. Len(seq) : h[i] = Registered(h[i - 1], seq[i])
<1> DEFINE F == [p \in Ics \X Registrations |-> Registered(p[1], p[2])]
           D == SUBSET (DOMAIN seq)
           Turn(f, s) == IF s = {} THEN ic0 ELSE Registered(f[s \ {Max(s)}], seq[Max(s)])
           it == CHOOSE f : f = [s \in D |-> Turn(f, s)]
<1>1. F \in [Ics \X Registrations -> Ics]
      /\ \A y \in Ics, c \in Registrations : F[<<y, c>>] = Registered(y, c)
  BY RegisteredType
<1> HIDE DEF F
<1>2. PICK g \in [D -> Ics] : FoldOf(g, F, ic0, seq)
  BY <1>1, FoldExists
<1>3. g = [s \in D |-> Turn(g, s)]
  <2>1. \A s \in D : s # {} => s \ {Max(s)} \in D /\ seq[Max(s)] \in Registrations
    BY Indices
  <2>2. \A s \in D : g[s] = Turn(g, s)
    BY <1>1, <1>2, <2>1 DEF FoldOf, OneTurn
  <2> HIDE DEF Turn
  <2> QED BY <1>2, <2>2
<1>4. it = [s \in D |-> Turn(it, s)]
  BY <1>3
<1>5. FoldLeft(Registered, ic0, seq) = it[DOMAIN seq]
  BY DEF FoldLeft, MapThenFoldSet
<1> HIDE DEF it
<1>6. TypedTurns(it, Ics, F, ic0, seq)
  <2>1. \A s \in D : s # {} => seq[Max(s)] \in Registrations
    BY Indices
  <2> QED BY <1>1, <1>4, <2>1 DEF OneTurn, TypedTurns
<1>7. PICK h : LoopStates(h, it, Ics, F, ic0, seq)
  BY <1>1, <1>6, FoldRuns
<1>8. PICK n \in Nat : n = Len(seq) /\ \A i \in 1 .. n : seq[i] \in Registrations
  BY Indices
<1>9. /\ h \in [0 .. n -> Ics] /\ h[0] = ic0 /\ h[n] = it[DOMAIN seq]
      /\ \A i \in 1 .. n : h[i] = F[<<h[i - 1], seq[i]>>]
  BY <1>7, <1>8 DEF LoopStates
<1>10. \A i \in 1 .. n : h[i - 1] \in Ics
  BY <1>9
<1>11. \A i \in 1 .. n : h[i] = Registered(h[i - 1], seq[i])
  BY <1>1, <1>8, <1>9, <1>10
<1>12. FoldLeft(Registered, ic0, seq) = h[n]
  BY <1>5, <1>9
<1> QED BY <1>8, <1>9, <1>11, <1>12

LEMMA InterruptNumbers ==
  /\ INTERRUPTS = 49 /\ HW_INTERRUPTS = 48 /\ SOFTWARE_INTERRUPT = 48 /\ IRQ_OFFSET = 32
  /\ IRQ_TIMER = 32 /\ IRQ_KEYBOARD = 33 /\ IRQ_SLAVE_PIC = 34 /\ IRQ_COM1 = 36
  /\ INT_STF = 12 /\ INT_GPF = 13
BY DEF INTERRUPTS, HW_INTERRUPTS, SOFTWARE_INTERRUPT, IRQ_OFFSET, IRQ_TIMER, IRQ_KEYBOARD,
       IRQ_SLAVE_PIC, IRQ_COM1, INT_STF, INT_GPF

LEMMA StartupType == k_devices_init(k_startup_interrupts) \in Ics
<1> DEFINE seq == << <<SOFTWARE_INTERRUPT, "k_syscall">>, <<INT_STF, "k_memory_fault">>,
                     <<INT_GPF, "k_memory_fault">>, <<IRQ_TIMER, "arch_timer_handler">> >>
<1>1. /\ \A h \in Handlers, i \in {12, 13, 32, 33, 36, 48} : <<i, h>> \in Registrations
      /\ \A h \in {"k_syscall", "k_memory_fault", "arch_timer_handler",
                   "uart_interrupt_handler", "i8042_interrupt_handler"} : h \in Handlers
  BY InterruptNumbers DEF Registrations, Handlers
<1>2. seq \in Seq(Registrations)
  <2>1. /\ <<SOFTWARE_INTERRUPT, "k_syscall">> \in Registrations
        /\ <<INT_STF, "k_memory_fault">> \in Registrations
        /\ <<INT_GPF, "k_memory_fault">> \in Registrations
        /\ <<IRQ_TIMER, "arch_timer_handler">> \in Registrations
    BY <1>1, InterruptNumbers
  <2>2. \A a, b, c, d \in Registrations : <<a, b, c, d>> \in Seq(Registrations)
    OBVIOUS
  <2> QED BY <2>1, <2>2
<1>3. arch_init_interrupts \in Ics
  <2>1. <<>> \in Seq(Handlers)
    OBVIOUS
  <2> QED BY <2>1, InterruptNumbers DEF arch_init_interrupts, Ics, IcState, i8259_init
<1> DEFINE base == arch_init_interrupts
<1>4. k_startup_interrupts = FoldLeft(Registered, base, seq)
  BY DEF k_startup_interrupts
<1> HIDE DEF seq, base
<1>5. k_startup_interrupts \in Ics
  <2>1. PICK h \in [0 .. Len(seq) -> Ics] :
          /\ h[0] = base /\ FoldLeft(Registered, base, seq) = h[Len(seq)]
          /\ \A i \in 1 .. Len(seq) : h[i] = Registered(h[i - 1], seq[i])
    BY <1>2, <1>3, RegisteredSteps DEF base
  <2>2. Len(seq) \in 0 .. Len(seq)
    BY <1>2
  <2> QED BY <1>4, <2>1, <2>2
<1>6. ASSUME NEW s \in Ics, NEW i \in {33, 36}, NEW h \in Handlers
      PROVE  k_device_init(s, i, h) \in Ics
  <2>1. Registered(s, <<i, h>>) \in Ics
    BY <1>1, RegisteredType
  <2>2. arch_register_interrupt_handler(s, i, h) \in Ics
    BY <2>1 DEF Registered
  <2>3. \A x \in Ics : i8259_irq_enable(x, i) \in Ics
    <3>1. i \in IRQ_OFFSET .. HW_INTERRUPTS - 1
      BY InterruptNumbers
    <3> QED BY <3>1 DEF i8259_irq_enable, Ics, IcState
  <2> QED BY <2>2, <2>3 DEF k_device_init
<1>7. /\ IRQ_COM1 \in {33, 36} /\ IRQ_KEYBOARD \in {33, 36}
      /\ "uart_interrupt_handler" \in Handlers /\ "i8042_interrupt_handler" \in Handlers
  BY InterruptNumbers DEF Handlers
<1> QED BY <1>5, <1>6, <1>7 DEF k_devices_init

LEMMA EnteredType ==
  ASSUME NEW s \in Ics, NEW irq \in Nat
  PROVE  /\ Entered(s, irq) \in Ics /\ Left(s, irq) \in Ics
         /\ [s EXCEPT !.halted = TRUE] \in Ics
<1>1. (IF IRQ_OFFSET <= irq /\ irq < HW_INTERRUPTS THEN s.in_service \cup {irq} ELSE s.in_service)
        \in SUBSET (IRQ_OFFSET .. HW_INTERRUPTS - 1)
  <2>1. s.in_service \in SUBSET (IRQ_OFFSET .. HW_INTERRUPTS - 1)
    BY DEF Ics, IcState
  <2>2. IRQ_OFFSET <= irq /\ irq < HW_INTERRUPTS => irq \in IRQ_OFFSET .. HW_INTERRUPTS - 1
    BY InterruptNumbers
  <2> QED BY <2>1, <2>2
<1>2. (s.halted \/ s.ihandlers[irq] = <<>>) \in BOOLEAN
  OBVIOUS
<1>3. Entered(s, irq) \in Ics
  BY <1>1, <1>2 DEF Entered, Ics, IcState
<1>4. i8259_at_exit(s, irq) \in Ics
  BY DEF i8259_at_exit, Ics, IcState
<1>5. Left(s, irq) \in Ics
  BY <1>4 DEF Left, Ics, IcState
<1>6. [s EXCEPT !.halted = TRUE] \in Ics
  BY DEF Ics, IcState
<1> QED BY <1>3, <1>5, <1>6

-----------------------------------------------------------------------------
(***************************************************************************)
(* The type invariant with the keys that are held.  It is inductive: who   *)
(* presses a key has waited for the codes of the last one to be read, so   *)
(* the decoder is then between two keys.                                   *)
(***************************************************************************)
DevInv ==
  /\ LockInv /\ DevTypeOK
  /\ codes \in Seq(STRING)
  /\ HeldKeysTracked

DevFrame ==
  /\ std \in [{"stdin", "stdout"} -> Device]
  /\ ic \in Ics
  /\ kb \in KeyboardState /\ key \in Keystroke
  /\ up \in UartState /\ chip \in ChipState

LEMMA DevFacts ==
  /\ LockInv /\ DevFrame => DevTypeOK
  /\ DevInv => DevFrame /\ LockInv
BY InvImplies DEF DevInv, DevTypeOK, DevFrame, LockInv, Ics, Handlers

LEMMA IcNext ==
  ASSUME DevInv, [DevNext]_devVars
  PROVE  ic' \in Ics
<1>0. ic \in Ics
  BY DevFacts DEF DevFrame
<1>1. \A irq \in Nat : ThroughInterrupt(irq) => ic' \in Ics
  BY <1>0, EnteredType DEF ThroughInterrupt
<1>2. SOFTWARE_INTERRUPT \in Nat /\ INT_GPF \in Nat /\ IRQ_KEYBOARD \in Nat /\ IRQ_COM1 \in Nat
  BY InterruptNumbers
<1>3. \A p : Call(p) => ic' \in Ics
  BY <1>1, <1>2 DEF Call
<1>4. CASE \/ sys__device_open \/ sys__device_close \/ sys__set_default
           \/ sys__device_lock \/ sys__device_unlock
           \/ KeyboardRecv \/ KeyboardSend \/ UartSend \/ UartSetConf \/ UartRecv
  BY <1>3, <1>4 DEF sys__device_open, sys__device_close, sys__set_default, sys__device_lock,
     sys__device_unlock, KeyboardRecv, KeyboardSend, UartSend, UartSetConf, UartRecv
<1>5. CASE ThreadCall \/ KeyboardInterrupt
  BY <1>1, <1>2, <1>5 DEF ThreadCall, KeyboardInterrupt
<1>6. CASE k_memory_fault
  <2>1. [Entered(ic, INT_GPF) EXCEPT !.halted = TRUE] \in Ics
    BY <1>0, <1>2, EnteredType
  <2> QED BY <1>1, <1>2, <1>6, <2>1 DEF k_memory_fault
<1>7. CASE UartInterrupt
  <2> DEFINE s == IF spins THEN ic ELSE Entered(ic, IRQ_COM1)
  <2>1. s \in Ics
    BY <1>0, <1>2, EnteredType
  <2>2. ic' = s \/ ic' = Left(s, IRQ_COM1)
    BY <1>7 DEF UartInterrupt
  <2> HIDE DEF s
  <2> QED BY <1>2, <2>1, <2>2, EnteredType
<1>8. CASE PressKey \/ ReleaseKey \/ ByteArrives \/ TransmitterEmpty \/ UNCHANGED devVars
  BY <1>0, <1>8 DEF PressKey, ReleaseKey, ByteArrives, TransmitterEmpty, devVars
<1> QED BY <1>4, <1>5, <1>6, <1>7, <1>8 DEF DevNext

LEMMA StdNext ==
  ASSUME DevInv, [DevNext]_devVars
  PROVE  std' \in [{"stdin", "stdout"} -> Device]
<1>0. std \in [{"stdin", "stdout"} -> Device]
  BY DevFacts DEF DevFrame
<1>1. CASE sys__set_default
  <2>1. PICK name \in Device \cup {NoDevice}, s \in {"stdin", "stdout"} :
          std' = IF k_device_open(name) = NoDevice THEN std
                 ELSE [std EXCEPT ![s] = k_device_open(name)]
    BY <1>1 DEF sys__set_default
  <2>2. k_device_open(name) \in Device \cup {NoDevice}
    BY DEF k_device_open
  <2> QED BY <1>0, <2>1, <2>2
<1>2. CASE UNCHANGED std
  BY <1>0, <1>2
<1> QED BY <1>1, <1>2 DEF DevNext, sys__device_open, sys__device_close, sys__device_lock,
     sys__device_unlock, ThreadCall, k_memory_fault, PressKey, ReleaseKey, KeyboardInterrupt,
     KeyboardRecv, KeyboardSend, ByteArrives, TransmitterEmpty, UartInterrupt, UartSend,
     UartSetConf, UartRecv, devVars, layerVars

LEMMA UartNext ==
  ASSUME DevInv, [DevNext]_devVars
  PROVE  up' \in UartState /\ chip' \in ChipState
<1>0. up \in UartState /\ chip \in ChipState
  BY DevFacts DEF DevFrame
<1>1. CASE ByteArrives
  <2>1. PICK b \in Byte :
          chip' = IF Len(chip.rx) < UART_FIFO THEN [chip EXCEPT !.rx = Append(@, b)] ELSE chip
    BY <1>1 DEF ByteArrives
  <2>2. chip.rx \in Seq(Byte) /\ UART_FIFO \in Nat
    BY <1>0, ReceivedType, UartAssumption
  <2>3. Append(chip.rx, b) \in Seq(Byte) /\ Len(Append(chip.rx, b)) = Len(chip.rx) + 1
    BY <2>2, AppendProperties
  <2>4. CASE Len(chip.rx) < UART_FIFO
    <3>1. Len(Append(chip.rx, b)) <= UART_FIFO
      BY <2>2, <2>3, <2>4
    <3>2. [chip EXCEPT !.rx = Append(chip.rx, b)] \in ChipState
      BY <1>0, <2>3, <3>1, ReceivedType
    <3> QED BY <1>0, <1>1, <2>1, <2>4, <3>2 DEF ByteArrives
  <2> QED BY <1>0, <1>1, <2>1, <2>4 DEF ByteArrives
<1>2. CASE TransmitterEmpty
  BY <1>0, <1>2 DEF TransmitterEmpty, ChipState
<1>3. CASE UartInterrupt
  <2>1. chip' = chip \/ chip' = [chip EXCEPT !.empty = FALSE]
    BY <1>3 DEF UartInterrupt, uart_interrupt_handler
  <2> QED BY <1>0, <1>3, <2>1 DEF UartInterrupt, ChipState
<1>4. CASE UartSend
  <2>1. PICK data \in Texts, flags \in SendFlags :
          \E n \in 0 .. uart_send(up, data, flags).outsz :
          /\ up' = uart_write(uart_send(up, data, flags), chip, n).u
          /\ chip' = uart_write(uart_send(up, data, flags), chip, n).chip
    BY <1>4 DEF UartSend
  <2>2. data \in Seq(Byte)
    BY DevicesAssumption
  <2>3. uart_send(up, data, flags) \in UartState
    BY <1>0, <2>2, UartSendType
  <2> QED BY <1>0, <2>1, <2>3, WriteType
<1>5. CASE UartSetConf
  BY <1>0, <1>5, ConfigType DEF UartSetConf
<1>6. CASE UartRecv
  <2>1. PICK size \in RecvSizes :
          up' = uart_recv(uart_read(up, chip).u, size).u /\ chip' = uart_read(up, chip).chip
    BY <1>6 DEF UartRecv
  <2>2. size \in Nat
    BY DevicesAssumption
  <2>3. uart_read(up, chip).u \in UartState /\ uart_read(up, chip).chip \in ChipState
    BY <1>0, ReadUartType
  <2> QED BY <2>1, <2>2, <2>3, RecvType
<1>7. CASE UNCHANGED <<up, chip>>
  BY <1>0, <1>7
<1> QED BY <1>1, <1>2, <1>3, <1>4, <1>5, <1>6, <1>7 DEF DevNext, sys__device_open,
     sys__device_close, sys__set_default, sys__device_lock, sys__device_unlock, ThreadCall,
     k_memory_fault, PressKey, ReleaseKey, KeyboardInterrupt, KeyboardRecv, KeyboardSend,
     devVars, uartVars

\* The keys that are down, after the codes of one of them.
LEMMA KeyTracked ==
  ASSUME DevInv, exercised = "i8042", exercised' = exercised, kb' = kb,
         NEW c, ScanCodes(c), Sent(c),
         pressed' \cap SpecKeys = HeldAfter(EventOf(c), pressed \cap SpecKeys)
  PROVE  codes' \in Seq(STRING) /\ HeldKeysTracked'
<1>1. kb \in KeyboardState /\ codes = <<>> /\ codes' = c
  BY DevFacts DEF DevFrame, Sent
<1>2. kb.decoder.down = pressed \cap SpecKeys /\ ~kb.decoder.multi_code
  BY <1>1, DecodedNone DEF DevInv, HeldKeysTracked, SameKeys
<1>3. /\ ~Decoded(kb, c).multi_code
      /\ Decoded(kb, c).down = HeldAfter(EventOf(c), kb.decoder.down)
  BY <1>1, <1>2, KeyDecoded
<1>4. codes' \in Seq(STRING)
  BY <1>1 DEF ScanCodes
<1> QED BY <1>1, <1>2, <1>3, <1>4 DEF HeldKeysTracked

LEMMA PressTracked ==
  ASSUME DevInv, PressKey
  PROVE  codes' \in Seq(STRING) /\ HeldKeysTracked'
<1>1. PICK name \in DOMAIN Keys :
        /\ Sent(Keys[name].press)
        /\ pressed' = IF name = "CAPSL" THEN pressed ELSE pressed \cup ({name} \cap SpecKeys)
  BY DEF PressKey
<1> DEFINE c == Keys[name].press
<1>2. /\ ScanCodes(c)
      /\ EventOf(c) = IF name \in SpecKeys \ {"CAPSL"} THEN <<name, "down">> ELSE NoEvent
  BY KeysAssumption
<1> HIDE DEF c
<1>3. pressed' \cap SpecKeys = HeldAfter(EventOf(c), pressed \cap SpecKeys)
  <2>1. CASE name \in SpecKeys \ {"CAPSL"}
    <3>1. EventOf(c) = <<name, "down">> /\ <<name, "down">> # NoEvent
      BY <1>2, <2>1 DEF NoEvent
    <3> QED BY <1>1, <2>1, <3>1 DEF HeldAfter
  <2>2. CASE name \notin SpecKeys \ {"CAPSL"}
    BY <1>1, <1>2, <2>2 DEF HeldAfter
  <2> QED BY <2>1, <2>2
<1> QED BY <1>1, <1>2, <1>3, KeyTracked DEF PressKey, c

LEMMA ReleaseTracked ==
  ASSUME DevInv, ReleaseKey
  PROVE  codes' \in Seq(STRING) /\ HeldKeysTracked'
<1>1. PICK name \in DOMAIN Keys :
        /\ Sent(Keys[name].release)
        /\ pressed' = IF name = "CAPSL" THEN (pressed \ {name}) \cup ({name} \ pressed)
                      ELSE pressed \ {name}
  BY DEF ReleaseKey
<1> DEFINE c == Keys[name].release
<1>2. /\ ScanCodes(c)
      /\ EventOf(c) = IF name = "CAPSL" THEN <<name, "toggle">>
                      ELSE IF name \in SpecKeys THEN <<name, "up">> ELSE NoEvent
  BY KeysAssumption
<1> HIDE DEF c
<1>3. pressed' \cap SpecKeys = HeldAfter(EventOf(c), pressed \cap SpecKeys)
  <2>1. CASE name = "CAPSL"
    <3>1. EventOf(c) = <<name, "toggle">> /\ <<name, "toggle">> # NoEvent /\ name \in SpecKeys
      BY <1>2, <2>1 DEF NoEvent, SpecKeys
    <3> QED BY <1>1, <2>1, <3>1 DEF HeldAfter
  <2>2. CASE name # "CAPSL" /\ name \in SpecKeys
    <3>1. EventOf(c) = <<name, "up">> /\ <<name, "up">> # NoEvent
      BY <1>2, <2>2 DEF NoEvent
    <3> QED BY <1>1, <2>2, <3>1 DEF HeldAfter
  <2>3. CASE name # "CAPSL" /\ name \notin SpecKeys
    BY <1>1, <1>2, <2>3 DEF HeldAfter
  <2> QED BY <2>1, <2>2, <2>3
<1> QED BY <1>1, <1>2, <1>3, KeyTracked DEF ReleaseKey, c

LEMMA KeyboardNext ==
  ASSUME DevInv, [DevNext]_devVars
  PROVE  /\ kb' \in KeyboardState /\ key' \in Keystroke
         /\ codes' \in Seq(STRING) /\ HeldKeysTracked'
<1>0. kb \in KeyboardState /\ key \in Keystroke /\ codes \in Seq(STRING) /\ NoKey \in Keystroke
  BY DevFacts, KeyTypes DEF DevFrame, DevInv
<1>1. CASE PressKey
  BY <1>0, <1>1, PressTracked DEF PressKey
<1>2. CASE ReleaseKey
  BY <1>0, <1>2, ReleaseTracked DEF ReleaseKey
<1>3. CASE KeyboardInterrupt
  <2>1. PICK n \in 1 .. Len(codes) :
          /\ kb' = i8042_interrupt_handler(kb, SubSeq(codes, 1, n))
          /\ codes' = SubSeq(codes, n + 1, Len(codes))
    BY <1>3 DEF KeyboardInterrupt
  <2>2. /\ SubSeq(codes, 1, n) \in Seq(STRING) /\ codes' \in Seq(STRING)
        /\ SameKeys(Decoded(kb', codes'), Decoded(kb, codes))
    BY <1>0, <2>1, DecodedRest
  <2>3. kb' \in KeyboardState
    BY <1>0, <2>1, <2>2, DecodedSteps
  <2>4. exercised' = exercised /\ pressed' = pressed /\ key' = NoKey
    BY <1>3 DEF KeyboardInterrupt
  <2>5. HeldKeysTracked'
    BY <2>2, <2>4 DEF DevInv, HeldKeysTracked, SameKeys
  <2> QED BY <1>0, <2>2, <2>3, <2>4, <2>5
<1>4. ASSUME kb' \in KeyboardState, kb'.decoder = kb.decoder, key' \in Keystroke,
             UNCHANGED <<exercised, codes, pressed>>
      PROVE  codes' \in Seq(STRING) /\ HeldKeysTracked'
  <2>1. PICK D : Decodes(D, kb.decoder, codes) /\ SameKeys(Decoded(kb, codes), D[Len(codes)])
    BY <1>0, DecodedSteps
  <2>2. PICK E : Decodes(E, kb.decoder, codes) /\ SameKeys(Decoded(kb', codes), E[Len(codes)])
    BY <1>0, <1>4, DecodedSteps
  <2>3. SameKeys(D[Len(codes)], E[Len(codes)])
    <3>1. PICK n \in Nat : n = Len(codes)
      BY <1>0
    <3>2. 0 + n = n /\ 0 \in Nat /\ n <= Len(codes) /\ \A i \in 1 .. n : codes[i] = codes[0 + i]
      BY <3>1
    <3>3. SameKeys(D[0], kb.decoder)
      BY <2>1 DEF Decodes, SameKeys
    <3>4. SameKeys(D[0 + n], E[n])
      BY <1>0, <2>1, <2>2, <3>2, <3>3, DecodersAgree
    <3> QED BY <3>1, <3>2, <3>4
  <2>4. SameKeys(Decoded(kb', codes'), Decoded(kb, codes))
    BY <1>4, <2>1, <2>2, <2>3 DEF SameKeys
  <2> QED BY <1>0, <1>4, <2>4 DEF DevInv, HeldKeysTracked, SameKeys
<1>5. CASE KeyboardRecv
  <2>1. PICK flags \in GetFlags, beyond \in {NoKey, CHAR("K_RCTRL_UP")} :
          kb' = i8042_get(kb, flags, beyond).kb /\ key' = i8042_get(kb, flags, beyond).key
    BY <1>5 DEF KeyboardRecv
  <2>2. beyond \in Keystroke
    BY KeyTypes
  <2>3. kb' \in KeyboardState /\ kb'.decoder = kb.decoder /\ key' \in Keystroke
    BY <1>0, <2>1, <2>2, GetType
  <2> QED BY <1>4, <1>5, <2>3 DEF KeyboardRecv, Call
<1>6. CASE KeyboardSend
  <2>1. PICK keys \in PushedBack : kb' = i8042_send(kb, keys)
    BY <1>6 DEF KeyboardSend
  <2>2. keys \in Seq(Keystroke)
    BY DevicesAssumption
  <2>3. kb' \in KeyboardState /\ kb'.decoder = kb.decoder /\ key' = NoKey
    BY <1>0, <1>6, <2>1, <2>2, SendType DEF KeyboardSend
  <2> QED BY <1>0, <1>4, <1>6, <2>3 DEF KeyboardSend, Call
<1>7. CASE UNCHANGED <<exercised, kb, codes, pressed, key>>
  BY <1>0, <1>7 DEF DevInv, HeldKeysTracked
<1> QED BY <1>1, <1>2, <1>3, <1>5, <1>6, <1>7 DEF DevNext, sys__device_open,
     sys__device_close, sys__set_default, sys__device_lock, sys__device_unlock, ThreadCall,
     k_memory_fault, ByteArrives, TransmitterEmpty, UartInterrupt, UartSend, UartSetConf,
     UartRecv, Call, devVars, keyboardVars

LEMMA DevInitInv == DevInit => DevInv
<1> SUFFICES ASSUME DevInit PROVE DevInv
  OBVIOUS
<1>1. LockInv
  BY LockInit
<1>2. PICK boot \in BootCodes :
        /\ kb = i8042_init(boot.codes).kb /\ codes = i8042_init(boot.codes).codes
        /\ pressed = boot.pressed
  BY DEF DevInit
<1>3. /\ boot.codes \in Seq(STRING)
      /\ Decoded(KeyboardBefore, boot.codes).down = boot.pressed \cap SpecKeys
      /\ ~Decoded(KeyboardBefore, boot.codes).multi_code
  BY BootAssumption
<1>4. /\ kb \in KeyboardState /\ codes \in Seq(STRING)
      /\ SameKeys(Decoded(kb, codes), Decoded(KeyboardBefore, boot.codes))
  BY <1>2, <1>3, InitDecoded
<1>5. HeldKeysTracked
  BY <1>2, <1>3, <1>4 DEF HeldKeysTracked, SameKeys
<1>6. up \in UartState /\ chip \in ChipState
  <2>1. 0 \in BufferIndex /\ 0 \in 0 .. BUFFER_SIZE /\ Terminator \in Byte
    BY UartAssumption DEF BufferIndex
  <2>2. <<>> \in BoundedSeq(Byte, UART_FIFO)
    BY UartAssumption DEF BoundedSeq, SeqOf
  <2>3. identify_UART(UartBefore) \in UartState /\ identify_UART(UartBefore).uart_type # "UNDEFINED"
    BY <2>1 DEF UartBefore, identify_UART, UartState
  <2>4. ChipBefore \in ChipState
    BY <2>2 DEF ChipBefore, ChipState
  <2> QED BY <2>3, <2>4 DEF DevInit, uart_init
<1>7. ic \in Ics /\ std \in [{"stdin", "stdout"} -> Device] /\ key \in Keystroke
  BY StartupType, KeyTypes, DevicesAssumption DEF DevInit
<1> QED BY <1>1, <1>4, <1>5, <1>6, <1>7, DevFacts DEF DevInv, DevFrame

LEMMA DevInvariant == DevSpec => []DevInv
<1>1. DevInv /\ [DevNext]_devVars => DevInv'
  <2> SUFFICES ASSUME DevInv, [DevNext]_devVars PROVE DevInv'
    OBVIOUS
  <2>1. LockInv'
    BY LockNext, DevFacts
  <2>2. ic' \in Ics /\ std' \in [{"stdin", "stdout"} -> Device]
    BY IcNext, StdNext
  <2>3. up' \in UartState /\ chip' \in ChipState
    BY UartNext
  <2>4. /\ kb' \in KeyboardState /\ key' \in Keystroke
        /\ codes' \in Seq(STRING) /\ HeldKeysTracked'
    BY KeyboardNext
  <2>5. DevFrame'
    BY <2>2, <2>3, <2>4 DEF DevFrame
  <2>6. DevTypeOK'
    <3>1. LockInv' /\ DevFrame' => DevTypeOK'
      BY DevFacts, PTL
    <3> QED BY <2>1, <2>5, <3>1
  <2> QED BY <2>1, <2>4, <2>6 DEF DevInv
<1> QED BY <1>1, DevInitInv, PTL DEF DevSpec

(***************************************************************************)
(* Type correctness of the device layer: the drivers' indices stay in      *)
(* their buffers and the sizes within their capacity, for buffers of any   *)
(* size; first may be the one past the keyboard's buffer.                  *)
(***************************************************************************)
THEOREM DevicesTyped == DevSpec => []DevTypeOK
BY DevInvariant, PTL DEF DevInv

(***************************************************************************)
(* The driver's spec_keys_down, once the codes that have arrived are read, *)
(* is the set of special keys that are down and the state of Caps Lock,    *)
(* for any keyboard whose keys send one code, or E0 and one more.          *)
(***************************************************************************)
THEOREM HeldKeysAlwaysTracked == DevSpec => []HeldKeysTracked
BY DevInvariant, PTL DEF DevInv

(***************************************************************************)
(* Circular buffers: size items from first on, in an array of n.           *)
(***************************************************************************)
Ring(buff, n, first, size) == [i \in 1 .. size |-> buff[(first + i - 1) % n]]

Wrap(x, n) == IF x < n THEN x ELSE x - n

LEMMA ModOnce ==
  ASSUME NEW n \in Nat \ {0}, NEW x \in Nat, x < n + n
  PROVE  x % n = Wrap(x, n) /\ Wrap(x, n) \in 0 .. n - 1
BY DEF Wrap

RingAt(q, buff, n, first, size) ==
  /\ Len(q) = size
  /\ \A i \in 1 .. size : /\ q[i] = buff[Wrap(first + i - 1, n)]
                          /\ Wrap(first + i - 1, n) \in 0 .. n - 1

LEMMA RingItems ==
  ASSUME NEW n \in Nat \ {0}, NEW buff, NEW first \in 0 .. n - 1, NEW size \in 0 .. n
  PROVE  RingAt(Ring(buff, n, first, size), buff, n, first, size)
<1>1. ASSUME NEW i \in 1 .. size
      PROVE  /\ (first + i - 1) % n = Wrap(first + i - 1, n)
             /\ Wrap(first + i - 1, n) \in 0 .. n - 1
  <2>1. first + i - 1 \in Nat /\ first + i - 1 < n + n
    OBVIOUS
  <2> QED BY <2>1, ModOnce, Zenon
<1> DEFINE r == [i \in 1 .. size |-> buff[Wrap(first + i - 1, n)]]
<1>2. Ring(buff, n, first, size) = r
  BY <1>1, Zenon DEF Ring
<1>3. Len(r) = size /\ \A i \in 1 .. size : r[i] = buff[Wrap(first + i - 1, n)]
  OBVIOUS
<1> HIDE DEF r
<1>4. RingAt(r, buff, n, first, size)
  BY <1>1, <1>3 DEF RingAt
<1> QED BY <1>2, <1>4

LEMMA RingSeq ==
  ASSUME NEW B, NEW n \in Nat \ {0}, NEW buff \in [0 .. n - 1 -> B],
         NEW first \in 0 .. n - 1, NEW size \in 0 .. n
  PROVE  Ring(buff, n, first, size) \in Seq(B)
<1> DEFINE r == Ring(buff, n, first, size)
<1>1. RingAt(r, buff, n, first, size)
  BY RingItems
<1>3. r = [i \in 1 .. size |-> r[i]]
  BY DEF Ring
<1> HIDE DEF r
<1>2. \A i \in 1 .. size : r[i] \in B
  BY <1>1 DEF RingAt
<1>4. r \in [1 .. size -> B]
  BY <1>2, <1>3, Zenon
<1>5. size \in Nat
  OBVIOUS
<1>6. r \in Seq(B)
  BY <1>4, <1>5
<1> QED BY <1>6 DEF r

LEMMA Rest ==
  ASSUME NEW B, NEW s \in Seq(B), NEW m \in 0 .. Len(s)
  PROVE  /\ SubSeq(s, m + 1, Len(s)) \in Seq(B)
         /\ Len(SubSeq(s, m + 1, Len(s))) = Len(s) - m
         /\ \A i \in 1 .. Len(s) - m : SubSeq(s, m + 1, Len(s))[i] = s[m + i]
<1> DEFINE a == m + 1
           b == Len(s)
           t == SubSeq(s, a, b)
<1>1. a \in Int /\ b \in Int /\ \A i \in a .. b : s[i] \in B
  OBVIOUS
<1>2. b - a + 1 = Len(s) - m /\ (b < a => b - a + 1 = 0) /\ \A i \in Int : a + i - 1 = m + i
  OBVIOUS
<1> HIDE DEF a, b
<1>3. /\ t \in Seq(B) /\ Len(t) = (IF a <= b THEN b - a + 1 ELSE 0)
      /\ \A i \in 1 .. b - a + 1 : t[i] = s[a + i - 1]
  BY <1>1, SubSeqProperties
<1> HIDE DEF t
<1>4. t \in Seq(B) /\ Len(t) = Len(s) - m /\ \A i \in 1 .. Len(s) - m : t[i] = s[m + i]
  BY <1>1, <1>2, <1>3
<1> QED BY <1>4 DEF a, b, t

\* The newest items of s, at most n of them.
Newest(s, n) == IF Len(s) <= n THEN s ELSE SubSeq(s, Len(s) - n + 1, Len(s))

EndOf(t, s, n) ==
  /\ Len(t) = n
  /\ \A i \in 1 .. n : t[i] = s[Len(s) - n + i]

LEMMA NewestSeq ==
  ASSUME NEW B, NEW n \in Nat \ {0}, NEW s \in Seq(B), Len(s) > n
  PROVE  Newest(s, n) \in Seq(B) /\ EndOf(Newest(s, n), s, n)
<1> DEFINE a == Len(s) - n + 1
           b == Len(s)
           t == SubSeq(s, a, b)
<1>1. a \in Int /\ b \in Int /\ a <= b /\ \A i \in a .. b : s[i] \in B
  OBVIOUS
<1>2. Newest(s, n) = t /\ b - a + 1 = n /\ \A i \in 1 .. n : a + i - 1 = b - n + i
  BY DEF Newest
<1> HIDE DEF a, b
<1>3. t \in Seq(B) /\ Len(t) = b - a + 1 /\ \A i \in 1 .. b - a + 1 : t[i] = s[a + i - 1]
  BY <1>1, SubSeqProperties
<1> HIDE DEF t
<1>4. Len(t) = n /\ \A i \in 1 .. n : t[i] = s[b - n + i]
  BY <1>2, <1>3
<1> QED BY <1>2, <1>3, <1>4 DEF EndOf, b

LEMMA NewestAppend ==
  ASSUME NEW B, NEW n \in Nat \ {0}, NEW s \in Seq(B), NEW x \in B
  PROVE  Newest(Append(Newest(s, n), x), n) = Newest(Append(s, x), n)
<1> DEFINE l == Newest(s, n)
           a == Append(l, x)
           b == Append(s, x)
<1>0. PICK m \in Nat : m = Len(s)
  OBVIOUS
<1>1. CASE m <= n
  BY <1>0, <1>1 DEF Newest
<1>2. CASE m > n
  <2>0. l \in Seq(B) /\ EndOf(l, s, n)
    BY <1>0, <1>2, NewestSeq
  <2> HIDE DEF l
  <2>1. /\ l \in Seq(B) /\ Len(l) = n
        /\ \A i \in 1 .. n : l[i] = s[m - n + i]
    BY <1>0, <2>0 DEF EndOf
  <2>2. /\ a \in Seq(B) /\ Len(a) = n + 1 /\ a[n + 1] = x
        /\ \A i \in 1 .. n : a[i] = l[i]
    BY <2>1, AppendProperties
  <2>3. /\ b \in Seq(B) /\ Len(b) = m + 1 /\ b[m + 1] = x
        /\ \A i \in 1 .. m : b[i] = s[i]
    BY <1>0, AppendProperties
  <2> HIDE DEF a, b
  <2>4. /\ Newest(a, n) \in Seq(B) /\ Len(Newest(a, n)) = n
        /\ \A i \in 1 .. n : Newest(a, n)[i] = a[n + 1 - n + i]
    <3>1. Len(a) > n
      BY <2>2
    <3>2. Newest(a, n) \in Seq(B) /\ EndOf(Newest(a, n), a, n)
      BY <2>2, <3>1, NewestSeq
    <3> QED BY <2>2, <3>2 DEF EndOf
  <2>5. /\ Newest(b, n) \in Seq(B) /\ Len(Newest(b, n)) = n
        /\ \A i \in 1 .. n : Newest(b, n)[i] = b[m + 1 - n + i]
    <3>1. Len(b) > n
      BY <1>2, <2>3
    <3>2. Newest(b, n) \in Seq(B) /\ EndOf(Newest(b, n), b, n)
      BY <2>3, <3>1, NewestSeq
    <3>3. Len(b) = m + 1
      BY <2>3
    <3> QED BY <3>2, <3>3 DEF EndOf
  <2>6. ASSUME NEW i \in 1 .. n PROVE Newest(a, n)[i] = Newest(b, n)[i]
    <3>0. n + 1 - n + i = i + 1
      OBVIOUS
    <3>1. CASE i = n
      <4>1. m + 1 - n + i = m + 1
        BY <3>1
      <4> QED BY <2>2, <2>3, <2>4, <2>5, <3>0, <3>1, <4>1
    <3>2. CASE i < n
      <4>1. i + 1 \in 1 .. n /\ m - n + (i + 1) \in 1 .. m /\ m - n + (i + 1) = m + 1 - n + i
        BY <1>2, <3>2
      <4>2. a[i + 1] = s[m - n + (i + 1)]
        BY <2>1, <2>2, <4>1
      <4>3. b[m + 1 - n + i] = s[m - n + (i + 1)]
        BY <2>3, <4>1
      <4> QED BY <2>4, <2>5, <3>0, <4>2, <4>3
    <3> QED BY <3>1, <3>2
  <2>7. Newest(a, n) = Newest(b, n)
    BY <2>4, <2>5, <2>6, SeqEqual
  <2> QED BY <2>7 DEF a, b, l
<1> QED BY <1>0, <1>1, <1>2

\* The index behind the last item when one is put.
LEMMA RingLast ==
  ASSUME NEW n \in Nat \ {0}, NEW first \in 0 .. n - 1, NEW size \in 0 .. n
  PROVE  /\ size < n => (((first + size) % n) + 1) % n = (first + (size + 1)) % n
         /\ size = n => (((first + size) % n) + 1) % n = (((first + 1) % n) + n) % n
<1> DEFINE a == Wrap(first + size, n)
           b == Wrap(first + 1, n)
<1>1. first + size \in Nat /\ first + size < n + n /\ first + 1 \in Nat /\ first + 1 < n + n
  OBVIOUS
<1>2. (first + size) % n = a /\ a \in 0 .. n - 1 /\ (first + 1) % n = b /\ b \in 0 .. n - 1
  BY <1>1, ModOnce, Zenon
<1>3. a + 1 \in Nat /\ a + 1 < n + n /\ b + n \in Nat /\ b + n < n + n
  BY <1>2
<1>4. (a + 1) % n = Wrap(a + 1, n) /\ (b + n) % n = Wrap(b + n, n)
  BY <1>3, ModOnce, Zenon
<1>5. size = n => Wrap(a + 1, n) = Wrap(b + n, n)
  BY DEF Wrap
<1>6. ASSUME size < n PROVE (a + 1) % n = (first + (size + 1)) % n
  <2>1. first + (size + 1) \in Nat /\ first + (size + 1) < n + n
    BY <1>6
  <2>2. (first + (size + 1)) % n = Wrap(first + (size + 1), n)
    BY <2>1, ModOnce, Zenon
  <2>3. Wrap(a + 1, n) = Wrap(first + (size + 1), n)
    BY <1>6 DEF Wrap
  <2> QED BY <1>4, <2>2, <2>3
<1>7. size = n => (a + 1) % n = (b + n) % n
  BY <1>4, <1>5
<1> HIDE DEF a, b
<1> QED BY <1>2, <1>6, <1>7

\* The circular buffer holds the items of q.
IsRing(q, B, n, buff, first, last, size) ==
  /\ buff \in [0 .. n - 1 -> B] /\ first \in 0 .. n - 1 /\ size \in 0 .. n
  /\ last = (first + size) % n
  /\ q = Ring(buff, n, first, size)

LEMMA RingFacts ==
  ASSUME NEW n \in Nat \ {0}, NEW B, NEW q, NEW buff, NEW first, NEW last, NEW size,
         IsRing(q, B, n, buff, first, last, size)
  PROVE  q \in Seq(B) /\ Len(q) = size /\ last \in 0 .. n - 1
<1>1. /\ buff \in [0 .. n - 1 -> B] /\ first \in 0 .. n - 1 /\ size \in 0 .. n
      /\ last = (first + size) % n /\ q = Ring(buff, n, first, size)
  BY DEF IsRing
<1>2. q \in Seq(B)
  BY <1>1, RingSeq
<1>3. RingAt(q, buff, n, first, size)
  BY <1>1, RingItems
<1>4. first + size \in Nat
  BY <1>1
<1>5. (first + size) % n \in 0 .. n - 1
  BY <1>4, ModType
<1> QED BY <1>1, <1>2, <1>3, <1>5 DEF RingAt

LEMMA RingEmpty ==
  ASSUME NEW n \in Nat \ {0}, NEW B, NEW buff \in [0 .. n - 1 -> B]
  PROVE  IsRing(<<>>, B, n, buff, 0, 0, 0)
<1>1. 0 \in 0 .. n - 1 /\ 0 \in 0 .. n /\ 0 = (0 + 0) % n
  OBVIOUS
<1> DEFINE q == Ring(buff, n, 0, 0)
<1>2. IsRing(q, B, n, buff, 0, 0, 0)
  BY <1>1 DEF IsRing
<1>3. q \in Seq(B) /\ Len(q) = 0
  <2> HIDE DEF q
  <2> QED BY <1>2, RingFacts
<1> HIDE DEF q
<1>4. q = <<>>
  BY <1>3, EmptySeq
<1> QED BY <1>2, <1>4

\* An item is put behind the others; in a full buffer the oldest one goes.
PutAt(buff, last, x)      == [buff EXCEPT ![last] = x]
FirstThen(first, size, n) == IF size < n THEN first ELSE (first + 1) % n
LastThen(last, n)         == (last + 1) % n
SizeThen(size, n)         == IF size < n THEN size + 1 ELSE size

LEMMA RingPutItems ==
  ASSUME NEW n \in Nat \ {0}, NEW B, NEW q, NEW buff, NEW first, NEW last, NEW size,
         IsRing(q, B, n, buff, first, last, size),
         NEW x \in B, NEW put, put = [buff EXCEPT ![last] = x],
         NEW first2, first2 = IF size < n THEN first ELSE (first + 1) % n,
         NEW last2, last2 = (last + 1) % n,
         NEW size2, size2 = IF size < n THEN size + 1 ELSE size
  PROVE  IsRing(Newest(Append(q, x), n), B, n, put, first2, last2, size2)
<1>r. /\ buff \in [0 .. n - 1 -> B] /\ first \in 0 .. n - 1 /\ size \in 0 .. n
      /\ last = (first + size) % n /\ q = Ring(buff, n, first, size)
  BY DEF IsRing
<1> USE <1>r
<1> DEFINE a == Append(q, x)
<1>1. last = Wrap(first + size, n) /\ last \in 0 .. n - 1
  <2>1. first + size \in Nat /\ first + size < n + n
    OBVIOUS
  <2>2. (first + size) % n = Wrap(first + size, n) /\ Wrap(first + size, n) \in 0 .. n - 1
    BY <2>1, ModOnce, Zenon
  <2> QED BY <2>2
<1>2. q \in Seq(B)
  BY RingSeq
<1>q. RingAt(q, buff, n, first, size)
  BY RingItems
<1>3. Len(q) = size /\ \A i \in 1 .. size : q[i] = buff[Wrap(first + i - 1, n)]
  BY <1>q DEF RingAt
<1>4. /\ put \in [0 .. n - 1 -> B] /\ put[last] = x
      /\ \A j \in 0 .. n - 1 : j # last => put[j] = buff[j]
  BY <1>1
<1>5. /\ a \in Seq(B) /\ Len(a) = size + 1 /\ a[size + 1] = x
      /\ \A i \in 1 .. size : a[i] = q[i]
  BY <1>2, <1>3, AppendProperties
<1> HIDE DEF a
<1>6. ASSUME size < n PROVE Ring(put, n, first, size + 1) = Newest(a, n)
  <2> DEFINE r == Ring(put, n, first, size + 1)
  <2>0. size + 1 \in 0 .. n
    BY <1>6
  <2>1. r \in Seq(B)
    BY <1>4, <2>0, RingSeq
  <2>r. RingAt(r, put, n, first, size + 1)
    BY <2>0, RingItems
  <2> HIDE DEF r
  <2>2. /\ Len(r) = size + 1
        /\ \A i \in 1 .. size + 1 : r[i] = put[Wrap(first + i - 1, n)]
    BY <2>r DEF RingAt
  <2>3. Newest(a, n) = a
    <3>1. Len(a) <= n
      BY <1>5, <1>6
    <3> QED BY <3>1 DEF Newest
  <2>4. ASSUME NEW i \in 1 .. size + 1 PROVE r[i] = a[i]
    <3>1. CASE i = size + 1
      <4>1. first + i - 1 = first + size
        BY <3>1
      <4> QED BY <1>1, <1>4, <1>5, <2>2, <3>1, <4>1
    <3>2. CASE i \in 1 .. size
      <4> DEFINE j == Wrap(first + i - 1, n)
      <4>1. j \in 0 .. n - 1 /\ j # last
        BY <1>1, <1>6, <3>2 DEF Wrap
      <4>2. r[i] = put[j] /\ a[i] = buff[j]
        BY <1>3, <1>5, <2>2, <3>2
      <4> HIDE DEF j
      <4> QED BY <1>4, <4>1, <4>2
    <3> QED BY <3>1, <3>2
  <2>5. r = a
    BY <1>5, <2>1, <2>2, <2>4, SeqEqual
  <2> QED BY <2>3, <2>5 DEF r
<1>7. ASSUME size = n PROVE Ring(put, n, (first + 1) % n, n) = Newest(a, n)
  <2> DEFINE f == (first + 1) % n
             r == Ring(put, n, f, n)
  <2>1. f = (IF first + 1 < n THEN first + 1 ELSE 0) /\ f \in 0 .. n - 1
    <3>1. first + 1 \in Nat /\ first + 1 < n + n /\ (first + 1 < n \/ first + 1 = n)
      OBVIOUS
    <3>2. f = Wrap(first + 1, n) /\ f \in 0 .. n - 1
      BY <3>1, ModOnce, Zenon
    <3> HIDE DEF f
    <3> QED BY <3>1, <3>2 DEF Wrap
  <2> HIDE DEF f
  <2>2. n \in 0 .. n
    OBVIOUS
  <2>3. r \in Seq(B)
    BY <1>4, <2>1, <2>2, RingSeq
  <2>r. RingAt(r, put, n, f, n)
    BY <2>1, <2>2, RingItems
  <2> HIDE DEF r
  <2>4. Len(r) = n /\ \A i \in 1 .. n : r[i] = put[Wrap(f + i - 1, n)]
    BY <2>r DEF RingAt
  <2>5. /\ Newest(a, n) \in Seq(B) /\ Len(Newest(a, n)) = n
        /\ \A i \in 1 .. n : Newest(a, n)[i] = a[Len(a) - n + i]
    <3>1. Len(a) > n
      BY <1>5, <1>7
    <3>2. Newest(a, n) \in Seq(B) /\ EndOf(Newest(a, n), a, n)
      BY <1>5, <3>1, NewestSeq
    <3> QED BY <3>2 DEF EndOf
  <2>6. ASSUME NEW i \in 1 .. n PROVE r[i] = Newest(a, n)[i]
    <3> DEFINE j == Wrap(f + i - 1, n)
    <3>0. Len(a) - n + i = i + 1
      BY <1>5, <1>7
    <3>1. CASE i = n
      <4>1. j = last
        BY <1>1, <1>7, <2>1, <3>1 DEF Wrap
      <4>2. r[i] = put[j]
        BY <2>4
      <4> HIDE DEF j
      <4> QED BY <1>4, <1>5, <1>7, <2>5, <3>0, <3>1, <4>1, <4>2
    <3>2. CASE i < n
      <4>1. /\ j = Wrap(first + (i + 1) - 1, n)
            /\ j \in 0 .. n - 1 /\ j # last /\ i + 1 \in 1 .. size
        BY <1>1, <1>7, <2>1, <3>2 DEF Wrap
      <4>2. r[i] = put[j]
        BY <2>4
      <4>3. a[i + 1] = buff[j]
        BY <1>3, <1>5, <4>1
      <4> HIDE DEF j
      <4> QED BY <1>4, <2>5, <3>0, <4>1, <4>2, <4>3
    <3> QED BY <3>1, <3>2
  <2>7. r = Newest(a, n)
    BY <2>3, <2>4, <2>5, <2>6, SeqEqual
  <2> QED BY <2>7 DEF r, f
<1> HIDE <1>r
<1>8. n - 1 + 1 = n /\ Newest(a, n) = Newest(Append(q, x), n)
  BY DEF a
<1>9. CASE size < n
  <2>1. (((first + size) % n) + 1) % n = (first + (size + 1)) % n
    BY <1>r, <1>9, RingLast, Zenon
  <2>2. first2 = first /\ size2 = size + 1 /\ last2 = (first2 + size2) % n
    BY <1>r, <1>9, <2>1, Zenon
  <2>3. first2 \in 0 .. n - 1 /\ size2 \in 0 .. n
    BY <1>r, <1>9, <2>2
  <2>4. Newest(a, n) = Ring(put, n, first2, size2)
    BY <1>6, <1>9, <2>2
  <2> QED BY <1>4, <1>8, <2>2, <2>3, <2>4, Zenon DEF IsRing
<1>10. CASE size = n
  <2>1. (((first + size) % n) + 1) % n = (((first + 1) % n) + n) % n
    BY <1>r, <1>10, RingLast, Zenon
  <2>2. ~(size < n)
    BY <1>10
  <2>3. first2 = (first + 1) % n /\ size2 = n /\ last2 = (first2 + size2) % n
    BY <1>r, <1>10, <2>1, <2>2, Zenon
  <2>4. first2 \in 0 .. n - 1 /\ size2 \in 0 .. n
    <3>1. first + 1 \in Nat
      BY <1>r
    <3>2. (first + 1) % n \in 0 .. n - 1
      BY <3>1, ModType
    <3>3. n \in 0 .. n
      OBVIOUS
    <3> QED BY <2>3, <3>2, <3>3, Zenon
  <2>5. Newest(a, n) = Ring(put, n, first2, size2)
    BY <1>7, <1>10, <2>3, Zenon
  <2> QED BY <1>4, <1>8, <2>3, <2>4, <2>5, Zenon DEF IsRing
<1>11. size < n \/ size = n
  BY <1>r
<1> QED BY <1>9, <1>10, <1>11

LEMMA RingPut ==
  ASSUME NEW n \in Nat \ {0}, NEW B, NEW q, NEW buff, NEW first, NEW last, NEW size,
         IsRing(q, B, n, buff, first, last, size), NEW x \in B
  PROVE  IsRing(Newest(Append(q, x), n), B, n, PutAt(buff, last, x),
                FirstThen(first, size, n), LastThen(last, n), SizeThen(size, n))
<1> DEFINE put == PutAt(buff, last, x)
           first2 == FirstThen(first, size, n)
           last2 == LastThen(last, n)
           size2 == SizeThen(size, n)
<1>1. /\ put = [buff EXCEPT ![last] = x]
      /\ first2 = IF size < n THEN first ELSE (first + 1) % n
      /\ last2 = (last + 1) % n
      /\ size2 = IF size < n THEN size + 1 ELSE size
  BY DEF PutAt, FirstThen, LastThen, SizeThen
<1> HIDE DEF put, first2, last2, size2
<1>2. IsRing(Newest(Append(q, x), n), B, n, put, first2, last2, size2)
  BY <1>1, RingPutItems
<1> QED BY <1>2 DEF put, first2, last2, size2

\* The oldest items are taken.
LEMMA RingTake ==
  ASSUME NEW n \in Nat \ {0}, NEW B, NEW q, NEW buff, NEW first, NEW last, NEW size,
         IsRing(q, B, n, buff, first, last, size),
         NEW m \in 0 .. size, NEW f, f = (first + m) % n, NEW s, s = size - m
  PROVE  IsRing(SubSeq(q, m + 1, Len(q)), B, n, buff, f, last, s)
<1>r. /\ buff \in [0 .. n - 1 -> B] /\ first \in 0 .. n - 1 /\ size \in 0 .. n
      /\ last = (first + size) % n /\ q = Ring(buff, n, first, size)
  BY DEF IsRing
<1> USE <1>r
<1> DEFINE r == Ring(buff, n, f, size - m)
<1>1. f = Wrap(first + m, n) /\ f \in 0 .. n - 1
  <2>1. first + m \in Nat /\ first + m < n + n
    OBVIOUS
  <2> QED BY <2>1, ModOnce, Zenon
<1>2. q \in Seq(B)
  BY RingSeq
<1>3. RingAt(q, buff, n, first, size)
  BY RingItems
<1>4. size - m \in 0 .. n
  OBVIOUS
<1>5. r \in Seq(B)
  BY <1>1, <1>4, RingSeq
<1>6. RingAt(r, buff, n, f, size - m)
  BY <1>1, <1>4, RingItems
<1> HIDE DEF r
<1> DEFINE t == SubSeq(q, m + 1, Len(q))
<1>7. /\ t \in Seq(B) /\ Len(t) = size - m
      /\ \A i \in 1 .. size - m : t[i] = q[m + i]
  <2>1. Len(q) = size
    BY <1>3 DEF RingAt
  <2>2. /\ t \in Seq(B) /\ Len(t) = Len(q) - m
        /\ \A i \in 1 .. Len(q) - m : t[i] = q[m + i]
    <3>1. m \in 0 .. Len(q)
      BY <2>1
    <3> HIDE DEF t
    <3>2. /\ SubSeq(q, m + 1, Len(q)) \in Seq(B)
          /\ Len(SubSeq(q, m + 1, Len(q))) = Len(q) - m
          /\ \A i \in 1 .. Len(q) - m : SubSeq(q, m + 1, Len(q))[i] = q[m + i]
      BY <1>2, <3>1, Rest
    <3> QED BY <3>2 DEF t
  <2> HIDE DEF t
  <2> QED BY <2>1, <2>2
<1> HIDE DEF t
<1>8. ASSUME NEW i \in 1 .. size - m PROVE r[i] = t[i]
  <2>1. Wrap(f + i - 1, n) = Wrap(first + (m + i) - 1, n) /\ m + i \in 1 .. size
    BY <1>1 DEF Wrap
  <2>2. r[i] = buff[Wrap(f + i - 1, n)]
    BY <1>6 DEF RingAt
  <2>3. q[m + i] = buff[Wrap(first + (m + i) - 1, n)]
    BY <1>3, <2>1 DEF RingAt
  <2> QED BY <1>7, <2>1, <2>2, <2>3
<1>9. r = t
  <2>1. Len(r) = Len(t)
    BY <1>6, <1>7 DEF RingAt
  <2>2. \A i \in 1 .. Len(r) : r[i] = t[i]
    BY <1>6, <1>8 DEF RingAt
  <2> QED BY <1>5, <1>7, <2>1, <2>2, SeqEqual
<1>10. (f + (size - m)) % n = (first + size) % n
  <2>1. /\ f + (size - m) \in Nat /\ f + (size - m) < n + n
        /\ first + size \in Nat /\ first + size < n + n
    BY <1>1
  <2>2. /\ (f + (size - m)) % n = Wrap(f + (size - m), n)
        /\ (first + size) % n = Wrap(first + size, n)
    BY <2>1, ModOnce, Zenon
  <2>3. Wrap(f + (size - m), n) = Wrap(first + size, n)
    BY <1>1 DEF Wrap
  <2> QED BY <2>2, <2>3
<1> HIDE <1>r
<1>11. last = (f + s) % n /\ t = Ring(buff, n, f, s)
  BY <1>r, <1>9, <1>10, Zenon DEF r
<1>12. s \in 0 .. n
  BY <1>4
<1> QED BY <1>r, <1>1, <1>11, <1>12, Zenon DEF IsRing, t

LEMMA AppendConcat ==
  ASSUME NEW B, NEW q \in Seq(B), NEW p \in Seq(B), NEW e \in B
  PROVE  q \o p \in Seq(B) /\ q \o Append(p, e) = Append(q \o p, e)
<1> DEFINE x == <<e>>
<1>1. x \in Seq(B) /\ Append(p, e) = p \o x
  BY AppendIsConcat
<1>2. q \o p \in Seq(B)
  BY ConcatProperties
<1>3. Append(q \o p, e) = (q \o p) \o x
  BY <1>2, AppendIsConcat
<1> HIDE DEF x
<1>4. (q \o p) \o x = q \o (p \o x)
  BY <1>1, ConcatAssociative
<1> QED BY <1>1, <1>2, <1>3, <1>4

\* The first i items of s, behind q: one more is the next one appended.
LEMMA OneMore ==
  ASSUME NEW B, NEW q \in Seq(B), NEW s \in Seq(B), NEW i \in 1 .. Len(s)
  PROVE  /\ q \o SubSeq(s, 1, i - 1) \in Seq(B) /\ s[i] \in B
         /\ q \o SubSeq(s, 1, i) = Append(q \o SubSeq(s, 1, i - 1), s[i])
<1> DEFINE p == SubSeq(s, 1, i - 1)
<1>0. s[i] \in B /\ 1 \in 1 .. Len(s) /\ i \in 1 .. Len(s)
  OBVIOUS
<1>1. p \in Seq(B)
  <2>1. \A j \in 1 .. i - 1 : s[j] \in B
    OBVIOUS
  <2>2. 1 \in Int /\ i - 1 \in Int
    OBVIOUS
  <2> QED BY <2>1, <2>2, SubSeqProperties
<1>2. SubSeq(s, 1, i) = p \o <<s[i]>>
  BY <1>0, SubSeqRecursiveSecond
<1> HIDE DEF p
<1>3. p \o <<s[i]>> = Append(p, s[i])
  BY <1>0, <1>1, AppendIsConcat
<1>4. q \o p \in Seq(B) /\ q \o Append(p, s[i]) = Append(q \o p, s[i])
  BY <1>0, <1>1, AppendConcat
<1> QED BY <1>0, <1>2, <1>3, <1>4 DEF p

LEMMA NoneAndAll ==
  ASSUME NEW B, NEW q \in Seq(B), NEW s \in Seq(B)
  PROVE  /\ q \o SubSeq(s, 1, 0) = q
         /\ q \o SubSeq(s, 1, Len(s)) = q \o s
<1>1. SubSeq(s, 1, 0) = <<>>
  BY SubSeqEmpty
<1>2. SubSeq(s, 1, Len(s)) = s
  BY SubSeqFull
<1> QED BY <1>1, <1>2, ConcatEmptySeq

\* Nothing of a queue that is not too long is too old.
LEMMA NewestAll ==
  ASSUME NEW s, NEW n, Len(s) <= n
  PROVE  Newest(s, n) = s
BY DEF Newest

-----------------------------------------------------------------------------
(***************************************************************************)
(* The serial port's buffers.                                              *)
(***************************************************************************)
InRing(u)  == IsRing(InBytes(u), Byte, BUFFER_SIZE, u.inbuff, u.inf, u.inl, u.insz)
OutRing(u) == IsRing(OutBytes(u), Byte, BUFFER_SIZE, u.outbuff, u.outf, u.outl, u.outsz)

SameIn(u, v)  == v.inbuff = u.inbuff /\ v.inf = u.inf /\ v.inl = u.inl /\ v.insz = u.insz
SameOut(u, v) == v.outbuff = u.outbuff /\ v.outf = u.outf /\ v.outl = u.outl /\ v.outsz = u.outsz

LEMMA SameBytes ==
  ASSUME NEW u, NEW v
  PROVE  /\ SameIn(u, v) => InBytes(v) = InBytes(u) /\ (InRing(u) => InRing(v))
         /\ SameOut(u, v) => OutBytes(v) = OutBytes(u) /\ (OutRing(u) => OutRing(v))
<1>1. SameIn(u, v) => InBytes(v) = InBytes(u)
  BY DEF SameIn, InBytes
<1>2. SameOut(u, v) => OutBytes(v) = OutBytes(u)
  BY DEF SameOut, OutBytes
<1> QED BY <1>1, <1>2 DEF SameIn, SameOut, InRing, OutRing

LEMMA BytesAre ==
  ASSUME NEW q, NEW u
  PROVE  /\ IsRing(q, Byte, BUFFER_SIZE, u.inbuff, u.inf, u.inl, u.insz)
              => q = InBytes(u) /\ InRing(u)
         /\ IsRing(q, Byte, BUFFER_SIZE, u.outbuff, u.outf, u.outl, u.outsz)
              => q = OutBytes(u) /\ OutRing(u)
<1>1. /\ InBytes(u) = Ring(u.inbuff, BUFFER_SIZE, u.inf, u.insz)
      /\ OutBytes(u) = Ring(u.outbuff, BUFFER_SIZE, u.outf, u.outsz)
  BY DEF InBytes, OutBytes, Ring
<1>2. /\ IsRing(q, Byte, BUFFER_SIZE, u.inbuff, u.inf, u.inl, u.insz)
           => q = Ring(u.inbuff, BUFFER_SIZE, u.inf, u.insz)
      /\ IsRing(q, Byte, BUFFER_SIZE, u.outbuff, u.outf, u.outl, u.outsz)
           => q = Ring(u.outbuff, BUFFER_SIZE, u.outf, u.outsz)
  BY DEF IsRing
<1> QED BY <1>1, <1>2 DEF InRing, OutRing

LEMMA BytesType ==
  ASSUME NEW u
  PROVE  /\ InRing(u) => InBytes(u) \in Seq(Byte) /\ Len(InBytes(u)) = u.insz
         /\ OutRing(u) => OutBytes(u) \in Seq(Byte) /\ Len(OutBytes(u)) = u.outsz
BY UartAssumption, RingFacts DEF InRing, OutRing

LEMMA Incremented ==
  ASSUME NEW x \in BufferIndex
  PROVE  INC_MOD(x) = (x + 1) % BUFFER_SIZE
<1>1. /\ BUFFER_SIZE \in Nat \ {0} /\ x + 1 \in Nat /\ x + 1 < BUFFER_SIZE + BUFFER_SIZE
      /\ (x + 1 < BUFFER_SIZE \/ x + 1 = BUFFER_SIZE)
  BY UartAssumption DEF BufferIndex
<1>2. (x + 1) % BUFFER_SIZE = Wrap(x + 1, BUFFER_SIZE)
  BY <1>1, ModOnce, Zenon
<1> QED BY <1>1, <1>2 DEF Wrap, INC_MOD

\* A byte is put into the input buffer.
LEMMA PutInRing ==
  ASSUME NEW u \in UartState, InRing(u), NEW b \in Byte
  PROVE  /\ InRing(PutIn(u, b)) /\ SameOut(u, PutIn(u, b))
         /\ InBytes(PutIn(u, b)) = Newest(Append(InBytes(u), b), BUFFER_SIZE)
<1> DEFINE v == PutIn(u, b)
<1>1. /\ v.inbuff = [u.inbuff EXCEPT ![u.inl] = b] /\ v.inl = INC_MOD(u.inl)
      /\ v.insz = (IF u.insz = BUFFER_SIZE THEN u.insz ELSE u.insz + 1)
      /\ v.inf = (IF u.insz = BUFFER_SIZE THEN INC_MOD(u.inf) ELSE u.inf)
      /\ SameOut(u, v)
  BY DEF PutIn, UartState, SameOut
<1> HIDE DEF v
<1>2. INC_MOD(u.inl) = (u.inl + 1) % BUFFER_SIZE /\ INC_MOD(u.inf) = (u.inf + 1) % BUFFER_SIZE
  BY Incremented DEF UartState
<1>3. BUFFER_SIZE \in Nat \ {0} /\ u.insz \in 0 .. BUFFER_SIZE
  BY UartAssumption DEF UartState
<1>4. u.insz = BUFFER_SIZE <=> ~(u.insz < BUFFER_SIZE)
  BY <1>3
<1>5. /\ v.inbuff = PutAt(u.inbuff, u.inl, b)
      /\ v.inf = FirstThen(u.inf, u.insz, BUFFER_SIZE)
      /\ v.inl = LastThen(u.inl, BUFFER_SIZE)
      /\ v.insz = SizeThen(u.insz, BUFFER_SIZE)
  BY <1>1, <1>2, <1>4 DEF PutAt, FirstThen, LastThen, SizeThen
<1>6. IsRing(Newest(Append(InBytes(u), b), BUFFER_SIZE), Byte, BUFFER_SIZE,
             v.inbuff, v.inf, v.inl, v.insz)
  <2>1. IsRing(Newest(Append(InBytes(u), b), BUFFER_SIZE), Byte, BUFFER_SIZE,
               PutAt(u.inbuff, u.inl, b), FirstThen(u.inf, u.insz, BUFFER_SIZE),
               LastThen(u.inl, BUFFER_SIZE), SizeThen(u.insz, BUFFER_SIZE))
    BY <1>3, RingPut DEF InRing
  <2> QED BY <1>5, <2>1
<1> QED BY <1>1, <1>6, BytesAre DEF v

\* A byte is put into the output buffer, which has room.
LEMMA PutOutRing ==
  ASSUME NEW u \in UartState, OutRing(u), NEW b \in Byte, u.outsz < BUFFER_SIZE
  PROVE  /\ OutRing(PutOut(u, b)) /\ SameIn(u, PutOut(u, b))
         /\ OutBytes(PutOut(u, b)) = Append(OutBytes(u), b)
<1> DEFINE v == PutOut(u, b)
<1>1. /\ v.outbuff = [u.outbuff EXCEPT ![u.outl] = b] /\ v.outl = INC_MOD(u.outl)
      /\ v.outsz = u.outsz + 1 /\ v.outf = u.outf /\ SameIn(u, v)
  BY DEF PutOut, UartState, SameIn
<1> HIDE DEF v
<1>2. INC_MOD(u.outl) = (u.outl + 1) % BUFFER_SIZE
  BY Incremented DEF UartState
<1>3. BUFFER_SIZE \in Nat \ {0} /\ u.outsz \in 0 .. BUFFER_SIZE
  BY UartAssumption DEF UartState
<1>4. /\ v.outbuff = PutAt(u.outbuff, u.outl, b)
      /\ v.outf = FirstThen(u.outf, u.outsz, BUFFER_SIZE)
      /\ v.outl = LastThen(u.outl, BUFFER_SIZE)
      /\ v.outsz = SizeThen(u.outsz, BUFFER_SIZE)
  BY <1>1, <1>2, <1>3 DEF PutAt, FirstThen, LastThen, SizeThen
<1>5. IsRing(Newest(Append(OutBytes(u), b), BUFFER_SIZE), Byte, BUFFER_SIZE,
             v.outbuff, v.outf, v.outl, v.outsz)
  <2>1. IsRing(Newest(Append(OutBytes(u), b), BUFFER_SIZE), Byte, BUFFER_SIZE,
               PutAt(u.outbuff, u.outl, b), FirstThen(u.outf, u.outsz, BUFFER_SIZE),
               LastThen(u.outl, BUFFER_SIZE), SizeThen(u.outsz, BUFFER_SIZE))
    BY <1>3, RingPut DEF OutRing
  <2> QED BY <1>4, <2>1
<1>6. Newest(Append(OutBytes(u), b), BUFFER_SIZE) = Append(OutBytes(u), b)
  <2>1. OutBytes(u) \in Seq(Byte) /\ Len(OutBytes(u)) = u.outsz
    BY BytesType
  <2>2. Len(Append(OutBytes(u), b)) <= BUFFER_SIZE
    BY <1>3, <2>1, AppendProperties
  <2> QED BY <2>2, NewestAll
<1> QED BY <1>1, <1>5, <1>6, BytesAre DEF v

\* The loop of uart_read.
LEMMA PutInLoop ==
  ASSUME NEW u \in UartState, InRing(u), NEW seq \in Seq(Byte),
         NEW v, v = FoldLeft(PutIn, u, seq)
  PROVE  /\ v \in UartState /\ InRing(v) /\ SameOut(u, v)
         /\ InBytes(v) = Newest(InBytes(u) \o seq, BUFFER_SIZE)
<1>0. PICK n \in Nat : n = Len(seq)
  OBVIOUS
<1>1. PICK h \in [0 .. Len(seq) -> UartState] :
        /\ h[0] = u /\ FoldLeft(PutIn, u, seq) = h[Len(seq)]
        /\ \A i \in 1 .. Len(seq) : h[i] = PutIn(h[i - 1], seq[i])
  BY PutInSteps
<1> DEFINE q == InBytes(u)
           P(i) == /\ InRing(h[i]) /\ SameOut(u, h[i])
                   /\ InBytes(h[i]) = Newest(q \o SubSeq(seq, 1, i), BUFFER_SIZE)
           T == {i \in Nat : P(i)}
<1>2. q \in Seq(Byte) /\ Len(q) <= BUFFER_SIZE /\ BUFFER_SIZE \in Nat \ {0}
  <2>1. q \in Seq(Byte) /\ Len(q) = u.insz
    BY BytesType
  <2> QED BY <2>1, UartAssumption DEF UartState
<1>3. P(0)
  <2>1. q \o SubSeq(seq, 1, 0) = q
    BY <1>2, NoneAndAll
  <2>2. Newest(q, BUFFER_SIZE) = q
    BY <1>2, NewestAll
  <2>3. SameOut(u, u)
    BY DEF SameOut
  <2> QED BY <1>1, <2>1, <2>2, <2>3
<1>4. ASSUME NEW i \in 1 .. n, P(i - 1) PROVE P(i)
  <2> DEFINE x == h[i - 1]
             p == q \o SubSeq(seq, 1, i - 1)
  <2>1. i \in 1 .. Len(seq) /\ i - 1 \in 0 .. Len(seq)
    BY <1>0
  <2>2. x \in UartState /\ seq[i] \in Byte /\ h[i] = PutIn(x, seq[i])
    BY <1>1, <2>1
  <2>3. p \in Seq(Byte) /\ q \o SubSeq(seq, 1, i) = Append(p, seq[i])
    BY <1>2, <2>1, OneMore
  <2>4. InRing(x) /\ SameOut(u, x) /\ InBytes(x) = Newest(p, BUFFER_SIZE)
    BY <1>4
  <2> HIDE DEF x, p, q
  <2>5. /\ InRing(h[i]) /\ SameOut(x, h[i])
        /\ InBytes(h[i]) = Newest(Append(Newest(p, BUFFER_SIZE), seq[i]), BUFFER_SIZE)
    BY <2>2, <2>4, PutInRing
  <2>6. Newest(Append(Newest(p, BUFFER_SIZE), seq[i]), BUFFER_SIZE)
          = Newest(Append(p, seq[i]), BUFFER_SIZE)
    BY <1>2, <2>2, <2>3, NewestAppend
  <2>7. SameOut(u, h[i])
    BY <2>4, <2>5 DEF SameOut
  <2> QED BY <2>3, <2>5, <2>6, <2>7
<1>5. P(n)
  <2> HIDE DEF P
  <2>1. 0 \in T /\ \A i \in 1 .. n : i - 1 \in T => i \in T
    BY <1>3, <1>4
  <2> HIDE DEF T
  <2>2. \A i \in 0 .. n : i \in T
    BY <2>1, Upto
  <2>3. n \in T
    BY <2>2
  <2> QED BY <2>3 DEF T
<1>6. v = h[n] /\ h[n] \in UartState
  BY <1>0, <1>1
<1>7. q \o SubSeq(seq, 1, n) = q \o seq
  BY <1>0, <1>2, NoneAndAll
<1> QED BY <1>5, <1>6, <1>7

\* The loop of uart_send.
LEMMA PutOutLoop ==
  ASSUME NEW u \in UartState, OutRing(u), NEW seq \in Seq(Byte),
         u.outsz + Len(seq) <= BUFFER_SIZE,
         NEW v, v = FoldLeft(PutOut, u, seq)
  PROVE  /\ v \in UartState /\ OutRing(v) /\ SameIn(u, v)
         /\ OutBytes(v) = OutBytes(u) \o seq
<1>0. PICK n \in Nat : n = Len(seq)
  OBVIOUS
<1>b. BUFFER_SIZE \in Nat \ {0} /\ u.outsz \in 0 .. BUFFER_SIZE
  BY UartAssumption DEF UartState
<1>s. UartState \subseteq SendingState
  BY <1>b DEF UartState, SendingState
<1>1. PICK h \in [0 .. Len(seq) -> SendingState] :
        /\ h[0] = u /\ FoldLeft(PutOut, u, seq) = h[Len(seq)]
        /\ \A i \in 1 .. Len(seq) : h[i] = PutOut(h[i - 1], seq[i])
  BY <1>s, PutOutSteps
<1> DEFINE q == OutBytes(u)
           P(i) == /\ h[i] \in UartState /\ h[i].outsz = u.outsz + i
                   /\ OutRing(h[i]) /\ SameIn(u, h[i])
                   /\ OutBytes(h[i]) = q \o SubSeq(seq, 1, i)
           T == {i \in Nat : P(i)}
<1>2. q \in Seq(Byte)
  BY BytesType
<1>3. P(0)
  <2>1. q \o SubSeq(seq, 1, 0) = q
    BY <1>2, NoneAndAll
  <2>2. SameIn(u, u) /\ u.outsz = u.outsz + 0
    BY <1>b DEF SameIn
  <2> QED BY <1>1, <2>1, <2>2
<1>4. ASSUME NEW i \in 1 .. n, P(i - 1) PROVE P(i)
  <2> DEFINE x == h[i - 1]
             p == q \o SubSeq(seq, 1, i - 1)
  <2>1. i \in 1 .. Len(seq) /\ i - 1 \in 0 .. Len(seq)
    BY <1>0
  <2>2. seq[i] \in Byte /\ h[i] = PutOut(x, seq[i])
    BY <1>1, <2>1
  <2>3. p \in Seq(Byte) /\ q \o SubSeq(seq, 1, i) = Append(p, seq[i])
    BY <1>2, <2>1, OneMore
  <2>4. /\ x \in UartState /\ x.outsz = u.outsz + (i - 1)
        /\ OutRing(x) /\ SameIn(u, x) /\ OutBytes(x) = p
    BY <1>4
  <2>5. x.outsz < BUFFER_SIZE /\ u.outsz + i \in 0 .. BUFFER_SIZE /\ x.outsz + 1 = u.outsz + i
    BY <1>0, <1>b, <2>4
  <2> HIDE DEF x, p, q
  <2>6. /\ OutRing(h[i]) /\ SameIn(x, h[i]) /\ OutBytes(h[i]) = Append(p, seq[i])
    BY <2>2, <2>4, <2>5, PutOutRing
  <2>7. h[i] \in SendingState /\ h[i].outsz = u.outsz + i
    BY <1>s, <2>2, <2>4, <2>5, PutOutType
  <2>8. h[i] \in UartState
    BY <2>5, <2>7 DEF UartState, SendingState
  <2>9. SameIn(u, h[i])
    BY <2>4, <2>6 DEF SameIn
  <2> QED BY <2>3, <2>6, <2>7, <2>8, <2>9
<1>5. P(n)
  <2> HIDE DEF P
  <2>1. 0 \in T /\ \A i \in 1 .. n : i - 1 \in T => i \in T
    BY <1>3, <1>4
  <2> HIDE DEF T
  <2>2. \A i \in 0 .. n : i \in T
    BY <2>1, Upto
  <2>3. n \in T
    BY <2>2
  <2> QED BY <2>3 DEF T
<1>6. v = h[n]
  BY <1>0, <1>1
<1>7. q \o SubSeq(seq, 1, n) = q \o seq
  BY <1>0, <1>2, NoneAndAll
<1> QED BY <1>5, <1>6, <1>7

\* The oldest bytes are taken from the input buffer, and from the output buffer.
LEMMA TakeBytes ==
  ASSUME NEW u \in UartState, NEW v, NEW m \in Nat
  PROVE  /\ InRing(u) /\ m <= u.insz /\ SameOut(u, v)
            /\ v.inbuff = u.inbuff /\ v.inl = u.inl
            /\ v.inf = (u.inf + m) % BUFFER_SIZE /\ v.insz = u.insz - m
              => InRing(v) /\ InBytes(v) = SubSeq(InBytes(u), m + 1, Len(InBytes(u)))
         /\ OutRing(u) /\ m <= u.outsz /\ SameIn(u, v)
            /\ v.outbuff = u.outbuff /\ v.outl = u.outl
            /\ v.outf = (u.outf + m) % BUFFER_SIZE /\ v.outsz = u.outsz - m
              => OutRing(v) /\ OutBytes(v) = SubSeq(OutBytes(u), m + 1, Len(OutBytes(u)))
<1>0. BUFFER_SIZE \in Nat \ {0}
  BY UartAssumption
<1>1. ASSUME InRing(u), m <= u.insz, v.inbuff = u.inbuff, v.inl = u.inl,
             v.inf = (u.inf + m) % BUFFER_SIZE, v.insz = u.insz - m
      PROVE  IsRing(SubSeq(InBytes(u), m + 1, Len(InBytes(u))), Byte, BUFFER_SIZE,
                    v.inbuff, v.inf, v.inl, v.insz)
  <2>1. m \in 0 .. u.insz
    BY <1>1 DEF UartState
  <2> DEFINE f == (u.inf + m) % BUFFER_SIZE
             s == u.insz - m
  <2>2. f = (u.inf + m) % BUFFER_SIZE /\ s = u.insz - m
    OBVIOUS
  <2> HIDE DEF f, s
  <2>3. IsRing(SubSeq(InBytes(u), m + 1, Len(InBytes(u))), Byte, BUFFER_SIZE,
               u.inbuff, f, u.inl, s)
    BY <1>0, <1>1, <2>1, <2>2, RingTake DEF InRing
  <2> QED BY <1>1, <2>2, <2>3
<1>2. ASSUME OutRing(u), m <= u.outsz, v.outbuff = u.outbuff, v.outl = u.outl,
             v.outf = (u.outf + m) % BUFFER_SIZE, v.outsz = u.outsz - m
      PROVE  IsRing(SubSeq(OutBytes(u), m + 1, Len(OutBytes(u))), Byte, BUFFER_SIZE,
                    v.outbuff, v.outf, v.outl, v.outsz)
  <2>1. m \in 0 .. u.outsz
    BY <1>2 DEF UartState
  <2> DEFINE f == (u.outf + m) % BUFFER_SIZE
             s == u.outsz - m
  <2>2. f = (u.outf + m) % BUFFER_SIZE /\ s = u.outsz - m
    OBVIOUS
  <2> HIDE DEF f, s
  <2>3. IsRing(SubSeq(OutBytes(u), m + 1, Len(OutBytes(u))), Byte, BUFFER_SIZE,
               u.outbuff, f, u.outl, s)
    BY <1>0, <1>2, <2>1, <2>2, RingTake DEF OutRing
  <2> QED BY <1>2, <2>2, <2>3
<1>3. ASSUME IsRing(SubSeq(InBytes(u), m + 1, Len(InBytes(u))), Byte, BUFFER_SIZE,
                    v.inbuff, v.inf, v.inl, v.insz)
      PROVE  InRing(v) /\ InBytes(v) = SubSeq(InBytes(u), m + 1, Len(InBytes(u)))
  BY <1>3, BytesAre
<1>4. ASSUME IsRing(SubSeq(OutBytes(u), m + 1, Len(OutBytes(u))), Byte, BUFFER_SIZE,
                    v.outbuff, v.outf, v.outl, v.outsz)
      PROVE  OutRing(v) /\ OutBytes(v) = SubSeq(OutBytes(u), m + 1, Len(OutBytes(u)))
  BY <1>4, BytesAre
<1> QED BY <1>1, <1>2, <1>3, <1>4

-----------------------------------------------------------------------------
(***************************************************************************)
(* The serial port's calls, step by step the queues of RingBuffer.         *)
(***************************************************************************)
SerialOK == InRing(up) /\ OutRing(up)

SerialSteps ==
  /\ [InputBuffer!Next]_(InputBuffer!vars)
  /\ [OutputBuffer!Next]_(OutputBuffer!vars)

\* The first n items of s.
LEMMA FirstOnes ==
  ASSUME NEW B, NEW s \in Seq(B), NEW n \in 0 .. Len(s)
  PROVE  /\ SubSeq(s, 1, n) \in Seq(B) /\ Len(SubSeq(s, 1, n)) = n
         /\ \A i \in 1 .. n : SubSeq(s, 1, n)[i] = s[i]
<1> DEFINE t == SubSeq(s, 1, n)
<1>1. 1 \in Int /\ n \in Int /\ (\A i \in 1 .. n : s[i] \in B) /\ n - 1 + 1 = n
      /\ (~(1 <= n) => n = 0) /\ \A i \in Int : 1 + i - 1 = i
  OBVIOUS
<1>2. /\ t \in Seq(B) /\ Len(t) = (IF 1 <= n THEN n - 1 + 1 ELSE 0)
      /\ \A i \in 1 .. n - 1 + 1 : t[i] = s[1 + i - 1]
  BY <1>1, SubSeqProperties
<1> HIDE DEF t
<1>3. t \in Seq(B) /\ Len(t) = n /\ \A i \in 1 .. n : t[i] = s[i]
  BY <1>1, <1>2
<1> QED BY <1>3 DEF t

LEMMA InputTaken ==
  ASSUME NEW all \in Seq(Byte), NEW n \in 0 .. Len(all),
         InBytes(up') = SubSeq(all, n + 1, Len(all)), got' = SubSeq(all, 1, n)
  PROVE  InputBuffer!Take(all)
BY DEF InputBuffer!Take, InputBuffer!From

LEMMA OutputTaken ==
  ASSUME NEW all \in Seq(Byte), NEW n \in 0 .. Len(all),
         OutBytes(up') = SubSeq(all, n + 1, Len(all)), sent' = SubSeq(all, 1, n)
  PROVE  OutputBuffer!Take(all)
BY DEF OutputBuffer!Take, OutputBuffer!From

\* A step in which no buffer changes and nothing is read.
LEMMA InputStays ==
  ASSUME chip.rx \in Seq(Byte), SameIn(up, up'), got' = <<>>,
         chip'.rx = chip.rx \/ \E b \in Byte : chip'.rx = Append(chip.rx, b)
  PROVE  InputBuffer!Next
<1>1. InBytes(up') = InBytes(up)
  BY SameBytes
<1>2. Len(chip'.rx) >= Len(chip.rx) /\ SubSeq(chip'.rx, 1, Len(chip.rx)) = chip.rx
  <2>1. CASE chip'.rx = chip.rx
    <3>1. SubSeq(chip.rx, 1, Len(chip.rx)) = chip.rx
      BY SubSeqFull
    <3> QED BY <2>1, <3>1
  <2>2. ASSUME NEW b \in Byte, chip'.rx = Append(chip.rx, b)
        PROVE  Len(chip'.rx) >= Len(chip.rx) /\ SubSeq(chip'.rx, 1, Len(chip.rx)) = chip.rx
    <3> DEFINE s == chip.rx
               t == Append(s, b)
    <3>1. /\ t \in Seq(Byte) /\ Len(t) = Len(s) + 1 /\ Len(s) \in 0 .. Len(t)
          /\ \A i \in 1 .. Len(s) : t[i] = s[i]
      BY AppendProperties
    <3> HIDE DEF t
    <3>2. /\ SubSeq(t, 1, Len(s)) \in Seq(Byte) /\ Len(SubSeq(t, 1, Len(s))) = Len(s)
          /\ \A i \in 1 .. Len(s) : SubSeq(t, 1, Len(s))[i] = t[i]
      BY <3>1, FirstOnes
    <3> DEFINE w == SubSeq(t, 1, Len(s))
    <3>3. /\ w \in Seq(Byte) /\ s \in Seq(Byte) /\ Len(w) = Len(s)
          /\ \A i \in 1 .. Len(w) : w[i] = s[i]
      BY <3>1, <3>2
    <3> HIDE DEF w, s
    <3>4. w = s
      BY <3>3, SeqEqual
    <3>5. Len(t) >= Len(s)
      BY <3>1, <3>3
    <3> QED BY <2>2, <3>4, <3>5 DEF w, t, s
  <2> QED BY <2>1, <2>2
<1> QED BY <1>1, <1>2 DEF InputBuffer!Next, InputBuffer!Arrive

LEMMA OutputStays ==
  ASSUME SameOut(up, up'), sent' = <<>>
  PROVE  OutputBuffer!Next
<1>1. OutBytes(up') = OutBytes(up)
  BY SameBytes
<1>2. Len(<<>>) >= Len(<<>>) /\ SubSeq(<<>>, 1, Len(<<>>)) = <<>>
  OBVIOUS
<1> QED BY <1>1, <1>2 DEF OutputBuffer!Next, OutputBuffer!Arrive

\* uart_recv takes the oldest bytes.
LEMMA RecvTakes ==
  ASSUME NEW u \in UartState, InRing(u), NEW size \in Nat
  PROVE  \E n \in 0 .. Len(InBytes(u)) :
           LET r == uart_recv(u, size)
           IN  /\ InRing(r.u) /\ SameOut(u, r.u)
               /\ InBytes(r.u) = SubSeq(InBytes(u), n + 1, Len(InBytes(u)))
               /\ r.data = SubSeq(InBytes(u), 1, n)
<1> DEFINE n == IF size < u.insz THEN size ELSE u.insz
           v == uart_recv(u, size).u
<1>1. Len(InBytes(u)) = u.insz /\ u.insz \in Nat
  BY BytesType, UartAssumption DEF UartState
<1>2. n \in Nat /\ n <= u.insz
  BY <1>1
<1>3. /\ v.inbuff = u.inbuff /\ v.inl = u.inl
      /\ v.inf = (u.inf + n) % BUFFER_SIZE /\ v.insz = u.insz - n /\ SameOut(u, v)
  BY DEF uart_recv, UartState, SameOut
<1>4. uart_recv(u, size).data = SubSeq(InBytes(u), 1, n)
  BY DEF uart_recv
<1> HIDE DEF n, v
<1>5. InRing(v) /\ InBytes(v) = SubSeq(InBytes(u), n + 1, Len(InBytes(u)))
  BY <1>2, <1>3, TakeBytes
<1>6. n \in 0 .. Len(InBytes(u))
  BY <1>1, <1>2
<1> QED BY <1>3, <1>4, <1>5, <1>6 DEF v

LEMMA WriteTakes ==
  ASSUME NEW u \in UartState, OutRing(u), NEW c \in ChipState, NEW n \in 0 .. u.outsz
  PROVE  LET r == uart_write(u, c, n)
         IN  /\ OutRing(r.u) /\ SameIn(u, r.u)
             /\ n \in 0 .. Len(OutBytes(u))
             /\ OutBytes(r.u) = SubSeq(OutBytes(u), n + 1, Len(OutBytes(u)))
             /\ r.out = SubSeq(OutBytes(u), 1, n) /\ r.chip.rx = c.rx
<1> DEFINE v == uart_write(u, c, n).u
<1>1. Len(OutBytes(u)) = u.outsz /\ u.outsz \in Nat
  BY BytesType, UartAssumption DEF UartState
<1>2. n \in Nat /\ n <= u.outsz
  BY <1>1
<1>3. /\ v.outbuff = u.outbuff /\ v.outl = u.outl
      /\ v.outf = (u.outf + n) % BUFFER_SIZE /\ v.outsz = u.outsz - n /\ SameIn(u, v)
  BY DEF uart_write, UartState, SameIn
<1>4. uart_write(u, c, n).out = SubSeq(OutBytes(u), 1, n)
  BY DEF uart_write
<1>7. uart_write(u, c, n).chip = [c EXCEPT !.busy = c.busy \/ n > 0]
  BY DEF uart_write
<1> HIDE DEF v
<1>5. OutRing(v) /\ OutBytes(v) = SubSeq(OutBytes(u), n + 1, Len(OutBytes(u)))
  BY <1>2, <1>3, TakeBytes
<1>6. n \in 0 .. Len(OutBytes(u))
  BY <1>1, <1>2
<1>8. [c EXCEPT !.busy = c.busy \/ n > 0].rx = c.rx
  OBVIOUS
<1> QED BY <1>3, <1>4, <1>5, <1>6, <1>7, <1>8 DEF v

LEMMA Joined ==
  ASSUME NEW B, NEW q \in Seq(B), NEW s \in Seq(B), NEW m, m = Len(q)
  PROVE  /\ q \o s \in Seq(B) /\ Len(q \o s) = m + Len(s)
         /\ \A i \in 1 .. Len(q \o s) : (q \o s)[i] = IF i <= m THEN q[i] ELSE s[i - m]
BY ConcatProperties

\* The first items of q \o s, when all of q is among them.
LEMMA FirstJoined ==
  ASSUME NEW B, NEW q \in Seq(B), NEW s \in Seq(B), NEW m \in 0 .. Len(s), NEW n,
         n = Len(q) + m
  PROVE  SubSeq(q \o s, 1, n) = q \o SubSeq(s, 1, m)
<1>0. PICK a \in Nat, b \in Nat : a = Len(q) /\ b = Len(s)
  OBVIOUS
<1> DEFINE all == q \o s
           p == SubSeq(s, 1, m)
           l == SubSeq(all, 1, n)
           r == q \o p
<1>1. /\ all \in Seq(B) /\ Len(all) = a + b
      /\ \A i \in 1 .. Len(all) : all[i] = IF i <= a THEN q[i] ELSE s[i - a]
  <2>1. Len(all) = a + Len(s)
    BY <1>0, Joined
  <2>2. all \in Seq(B) /\ \A i \in 1 .. Len(all) : all[i] = IF i <= a THEN q[i] ELSE s[i - a]
    BY <1>0, Joined
  <2> QED BY <1>0, <2>1, <2>2
<1>2. p \in Seq(B) /\ Len(p) = m /\ \A i \in 1 .. m : p[i] = s[i]
  BY FirstOnes
<1> HIDE DEF all, p
<1>3. /\ r \in Seq(B) /\ Len(r) = a + m
      /\ \A i \in 1 .. Len(r) : r[i] = IF i <= a THEN q[i] ELSE p[i - a]
  <2>1. Len(r) = a + Len(p)
    BY <1>0, <1>2, Joined
  <2>2. r \in Seq(B) /\ \A i \in 1 .. Len(r) : r[i] = IF i <= a THEN q[i] ELSE p[i - a]
    BY <1>0, <1>2, Joined
  <2> QED BY <1>0, <1>2, <2>1, <2>2
<1>4. n = a + m /\ n \in 0 .. Len(all) /\ m \in Nat /\ m <= b
  BY <1>0, <1>1
<1>5. l \in Seq(B) /\ Len(l) = n /\ \A i \in 1 .. n : l[i] = all[i]
  BY <1>1, <1>4, FirstOnes
<1> HIDE DEF l, r
<1>6. ASSUME NEW i \in 1 .. n PROVE l[i] = r[i]
  <2>1. i \in 1 .. Len(all) /\ i \in 1 .. Len(r) /\ l[i] = all[i]
    BY <1>3, <1>4, <1>5
  <2>2. CASE i <= a
    BY <1>1, <1>3, <2>1, <2>2
  <2>3. CASE ~(i <= a)
    <3>1. i - a \in 1 .. m
      BY <1>4, <2>3
    <3> QED BY <1>1, <1>2, <1>3, <2>1, <2>3, <3>1
  <2> QED BY <2>2, <2>3
<1>7. l = r
  BY <1>3, <1>4, <1>5, <1>6, SeqEqual
<1> QED BY <1>7 DEF l, r, all, p

\* What an output buffer keeps.
LEMMA KeptFirst ==
  ASSUME NEW q \in Seq(Byte), NEW s \in Seq(Byte), NEW m \in 0 .. Len(s),
         Len(q) + m <= BUFFER_SIZE, m = Len(s) \/ Len(q) + m = BUFFER_SIZE
  PROVE  OutputBuffer!Kept(q \o s) = q \o SubSeq(s, 1, m)
<1>1. Len(q \o s) = Len(q) + Len(s)
  BY ConcatProperties
<1>2. CASE m = Len(s)
  <2>1. SubSeq(s, 1, m) = s
    BY <1>2, SubSeqFull
  <2> QED BY <1>1, <1>2, <2>1 DEF OutputBuffer!Kept
<1>3. CASE m < Len(s) /\ Len(q) + m = BUFFER_SIZE
  <2>1. SubSeq(q \o s, 1, BUFFER_SIZE) = q \o SubSeq(s, 1, m)
    BY <1>3, FirstJoined
  <2>2. ~(Len(q \o s) <= BUFFER_SIZE)
    BY <1>1, <1>3
  <2> QED BY <2>1, <2>2 DEF OutputBuffer!Kept
<1> QED BY <1>2, <1>3

\* uart_send puts in what there is room for.
LEMMA SendPuts ==
  ASSUME NEW u \in UartState, OutRing(u), NEW data \in Seq(Byte), NEW flags
  PROVE  LET v == uart_send(u, data, flags)
         IN  /\ v \in UartState /\ OutRing(v) /\ SameIn(u, v)
             /\ OutBytes(v) = OutputBuffer!Kept(OutBytes(u) \o Payload(data, flags))
<1> DEFINE v == uart_send(u, data, flags)
<1>0. BUFFER_SIZE \in Nat /\ u.outsz \in 0 .. BUFFER_SIZE
  BY UartAssumption DEF UartState
<1>1. PICK bytes \in Seq(Byte) : bytes = Payload(data, flags)
  BY PayloadType
<1>2. PICK q \in Seq(Byte) : q = OutBytes(u) /\ Len(q) = u.outsz
  BY BytesType
<1>3. PICK m \in 0 .. Len(bytes) :
        /\ m = Room(u, bytes) /\ Len(q) + m <= BUFFER_SIZE
        /\ m = Len(bytes) \/ Len(q) + m = BUFFER_SIZE
  <2> DEFINE m == Room(u, bytes)
  <2>1. CASE Len(bytes) <= BUFFER_SIZE - u.outsz
    <3>1. m = Len(bytes)
      BY <2>1 DEF Room
    <3> QED BY <1>0, <1>2, <2>1, <3>1
  <2>2. CASE ~(Len(bytes) <= BUFFER_SIZE - u.outsz)
    <3>1. m = BUFFER_SIZE - u.outsz
      BY <2>2 DEF Room
    <3> HIDE DEF m
    <3>2. m \in 0 .. Len(bytes) /\ Len(q) + m = BUFFER_SIZE
      BY <1>0, <1>2, <2>2, <3>1
    <3> QED BY <1>0, <3>2 DEF m
  <2> QED BY <2>1, <2>2
<1>4. PICK seq \in Seq(Byte) : seq = SubSeq(bytes, 1, m) /\ Len(seq) = m
  BY FirstOnes
<1>5. v = FoldLeft(PutOut, u, seq)
  BY <1>1, <1>3, <1>4 DEF uart_send
<1> HIDE DEF v
<1>6. v \in UartState /\ OutRing(v) /\ SameIn(u, v) /\ OutBytes(v) = q \o seq
  <2>1. u.outsz + Len(seq) <= BUFFER_SIZE
    BY <1>2, <1>3, <1>4
  <2> QED BY <1>2, <1>5, <2>1, PutOutLoop
<1>7. OutputBuffer!Kept(q \o bytes) = q \o SubSeq(bytes, 1, m)
  BY <1>3, KeptFirst
<1> QED BY <1>1, <1>2, <1>4, <1>6, <1>7 DEF v

\* uart_config empties both buffers.
LEMMA ConfigEmpties ==
  ASSUME NEW u \in UartState, NEW c \in ChipState, NEW mode \in {"UART_BYTE", "UART_STREAM"}
  PROVE  LET r == uart_config(u, c, mode)
         IN  /\ InRing(r.u) /\ OutRing(r.u)
             /\ InBytes(r.u) = <<>> /\ OutBytes(r.u) = <<>> /\ r.chip.rx = <<>>
<1> DEFINE v == uart_config(u, c, mode).u
<1>1. /\ v.inbuff = u.inbuff /\ v.inf = 0 /\ v.inl = 0 /\ v.insz = 0
      /\ v.outbuff = u.outbuff /\ v.outf = 0 /\ v.outl = 0 /\ v.outsz = 0
  BY DEF uart_config, UartState
<1>2. uart_config(u, c, mode).chip = [c EXCEPT !.rx = <<>>, !.ier = TRUE, !.empty = TRUE]
  BY DEF uart_config
<1> HIDE DEF v
<1>3. BUFFER_SIZE \in Nat \ {0} /\ BufferIndex = 0 .. BUFFER_SIZE - 1
      /\ u.inbuff \in [BufferIndex -> Byte] /\ u.outbuff \in [BufferIndex -> Byte]
  BY UartAssumption DEF UartState, BufferIndex
<1>4. /\ IsRing(<<>>, Byte, BUFFER_SIZE, u.inbuff, 0, 0, 0)
      /\ IsRing(<<>>, Byte, BUFFER_SIZE, u.outbuff, 0, 0, 0)
  BY <1>3, RingEmpty
<1>5. InRing(v) /\ OutRing(v) /\ InBytes(v) = <<>> /\ OutBytes(v) = <<>>
  <2>1. /\ IsRing(<<>>, Byte, BUFFER_SIZE, v.inbuff, v.inf, v.inl, v.insz)
        /\ IsRing(<<>>, Byte, BUFFER_SIZE, v.outbuff, v.outf, v.outl, v.outsz)
    BY <1>1, <1>4
  <2> QED BY <2>1, BytesAre
<1>6. [c EXCEPT !.rx = <<>>, !.ier = TRUE, !.empty = TRUE].rx = <<>>
  <2> QED BY <1>2
<1> QED BY <1>2, <1>5, <1>6 DEF v

LEMMA UartRecvStep ==
  ASSUME DevInv, SerialOK, UartRecv
  PROVE  SerialOK' /\ InputBuffer!Next /\ OutputBuffer!Next
<1>0. up \in UartState /\ chip \in ChipState
  BY DevFacts DEF DevFrame
<1>1. PICK rx \in Seq(Byte) : rx = chip.rx
  BY <1>0, ReceivedType
<1>2. PICK size \in RecvSizes :
        /\ up' = uart_recv(uart_read(up, chip).u, size).u /\ chip' = uart_read(up, chip).chip
        /\ got' = uart_recv(uart_read(up, chip).u, size).data
  BY DEF UartRecv
<1>3. size \in Nat /\ sent' = <<>>
  BY DevicesAssumption DEF UartRecv
<1> DEFINE w == uart_read(up, chip).u
<1>4. w = FoldLeft(PutIn, up, rx) /\ chip' = [chip EXCEPT !.rx = <<>>]
  BY <1>1, <1>2 DEF uart_read
<1>5. up' = uart_recv(w, size).u /\ got' = uart_recv(w, size).data
  BY <1>2
<1> HIDE DEF w
<1>6. /\ w \in UartState /\ InRing(w) /\ SameOut(up, w)
      /\ InBytes(w) = Newest(InBytes(up) \o rx, BUFFER_SIZE)
  BY <1>0, <1>4, PutInLoop DEF SerialOK
<1>7. PICK n \in 0 .. Len(InBytes(w)) :
        LET r == uart_recv(w, size)
        IN  /\ InRing(r.u) /\ SameOut(w, r.u)
            /\ InBytes(r.u) = SubSeq(InBytes(w), n + 1, Len(InBytes(w)))
            /\ r.data = SubSeq(InBytes(w), 1, n)
  BY <1>3, <1>6, RecvTakes
<1>8. /\ InRing(up') /\ SameOut(w, up')
      /\ InBytes(up') = SubSeq(InBytes(w), n + 1, Len(InBytes(w)))
      /\ got' = SubSeq(InBytes(w), 1, n)
  BY <1>5, <1>7
<1>9. SameOut(up, up')
  BY <1>6, <1>8 DEF SameOut
<1>10. SerialOK'
  BY <1>8, <1>9, SameBytes DEF SerialOK
<1>11. OutputBuffer!Next
  BY <1>3, <1>9, OutputStays
<1>12. InputBuffer!Take(InBytes(w))
  BY <1>6, <1>8, BytesType, InputTaken
<1>13. InputBuffer!Kept(InBytes(up) \o rx) = InBytes(w)
  BY <1>6 DEF InputBuffer!Kept, Newest
<1>14. /\ SubSeq(rx, Len(rx) + 1, Len(rx)) = <<>> /\ SubSeq(rx, 1, Len(rx)) = rx
       /\ Len(rx) \in 0 .. Len(rx) /\ chip'.rx = <<>>
  BY <1>0, <1>4, SubSeqFull, SubSeqEmpty DEF ChipState
<1>15. InputBuffer!Receive
  <2>1. chip'.rx = InputBuffer!From(rx, Len(rx))
    BY <1>14 DEF InputBuffer!From
  <2>2. InputBuffer!Take(InputBuffer!Kept(InBytes(up) \o SubSeq(rx, 1, Len(rx))))
    BY <1>12, <1>13, <1>14
  <2> QED BY <1>1, <1>14, <2>1, <2>2 DEF InputBuffer!Receive
<1> QED BY <1>10, <1>11, <1>15 DEF InputBuffer!Next

LEMMA UartSendStep ==
  ASSUME DevInv, SerialOK, UartSend
  PROVE  SerialOK' /\ InputBuffer!Next /\ OutputBuffer!Next
<1>0. up \in UartState /\ chip \in ChipState /\ chip.rx \in Seq(Byte)
  BY DevFacts, ReceivedType DEF DevFrame
<1>1. PICK data \in Texts, flags \in SendFlags :
        /\ \E n \in 0 .. uart_send(up, data, flags).outsz :
             LET r == uart_write(uart_send(up, data, flags), chip, n)
             IN  up' = r.u /\ chip' = r.chip /\ sent' = r.out
        /\ ucall' = [NoPortCall EXCEPT !.bytes = Payload(data, flags)]
  BY DEF UartSend
<1>2. data \in Seq(Byte) /\ got' = <<>>
  BY DevicesAssumption DEF UartSend
<1> DEFINE w == uart_send(up, data, flags)
<1>3. /\ w \in UartState /\ OutRing(w) /\ SameIn(up, w)
      /\ OutBytes(w) = OutputBuffer!Kept(OutBytes(up) \o Payload(data, flags))
  BY <1>0, <1>2, SendPuts DEF SerialOK
<1> HIDE DEF w
<1>4. PICK n \in 0 .. w.outsz :
          LET r == uart_write(w, chip, n)
          IN  up' = r.u /\ chip' = r.chip /\ sent' = r.out
  BY <1>1 DEF w
<1>5. /\ OutRing(up') /\ SameIn(w, up')
      /\ n \in 0 .. Len(OutBytes(w))
      /\ OutBytes(up') = SubSeq(OutBytes(w), n + 1, Len(OutBytes(w)))
      /\ sent' = SubSeq(OutBytes(w), 1, n) /\ chip'.rx = chip.rx
  BY <1>0, <1>3, <1>4, WriteTakes
<1>6. SameIn(up, up')
  BY <1>3, <1>5 DEF SameIn
<1>7. SerialOK'
  BY <1>5, <1>6, SameBytes DEF SerialOK
<1>8. InputBuffer!Next
  BY <1>0, <1>2, <1>5, <1>6, InputStays
<1>9. OutputBuffer!Take(OutBytes(w))
  BY <1>3, <1>5, BytesType, OutputTaken
<1>10. OutputBuffer!Put
  <2>1. ucall'.bytes = Payload(data, flags)
    BY <1>1 DEF NoPortCall
  <2> QED BY <1>3, <1>9, <2>1 DEF OutputBuffer!Put
<1> QED BY <1>7, <1>8, <1>10 DEF OutputBuffer!Next

LEMMA UartSetConfStep ==
  ASSUME DevInv, SerialOK, UartSetConf
  PROVE  SerialOK' /\ InputBuffer!Next /\ OutputBuffer!Next
<1>0. up \in UartState /\ chip \in ChipState /\ chip.rx \in Seq(Byte)
  BY DevFacts, ReceivedType DEF DevFrame
<1>1. PICK mode \in ConfModes :
        up' = uart_config(up, chip, mode).u /\ chip' = uart_config(up, chip, mode).chip
  BY DEF UartSetConf
<1>2. got' = <<>> /\ sent' = <<>> /\ ucall'.set
  BY DEF UartSetConf, NoPortCall
<1>3. CASE mode \in {"UART_BYTE", "UART_STREAM"}
  <2>1. /\ InRing(up') /\ OutRing(up')
        /\ InBytes(up') = <<>> /\ OutBytes(up') = <<>> /\ chip'.rx = <<>>
    BY <1>0, <1>1, <1>3, ConfigEmpties
  <2>2. InputBuffer!Reset /\ OutputBuffer!Reset
    BY <1>2, <2>1 DEF InputBuffer!Reset, OutputBuffer!Reset
  <2> QED BY <2>1, <2>2 DEF SerialOK, InputBuffer!Next, OutputBuffer!Next
<1>4. CASE mode \notin {"UART_BYTE", "UART_STREAM"}
  <2>1. up' = up /\ chip' = chip
    BY <1>1, <1>4 DEF uart_config
  <2>2. SameIn(up, up') /\ SameOut(up, up') /\ SerialOK'
    BY <2>1 DEF SameIn, SameOut, SerialOK
  <2> QED BY <1>0, <1>2, <2>1, <2>2, InputStays, OutputStays
<1> QED BY <1>3, <1>4

\* The steps of the chip and of its interrupt.
LEMMA ChipStep ==
  ASSUME DevInv, SerialOK, ByteArrives \/ TransmitterEmpty \/ UartInterrupt
  PROVE  SerialOK' /\ InputBuffer!Next /\ OutputBuffer!Next
<1>0. chip \in ChipState /\ chip.rx \in Seq(Byte)
  BY DevFacts, ReceivedType DEF DevFrame
<1>1. up' = up /\ got' = <<>> /\ sent' = <<>>
  BY DEF ByteArrives, TransmitterEmpty, UartInterrupt
<1>2. SameIn(up, up') /\ SameOut(up, up') /\ SerialOK'
  BY <1>1 DEF SameIn, SameOut, SerialOK
<1>3. chip'.rx = chip.rx \/ \E b \in Byte : chip'.rx = Append(chip.rx, b)
  <2>1. CASE ByteArrives
    <3>1. PICK b \in Byte :
            chip' = IF Len(chip.rx) < UART_FIFO THEN [chip EXCEPT !.rx = Append(@, b)] ELSE chip
      BY <2>1 DEF ByteArrives
    <3> QED BY <1>0, <3>1 DEF ChipState
  <2>2. CASE TransmitterEmpty
    BY <1>0, <2>2 DEF TransmitterEmpty, ChipState
  <2>3. CASE UartInterrupt
    BY <1>0, <2>3 DEF UartInterrupt, uart_interrupt_handler, ChipState
  <2> QED BY <2>1, <2>2, <2>3
<1> QED BY <1>0, <1>1, <1>2, <1>3, InputStays, OutputStays

LEMMA SerialNext ==
  ASSUME DevInv, SerialOK, [DevNext]_devVars
  PROVE  SerialOK' /\ SerialSteps
<1>1. CASE UartRecv
  BY <1>1, UartRecvStep DEF SerialSteps
<1>2. CASE UartSend
  BY <1>2, UartSendStep DEF SerialSteps
<1>3. CASE UartSetConf
  BY <1>3, UartSetConfStep DEF SerialSteps
<1>4. CASE ByteArrives \/ TransmitterEmpty \/ UartInterrupt
  BY <1>4, ChipStep DEF SerialSteps
<1>5. CASE UNCHANGED uartVars
  <2>1. up' = up /\ chip' = chip /\ got' = got /\ sent' = sent
    BY <1>5 DEF uartVars
  <2>2. SerialOK'
    BY <2>1 DEF SerialOK
  <2>3. UNCHANGED InputBuffer!vars /\ UNCHANGED OutputBuffer!vars
    BY <2>1 DEF InputBuffer!vars, OutputBuffer!vars
  <2> QED BY <2>2, <2>3 DEF SerialSteps
<1> QED BY <1>1, <1>2, <1>3, <1>4, <1>5 DEF DevNext, sys__device_open,
     sys__device_close, sys__set_default, sys__device_lock, sys__device_unlock, ThreadCall,
     k_memory_fault, PressKey, ReleaseKey, KeyboardInterrupt, KeyboardRecv, KeyboardSend,
     devVars

LEMMA SerialInit == DevInit => SerialOK
<1> SUFFICES ASSUME DevInit PROVE SerialOK
  OBVIOUS
<1>1. BUFFER_SIZE \in Nat \ {0} /\ BufferIndex = 0 .. BUFFER_SIZE - 1 /\ Terminator \in Byte
  BY UartAssumption DEF BufferIndex
<1>2. identify_UART(UartBefore).uart_type # "UNDEFINED"
  BY DEF UartBefore, identify_UART
<1>3. up = identify_UART(UartBefore)
  BY <1>2 DEF DevInit, uart_init
<1> DEFINE z == [i \in BufferIndex |-> Terminator]
<1>4. /\ up.inbuff = z /\ up.inf = 0 /\ up.inl = 0 /\ up.insz = 0
      /\ up.outbuff = z /\ up.outf = 0 /\ up.outl = 0 /\ up.outsz = 0
  BY <1>3 DEF UartBefore, identify_UART
<1>5. z \in [0 .. BUFFER_SIZE - 1 -> Byte]
  BY <1>1
<1> HIDE DEF z
<1>6. IsRing(<<>>, Byte, BUFFER_SIZE, z, 0, 0, 0)
  BY <1>1, <1>5, RingEmpty
<1>7. /\ IsRing(<<>>, Byte, BUFFER_SIZE, up.inbuff, up.inf, up.inl, up.insz)
      /\ IsRing(<<>>, Byte, BUFFER_SIZE, up.outbuff, up.outf, up.outl, up.outsz)
  BY <1>4, <1>6
<1> QED BY <1>7, BytesAre DEF SerialOK

-----------------------------------------------------------------------------
(***************************************************************************)
(* The keyboard: keystrokes that codes become, and those pushed back.      *)
(***************************************************************************)
Arrivals == [d : Decoder, keys : Seq(Keystroke)]

LEMMA BehindType ==
  ASSUME NEW s \in Seq(Keystroke), NEW x \in Keystroke, NEW down \in SUBSET SpecKeys
  PROVE  /\ [x EXCEPT !.down = @ \cup down] \in Keystroke
         /\ Behind(s, x, down) \in Seq(Keystroke)
<1>1. [x EXCEPT !.down = @ \cup down] \in Keystroke
  BY KeyTypes
<1> QED BY <1>1, AppendProperties DEF Behind

LEMMA ArrivesType ==
  ASSUME NEW r \in Arrivals, NEW c
  PROVE  Arrives(r, c) \in Arrivals
<1> DEFINE d == i8042_prepare_char(r.d, c)
<1>1. d \in Decoder
  BY DecoderType DEF Arrivals
<1> HIDE DEF d
<1>2. Behind(r.keys, d.key, d.down) \in Seq(Keystroke)
  BY <1>1, BehindType DEF Arrivals, Decoder
<1> QED BY <1>1, <1>2 DEF Arrives, Arrivals, d

LEMMA ArrivingSteps ==
  ASSUME NEW r \in Arrivals, NEW seq \in Seq(STRING)
  PROVE  \E h \in [0 .. Len(seq) -> Arrivals] :
           /\ h[0] = r /\ FoldLeft(Arrives, r, seq) = h[Len(seq)]
           /\ \A i \in 1 .. Len(seq) : h[i] = Arrives(h[i - 1], seq[i])
<1> DEFINE F == [p \in Arrivals \X STRING |-> Arrives(p[1], p[2])]
           D == SUBSET (DOMAIN seq)
           Turn(f, s) == IF s = {} THEN r ELSE Arrives(f[s \ {Max(s)}], seq[Max(s)])
           it == CHOOSE f : f = [s \in D |-> Turn(f, s)]
<1>1. F \in [Arrivals \X STRING -> Arrivals]
      /\ \A y \in Arrivals, c \in STRING : F[<<y, c>>] = Arrives(y, c)
  BY ArrivesType
<1> HIDE DEF F
<1>2. PICK g \in [D -> Arrivals] : FoldOf(g, F, r, seq)
  BY <1>1, FoldExists
<1>3. g = [s \in D |-> Turn(g, s)]
  <2>1. \A s \in D : s # {} => s \ {Max(s)} \in D /\ seq[Max(s)] \in STRING
    BY Indices
  <2>2. \A s \in D : g[s] = Turn(g, s)
    BY <1>1, <1>2, <2>1 DEF FoldOf, OneTurn
  <2> HIDE DEF Turn
  <2> QED BY <1>2, <2>2
<1>4. it = [s \in D |-> Turn(it, s)]
  BY <1>3
<1>5. FoldLeft(Arrives, r, seq) = it[DOMAIN seq]
  BY DEF FoldLeft, MapThenFoldSet
<1> HIDE DEF it
<1>6. TypedTurns(it, Arrivals, F, r, seq)
  <2>1. \A s \in D : s # {} => seq[Max(s)] \in STRING
    BY Indices
  <2> QED BY <1>1, <1>4, <2>1 DEF OneTurn, TypedTurns
<1>7. PICK h : LoopStates(h, it, Arrivals, F, r, seq)
  BY <1>1, <1>6, FoldRuns
<1>8. PICK n \in Nat : n = Len(seq) /\ \A i \in 1 .. n : seq[i] \in STRING
  BY Indices
<1>9. /\ h \in [0 .. n -> Arrivals] /\ h[0] = r /\ h[n] = it[DOMAIN seq]
      /\ \A i \in 1 .. n : h[i] = F[<<h[i - 1], seq[i]>>]
  BY <1>7, <1>8 DEF LoopStates
<1>10. \A i \in 1 .. n : h[i - 1] \in Arrivals
  BY <1>9
<1>11. \A i \in 1 .. n : h[i] = Arrives(h[i - 1], seq[i])
  BY <1>1, <1>8, <1>9, <1>10
<1>12. FoldLeft(Arrives, r, seq) = h[n]
  BY <1>5, <1>9
<1> QED BY <1>8, <1>9, <1>11, <1>12

LEMMA StampedSteps ==
  ASSUME NEW b \in KeyboardState, NEW seq \in Seq(Keystroke)
  PROVE  \E h \in [0 .. Len(seq) -> Seq(Keystroke)] :
           /\ h[0] = <<>> /\ Stamped(b, seq) = h[Len(seq)]
           /\ \A i \in 1 .. Len(seq) : h[i] = Behind(h[i - 1], seq[i], b.decoder.down)
<1>0. PICK down \in SUBSET SpecKeys, first \in Seq(Keystroke) :
        down = b.decoder.down /\ first = <<>>
  <2>1. b.decoder.down \in SUBSET SpecKeys
    BY DEF KeyboardState
  <2>2. <<>> \in Seq(Keystroke)
    OBVIOUS
  <2> QED BY <2>1, <2>2, Zenon
<1> DEFINE F == [p \in Seq(Keystroke) \X Keystroke |-> Behind(p[1], p[2], down)]
           D == SUBSET (DOMAIN seq)
           Turn(f, s) == IF s = {} THEN first ELSE Behind(f[s \ {Max(s)}], seq[Max(s)], down)
           it == CHOOSE f : f = [s \in D |-> Turn(f, s)]
<1>1. F \in [Seq(Keystroke) \X Keystroke -> Seq(Keystroke)]
      /\ \A y \in Seq(Keystroke), c \in Keystroke : F[<<y, c>>] = Behind(y, c, down)
  BY BehindType
<1> HIDE DEF F
<1>2. PICK g \in [D -> Seq(Keystroke)] : FoldOf(g, F, first, seq)
  BY <1>1, FoldExists
<1>3. g = [s \in D |-> Turn(g, s)]
  <2>1. \A s \in D : s # {} => s \ {Max(s)} \in D /\ seq[Max(s)] \in Keystroke
    BY Indices
  <2>2. \A s \in D : g[s] = Turn(g, s)
    BY <1>1, <1>2, <2>1 DEF FoldOf, OneTurn
  <2> HIDE DEF Turn
  <2> QED BY <1>2, <2>2
<1>4. it = [s \in D |-> Turn(it, s)]
  BY <1>3
<1>5. Stamped(b, seq) = it[DOMAIN seq]
  BY <1>0 DEF Stamped, FoldLeft, MapThenFoldSet
<1> HIDE DEF it
<1>6. TypedTurns(it, Seq(Keystroke), F, first, seq)
  <2>1. \A s \in D : s # {} => seq[Max(s)] \in Keystroke
    BY Indices
  <2> QED BY <1>1, <1>4, <2>1 DEF OneTurn, TypedTurns
<1>7. PICK h : LoopStates(h, it, Seq(Keystroke), F, first, seq)
  BY <1>1, <1>6, FoldRuns
<1>8. PICK n \in Nat : n = Len(seq) /\ \A i \in 1 .. n : seq[i] \in Keystroke
  BY Indices
<1>9. /\ h \in [0 .. n -> Seq(Keystroke)] /\ h[0] = first /\ h[n] = it[DOMAIN seq]
      /\ \A i \in 1 .. n : h[i] = F[<<h[i - 1], seq[i]>>]
  BY <1>7, <1>8 DEF LoopStates
<1>10. \A i \in 1 .. n : h[i - 1] \in Seq(Keystroke)
  BY <1>9
<1>11. \A i \in 1 .. n : h[i] = Behind(h[i - 1], seq[i], down)
  BY <1>1, <1>8, <1>9, <1>10
<1>12. Stamped(b, seq) = h[n]
  BY <1>5, <1>9
<1> QED BY <1>0, <1>8, <1>9, <1>11, <1>12

\* G[i] is what has arrived, decoded from d on, with the first i codes.
Arrived(G, d, seq) ==
  /\ G \in [0 .. Len(seq) -> Arrivals]
  /\ G[0].d = d /\ G[0].keys = <<>>
  /\ \A i \in 1 .. Len(seq) : G[i] = Arrives(G[i - 1], seq[i])

LEMMA ArrivingRuns ==
  ASSUME NEW b \in KeyboardState, NEW seq \in Seq(STRING)
  PROVE  /\ \E G : Arrived(G, b.decoder, seq) /\ Arriving(b, seq) = G[Len(seq)].keys
         /\ Arriving(b, seq) \in Seq(Keystroke)
<1>1. PICK r \in Arrivals : r = [d |-> b.decoder, keys |-> <<>>]
  <2>1. b.decoder \in Decoder /\ <<>> \in Seq(Keystroke)
    BY DEF KeyboardState, Decoder
  <2> QED BY <2>1 DEF Arrivals
<1>2. PICK h \in [0 .. Len(seq) -> Arrivals] :
        /\ h[0] = r /\ FoldLeft(Arrives, r, seq) = h[Len(seq)]
        /\ \A i \in 1 .. Len(seq) : h[i] = Arrives(h[i - 1], seq[i])
  BY ArrivingSteps
<1>3. Arriving(b, seq) = h[Len(seq)].keys
  BY <1>1, <1>2 DEF Arriving
<1>4. Arrived(h, b.decoder, seq)
  BY <1>1, <1>2 DEF Arrived
<1>5. h[Len(seq)] \in Arrivals
  BY <1>2
<1>6. h[Len(seq)].keys \in Seq(Keystroke)
  BY <1>5 DEF Arrivals
<1> QED BY <1>3, <1>4, <1>6

LEMMA PrepareEqual ==
  ASSUME NEW d \in Decoder, NEW e \in Decoder, SameKeys(d, e), NEW c
  PROVE  i8042_prepare_char(d, c) = i8042_prepare_char(e, c)
<1>0. d.multi_code = e.multi_code /\ d.down = e.down
  BY DEF SameKeys
<1>1. \A ev : KeyEvent(d, ev) = KeyEvent(e, ev)
  BY <1>0 DEF KeyEvent
<1>2. [d EXCEPT !.key = NoKey, !.multi_code = FALSE]
        = [e EXCEPT !.key = NoKey, !.multi_code = FALSE]
  BY <1>0 DEF Decoder
<1>3. AfterE0(d, c) = AfterE0(e, c)
  BY <1>1, <1>2 DEF AfterE0
<1>4. [d EXCEPT !.multi_code = TRUE, !.key = NoKey]
        = [e EXCEPT !.multi_code = TRUE, !.key = NoKey]
  BY <1>0 DEF Decoder
<1>5. Typed(d, c) = Typed(e, c)
  BY <1>0 DEF Typed
<1>6. [d EXCEPT !.key = Typed(d, c)] = [e EXCEPT !.key = Typed(e, c)]
  BY <1>0, <1>5 DEF Decoder
<1> QED BY <1>0, <1>1, <1>3, <1>4, <1>6 DEF i8042_prepare_char

LEMMA BehindConcat ==
  ASSUME NEW q \in Seq(Keystroke), NEW s \in Seq(Keystroke), NEW x \in Keystroke,
         NEW down \in SUBSET SpecKeys
  PROVE  Behind(q \o s, x, down) = q \o Behind(s, x, down)
<1>1. CASE x = NoKey
  BY <1>1 DEF Behind
<1>2. CASE x # NoKey
  <2>1. PICK e \in Keystroke : e = [x EXCEPT !.down = @ \cup down]
    BY BehindType
  <2>2. q \o Append(s, e) = Append(q \o s, e)
    BY AppendConcat
  <2> QED BY <1>2, <2>1, <2>2 DEF Behind
<1> QED BY <1>1, <1>2

LEMMA ArrivesAgree ==
  ASSUME NEW q \in Seq(Keystroke), NEW r \in Arrivals, NEW t \in Arrivals,
         SameKeys(r.d, t.d), r.keys = q \o t.keys, NEW c
  PROVE  /\ SameKeys(Arrives(r, c).d, Arrives(t, c).d)
         /\ Arrives(r, c).keys = q \o Arrives(t, c).keys
<1>1. r.d \in Decoder /\ t.d \in Decoder /\ t.keys \in Seq(Keystroke)
  BY DEF Arrivals
<1>2. i8042_prepare_char(r.d, c) = i8042_prepare_char(t.d, c)
  BY <1>1, PrepareEqual
<1>3. PICK d \in Decoder : d = i8042_prepare_char(t.d, c)
  BY <1>1, DecoderType
<1>4. d.key \in Keystroke /\ d.down \in SUBSET SpecKeys
  BY DEF Decoder
<1>5. Behind(q \o t.keys, d.key, d.down) = q \o Behind(t.keys, d.key, d.down)
  BY <1>1, <1>4, BehindConcat
<1>6. /\ Arrives(r, c).d = d /\ Arrives(t, c).d = d
      /\ Arrives(r, c).keys = Behind(r.keys, d.key, d.down)
      /\ Arrives(t, c).keys = Behind(t.keys, d.key, d.down)
  BY <1>2, <1>3 DEF Arrives
<1> QED BY <1>5, <1>6 DEF SameKeys

\* The same codes, one time after m others.
ArrivedAfter(G, m, E, n) ==
  /\ SameKeys(G[m + n].d, E[n].d)
  /\ G[m].keys \in Seq(Keystroke) /\ E[n].keys \in Seq(Keystroke)
  /\ G[m + n].keys = G[m].keys \o E[n].keys

LEMMA ArrivalsAgree ==
  ASSUME NEW s \in Seq(STRING), NEW t \in Seq(STRING), NEW m \in Nat, NEW n \in Nat,
         m + n <= Len(s), n <= Len(t), \A i \in 1 .. n : t[i] = s[m + i],
         NEW G, NEW d, Arrived(G, d, s), NEW E, NEW e, Arrived(E, e, t), SameKeys(G[m].d, e)
  PROVE  ArrivedAfter(G, m, E, n)
<1>0. Len(s) \in Nat /\ Len(t) \in Nat /\ m \in 0 .. Len(s) /\ n \in 0 .. Len(t)
  OBVIOUS
<1>q. PICK q \in Seq(Keystroke) : q = G[m].keys
  <2>1. G[m] \in Arrivals
    BY <1>0 DEF Arrived
  <2> QED BY <2>1 DEF Arrivals
<1>e. E[n].keys \in Seq(Keystroke)
  <2>1. E[n] \in Arrivals
    BY <1>0 DEF Arrived
  <2> QED BY <2>1 DEF Arrivals
<1> DEFINE P(i) == SameKeys(G[m + i].d, E[i].d) /\ G[m + i].keys = q \o E[i].keys
           T == {i \in Nat : P(i)}
<1>1. P(0)
  <2>1. m + 0 = m /\ E[0].d = e /\ E[0].keys = <<>>
    BY DEF Arrived
  <2>2. q \o <<>> = q
    BY ConcatEmptySeq
  <2> QED BY <1>q, <2>1, <2>2
<1>2. ASSUME NEW i \in 1 .. n, P(i - 1) PROVE P(i)
  <2>1. /\ m + (i - 1) = m + i - 1
        /\ m + i - 1 \in 0 .. Len(s) /\ i - 1 \in 0 .. Len(t)
        /\ m + i \in 1 .. Len(s) /\ i \in 1 .. Len(t)
    BY <1>0
  <2>2. PICK x \in Arrivals, y \in Arrivals : x = G[m + i - 1] /\ y = E[i - 1]
    BY <2>1 DEF Arrived
  <2>3. SameKeys(x.d, y.d) /\ x.keys = q \o y.keys
    BY <1>2, <2>1, <2>2
  <2>4. G[m + i] = Arrives(x, s[m + i]) /\ E[i] = Arrives(y, s[m + i])
    <3>1. G[m + i] = Arrives(G[m + i - 1], s[m + i])
      BY <2>1 DEF Arrived
    <3>2. E[i] = Arrives(E[i - 1], t[i]) /\ t[i] = s[m + i]
      BY <2>1 DEF Arrived
    <3> QED BY <2>2, <3>1, <3>2
  <2>5. PICK c : c = s[m + i]
    OBVIOUS
  <2>6. /\ SameKeys(Arrives(x, c).d, Arrives(y, c).d)
        /\ Arrives(x, c).keys = q \o Arrives(y, c).keys
    BY <2>3, ArrivesAgree
  <2> QED BY <2>4, <2>5, <2>6
<1>3. P(n)
  <2> HIDE DEF P
  <2>1. 0 \in T /\ \A i \in 1 .. n : i - 1 \in T => i \in T
    BY <1>1, <1>2
  <2> HIDE DEF T
  <2>2. \A i \in 0 .. n : i \in T
    BY <2>1, Upto
  <2>3. n \in T
    BY <2>2
  <2> QED BY <2>3 DEF T
<1> QED BY <1>q, <1>e, <1>3 DEF ArrivedAfter

\* G follows the decoder.
LEMMA ArrivedDecodes ==
  ASSUME NEW seq \in Seq(STRING), NEW G, NEW d, Arrived(G, d, seq)
  PROVE  \E D : Decodes(D, d, seq) /\ \A i \in 0 .. Len(seq) : D[i] = G[i].d
<1>0. PICK n \in Nat : n = Len(seq)
  OBVIOUS
<1> DEFINE D == [i \in 0 .. n |-> G[i].d]
<1>1. D \in [0 .. n -> Decoder] /\ D[0] = d
  BY <1>0 DEF Arrived, Arrivals
<1>2. ASSUME NEW i \in 1 .. n PROVE D[i] = i8042_prepare_char(D[i - 1], seq[i])
  <2>1. i \in 0 .. n /\ i - 1 \in 0 .. n
    OBVIOUS
  <2>2. G[i] = Arrives(G[i - 1], seq[i])
    BY <1>0 DEF Arrived
  <2>3. G[i].d = i8042_prepare_char(G[i - 1].d, seq[i])
    BY <2>2 DEF Arrives
  <2> QED BY <2>1, <2>3
<1>3. \A i \in 0 .. n : D[i] = G[i].d
  OBVIOUS
<1> HIDE DEF D
<1> QED BY <1>0, <1>1, <1>2, <1>3 DEF Decodes

\* What arrives with all codes: with those read, then with the rest.
LEMMA ArrivingRest ==
  ASSUME NEW b \in KeyboardState, NEW seq \in Seq(STRING), NEW m \in 1 .. Len(seq)
  PROVE  LET read == SubSeq(seq, 1, m)
             rest == SubSeq(seq, m + 1, Len(seq))
         IN  Arriving(b, seq)
               = Arriving(b, read) \o Arriving(i8042_interrupt_handler(b, read), rest)
<1> DEFINE read == SubSeq(seq, 1, m)
           rest == SubSeq(seq, m + 1, Len(seq))
           r    == i8042_interrupt_handler(b, read)
<1>1. PICK n \in Nat : Len(seq) = m + n
  <2>1. Len(seq) - m \in Nat /\ Len(seq) = m + (Len(seq) - m)
    OBVIOUS
  <2> QED BY <2>1
<1>2. /\ read \in Seq(STRING) /\ Len(read) = m
      /\ \A i \in 1 .. m : read[i] = seq[i]
  OBVIOUS
<1>3. /\ rest \in Seq(STRING) /\ Len(rest) = n
      /\ \A i \in 1 .. n : rest[i] = seq[m + i]
  BY <1>1
<1> HIDE DEF read, rest
<1>4. PICK G : Arrived(G, b.decoder, seq) /\ Arriving(b, seq) = G[Len(seq)].keys
  BY ArrivingRuns
<1>5. PICK E : Arrived(E, b.decoder, read) /\ Arriving(b, read) = E[Len(read)].keys
  BY <1>2, ArrivingRuns
<1>6. r \in KeyboardState
  BY <1>2, DecodedSteps
<1>7. PICK H : Arrived(H, r.decoder, rest) /\ Arriving(r, rest) = H[Len(rest)].keys
  <2> HIDE DEF r
  <2> QED BY <1>3, <1>6, ArrivingRuns
<1>8. SameKeys(G[m].d, E[m].d) /\ G[m].keys = E[m].keys
  <2>1. /\ 0 + m = m /\ m \in Nat /\ 0 \in Nat /\ m <= Len(seq) /\ m <= Len(read)
        /\ \A i \in 1 .. m : read[i] = seq[0 + i]
    BY <1>2
  <2>2. SameKeys(G[0].d, b.decoder) /\ G[0].keys = <<>>
    BY <1>4 DEF Arrived, SameKeys
  <2>3. ArrivedAfter(G, 0, E, m)
    BY <1>2, <1>4, <1>5, <2>1, <2>2, ArrivalsAgree
  <2>4. <<>> \o E[m].keys = E[m].keys
    BY <2>3, ConcatEmptySeq DEF ArrivedAfter
  <2> QED BY <2>1, <2>2, <2>3, <2>4 DEF ArrivedAfter
<1>9. SameKeys(E[m].d, r.decoder)
  <2>1. PICK D : Decodes(D, b.decoder, read) /\ SameKeys(Decoded(b, read), D[Len(read)])
    BY <1>2, DecodedSteps
  <2>2. PICK F : Decodes(F, b.decoder, read) /\ \A i \in 0 .. Len(read) : F[i] = E[i].d
    BY <1>2, <1>5, ArrivedDecodes
  <2>3. SameKeys(D[m], F[m])
    <3>1. /\ 0 + m = m /\ m \in Nat /\ 0 \in Nat /\ m <= Len(read)
          /\ \A i \in 1 .. m : read[i] = read[0 + i]
      BY <1>2
    <3>2. SameKeys(D[0], b.decoder)
      BY <2>1 DEF Decodes, SameKeys
    <3>3. SameKeys(D[0 + m], F[m])
      BY <1>2, <2>1, <2>2, <3>1, <3>2, DecodersAgree
    <3> QED BY <3>1, <3>3
  <2>4. F[m] = E[m].d
    BY <1>2, <2>2
  <2> QED BY <1>2, <2>1, <2>3, <2>4 DEF SameKeys, Decoded
<1>10. /\ m \in Nat /\ m + n <= Len(seq) /\ n <= Len(rest)
       /\ SameKeys(G[m].d, r.decoder)
  BY <1>1, <1>3, <1>8, <1>9 DEF SameKeys
<1>11. ArrivedAfter(G, m, H, n)
  <2> HIDE DEF r
  <2> QED BY <1>3, <1>4, <1>7, <1>10, ArrivalsAgree
<1>12. Arriving(b, seq) = Arriving(b, read) \o Arriving(r, rest)
  BY <1>1, <1>2, <1>3, <1>4, <1>5, <1>7, <1>8, <1>11 DEF ArrivedAfter
<1> QED BY <1>12 DEF read, rest

-----------------------------------------------------------------------------
(***************************************************************************)
(* The keyboard's buffer.                                                  *)
(***************************************************************************)
KeyRing(b) == IsRing(Keystrokes(b), Keystroke, KEYB_BUFF_SIZE, b.buffer, b.first, b.last, b.size)

SameBuffer(a, b) == b.buffer = a.buffer /\ b.first = a.first /\ b.last = a.last /\ b.size = a.size

LEMMA KeysAre ==
  ASSUME NEW q, NEW b
  PROVE  /\ IsRing(q, Keystroke, KEYB_BUFF_SIZE, b.buffer, b.first, b.last, b.size)
              => q = Keystrokes(b) /\ KeyRing(b)
         /\ KeyRing(b) => Keystrokes(b) \in Seq(Keystroke) /\ Len(Keystrokes(b)) = b.size
<1>1. Keystrokes(b) = Ring(b.buffer, KEYB_BUFF_SIZE, b.first, b.size)
  BY DEF Keystrokes, Ring
<1>2. IsRing(q, Keystroke, KEYB_BUFF_SIZE, b.buffer, b.first, b.last, b.size)
        => q = Ring(b.buffer, KEYB_BUFF_SIZE, b.first, b.size)
  BY DEF IsRing
<1>3. KeyRing(b) => Keystrokes(b) \in Seq(Keystroke) /\ Len(Keystrokes(b)) = b.size
  BY KeyboardAssumption, RingFacts DEF KeyRing
<1> QED BY <1>1, <1>2, <1>3 DEF KeyRing

LEMMA SameStrokes ==
  ASSUME NEW a, NEW b, SameBuffer(a, b)
  PROVE  Keystrokes(b) = Keystrokes(a) /\ (KeyRing(a) => KeyRing(b))
<1>1. Keystrokes(b) = Keystrokes(a)
  BY DEF SameBuffer, Keystrokes
<1> QED BY <1>1 DEF SameBuffer, KeyRing

LEMMA InsertRing ==
  ASSUME NEW b \in KeyboardState, KeyRing(b), NEW x \in Keystroke,
         NEW s \in Seq(Keystroke), Keystrokes(b) = Newest(s, KEYB_BUFF_SIZE)
  PROVE  /\ KeyRing(i8042_insert_keystroke(b, x))
         /\ Keystrokes(i8042_insert_keystroke(b, x))
              = Newest(Behind(s, x, b.decoder.down), KEYB_BUFF_SIZE)
<1> DEFINE v == i8042_insert_keystroke(b, x)
<1>1. CASE x = NoKey
  BY <1>1 DEF i8042_insert_keystroke, Behind
<1>2. CASE x # NoKey
  <2>0. KEYB_BUFF_SIZE \in Nat \ {0}
    BY KeyboardAssumption
  <2>1. PICK e \in Keystroke : e = [x EXCEPT !.down = @ \cup b.decoder.down]
    <3>1. b.decoder.down \in SUBSET SpecKeys
      BY DEF KeyboardState
    <3> QED BY <3>1, BehindType
  <2>2. /\ v.buffer = [b.buffer EXCEPT ![b.last] = e]
        /\ v.last = (b.last + 1) % KEYB_BUFF_SIZE
        /\ v.size = (IF b.size < KEYB_BUFF_SIZE THEN b.size + 1 ELSE b.size)
        /\ v.first = (IF b.size < KEYB_BUFF_SIZE THEN b.first
                                                 ELSE (b.first + 1) % KEYB_BUFF_SIZE)
    BY <1>2, <2>1 DEF i8042_insert_keystroke, KeyboardState, Following
  <2> HIDE DEF v
  <2>3. /\ v.buffer = PutAt(b.buffer, b.last, e)
        /\ v.first = FirstThen(b.first, b.size, KEYB_BUFF_SIZE)
        /\ v.last = LastThen(b.last, KEYB_BUFF_SIZE)
        /\ v.size = SizeThen(b.size, KEYB_BUFF_SIZE)
    BY <2>2 DEF PutAt, FirstThen, LastThen, SizeThen
  <2>4. IsRing(Newest(Append(Keystrokes(b), e), KEYB_BUFF_SIZE), Keystroke, KEYB_BUFF_SIZE,
               v.buffer, v.first, v.last, v.size)
    <3>1. IsRing(Newest(Append(Keystrokes(b), e), KEYB_BUFF_SIZE), Keystroke, KEYB_BUFF_SIZE,
                 PutAt(b.buffer, b.last, e), FirstThen(b.first, b.size, KEYB_BUFF_SIZE),
                 LastThen(b.last, KEYB_BUFF_SIZE), SizeThen(b.size, KEYB_BUFF_SIZE))
      BY <2>0, RingPut DEF KeyRing
    <3> QED BY <2>3, <3>1
  <2>5. KeyRing(v) /\ Keystrokes(v) = Newest(Append(Keystrokes(b), e), KEYB_BUFF_SIZE)
    BY <2>4, KeysAre
  <2>6. Newest(Append(Newest(s, KEYB_BUFF_SIZE), e), KEYB_BUFF_SIZE)
          = Newest(Append(s, e), KEYB_BUFF_SIZE)
    BY <2>0, NewestAppend
  <2>7. Behind(s, x, b.decoder.down) = Append(s, e)
    BY <1>2, <2>1 DEF Behind
  <2> QED BY <2>5, <2>6, <2>7 DEF v
<1> QED BY <1>1, <1>2

\* A turn of the loop of i8042_interrupt_handler.
LEMMA CodeRing ==
  ASSUME NEW b \in KeyboardState, KeyRing(b), NEW r \in Arrivals, b.decoder = r.d,
         NEW q \in Seq(Keystroke), Keystrokes(b) = Newest(q \o r.keys, KEYB_BUFF_SIZE), NEW c
  PROVE  /\ KeyRing(InsertCode(b, c)) /\ InsertCode(b, c).decoder = Arrives(r, c).d
         /\ Keystrokes(InsertCode(b, c)) = Newest(q \o Arrives(r, c).keys, KEYB_BUFF_SIZE)
<1>1. PICK d \in Decoder : d = i8042_prepare_char(r.d, c)
  BY DecoderType DEF Arrivals
<1>2. PICK y \in KeyboardState : y = i8042_read(b, c) /\ y.decoder = d
  BY <1>1, ReadType
<1>3. d.key \in Keystroke /\ d.down \in SUBSET SpecKeys /\ r.keys \in Seq(Keystroke)
  BY DEF Decoder, Arrivals
<1>4. SameBuffer(b, y)
  BY <1>2 DEF i8042_read, KeyboardState, SameBuffer
<1>5. KeyRing(y) /\ Keystrokes(y) = Newest(q \o r.keys, KEYB_BUFF_SIZE)
  BY <1>4, SameStrokes
<1>6. q \o r.keys \in Seq(Keystroke)
  BY <1>3, ConcatProperties
<1>7. InsertCode(b, c) = i8042_insert_keystroke(y, d.key)
  BY <1>2 DEF InsertCode
<1>8. /\ KeyRing(i8042_insert_keystroke(y, d.key))
      /\ Keystrokes(i8042_insert_keystroke(y, d.key))
           = Newest(Behind(q \o r.keys, d.key, y.decoder.down), KEYB_BUFF_SIZE)
  BY <1>3, <1>5, <1>6, InsertRing
<1>9. Behind(q \o r.keys, d.key, d.down) = q \o Behind(r.keys, d.key, d.down)
  BY <1>3, BehindConcat
<1>10. Arrives(r, c).d = d /\ Arrives(r, c).keys = Behind(r.keys, d.key, d.down)
  BY <1>1 DEF Arrives
<1>11. InsertCode(b, c).decoder = d
  BY <1>1, InsertCodeType
<1> QED BY <1>2, <1>7, <1>8, <1>9, <1>10, <1>11

LEMMA HandlerRing ==
  ASSUME NEW b \in KeyboardState, KeyRing(b), NEW seq \in Seq(STRING)
  PROVE  /\ KeyRing(i8042_interrupt_handler(b, seq))
         /\ Keystrokes(i8042_interrupt_handler(b, seq))
              = Newest(Keystrokes(b) \o Arriving(b, seq), KEYB_BUFF_SIZE)
<1>0. PICK n \in Nat : n = Len(seq)
  OBVIOUS
<1>1. PICK h \in [0 .. Len(seq) -> KeyboardState] :
        /\ h[0] = b /\ i8042_interrupt_handler(b, seq) = [h[Len(seq)] EXCEPT !.decoder.key = NoKey]
        /\ \A i \in 1 .. Len(seq) : h[i] = InsertCode(h[i - 1], seq[i])
  BY HandlerSteps
<1>2. PICK G : Arrived(G, b.decoder, seq) /\ Arriving(b, seq) = G[Len(seq)].keys
  BY ArrivingRuns
<1>3. KEYB_BUFF_SIZE \in Nat \ {0} /\ b.size <= KEYB_BUFF_SIZE
  BY KeyboardAssumption DEF KeyboardState
<1>4. PICK q \in Seq(Keystroke) : q = Keystrokes(b) /\ Len(q) = b.size
  BY KeysAre
<1> DEFINE P(i) == /\ KeyRing(h[i]) /\ h[i].decoder = G[i].d
                   /\ Keystrokes(h[i]) = Newest(q \o G[i].keys, KEYB_BUFF_SIZE)
           T == {i \in Nat : P(i)}
<1>5. P(0)
  <2>1. h[0] = b /\ G[0].d = b.decoder /\ G[0].keys = <<>>
    BY <1>1, <1>2 DEF Arrived
  <2>2. q \o <<>> = q
    BY ConcatEmptySeq
  <2>3. Newest(q, KEYB_BUFF_SIZE) = q
    BY <1>3, <1>4, NewestAll
  <2> QED BY <1>4, <2>1, <2>2, <2>3
<1>6. ASSUME NEW i \in 1 .. n, P(i - 1) PROVE P(i)
  <2>1. i \in 1 .. Len(seq) /\ i - 1 \in 0 .. Len(seq)
    BY <1>0
  <2>2. PICK x \in KeyboardState, r \in Arrivals : x = h[i - 1] /\ r = G[i - 1]
    BY <1>1, <1>2, <2>1 DEF Arrived
  <2>3. PICK c : c = seq[i]
    OBVIOUS
  <2>4. h[i] = InsertCode(x, c) /\ G[i] = Arrives(r, c)
    BY <1>1, <1>2, <2>1, <2>2, <2>3 DEF Arrived
  <2>5. KeyRing(x) /\ x.decoder = r.d /\ Keystrokes(x) = Newest(q \o r.keys, KEYB_BUFF_SIZE)
    BY <1>6, <2>2
  <2>6. /\ KeyRing(InsertCode(x, c)) /\ InsertCode(x, c).decoder = Arrives(r, c).d
        /\ Keystrokes(InsertCode(x, c)) = Newest(q \o Arrives(r, c).keys, KEYB_BUFF_SIZE)
    BY <2>5, CodeRing
  <2> QED BY <2>4, <2>6
<1>7. P(n)
  <2> HIDE DEF P
  <2>1. 0 \in T /\ \A i \in 1 .. n : i - 1 \in T => i \in T
    BY <1>5, <1>6
  <2> HIDE DEF T
  <2>2. \A i \in 0 .. n : i \in T
    BY <2>1, Upto
  <2>3. n \in T
    BY <2>2
  <2> QED BY <2>3 DEF T
<1>8. PICK x \in KeyboardState : x = h[n]
  BY <1>0, <1>1
<1> DEFINE r == i8042_interrupt_handler(b, seq)
<1>9. r = [x EXCEPT !.decoder.key = NoKey]
  BY <1>0, <1>1, <1>8
<1>10. SameBuffer(x, r)
  BY <1>9 DEF KeyboardState, SameBuffer
<1> HIDE DEF r
<1>11. Keystrokes(r) = Keystrokes(x) /\ (KeyRing(x) => KeyRing(r))
  BY <1>10, SameStrokes
<1> QED BY <1>0, <1>2, <1>4, <1>7, <1>8, <1>11 DEF r

LEMMA SendRing ==
  ASSUME NEW b \in KeyboardState, KeyRing(b), NEW keys \in Seq(Keystroke)
  PROVE  /\ KeyRing(i8042_send(b, keys)) /\ Stamped(b, keys) \in Seq(Keystroke)
         /\ Keystrokes(i8042_send(b, keys))
              = Newest(Keystrokes(b) \o Stamped(b, keys), KEYB_BUFF_SIZE)
<1>0. PICK n \in Nat : n = Len(keys)
  OBVIOUS
<1>1. PICK h \in [0 .. Len(keys) -> KeyboardState] :
        /\ h[0] = b /\ FoldLeft(i8042_insert_keystroke, b, keys) = h[Len(keys)]
        /\ \A i \in 1 .. Len(keys) : h[i] = i8042_insert_keystroke(h[i - 1], keys[i])
  BY InsertSteps
<1>2. PICK g \in [0 .. Len(keys) -> Seq(Keystroke)] :
        /\ g[0] = <<>> /\ Stamped(b, keys) = g[Len(keys)]
        /\ \A i \in 1 .. Len(keys) : g[i] = Behind(g[i - 1], keys[i], b.decoder.down)
  BY StampedSteps
<1>3. KEYB_BUFF_SIZE \in Nat \ {0} /\ b.size <= KEYB_BUFF_SIZE
  BY KeyboardAssumption DEF KeyboardState
<1>4. PICK q \in Seq(Keystroke) : q = Keystrokes(b) /\ Len(q) = b.size
  BY KeysAre
<1>d. PICK down \in SUBSET SpecKeys : down = b.decoder.down
  BY DEF KeyboardState
<1> DEFINE P(i) == /\ KeyRing(h[i]) /\ h[i].decoder = b.decoder
                   /\ Keystrokes(h[i]) = Newest(q \o g[i], KEYB_BUFF_SIZE)
           T == {i \in Nat : P(i)}
<1>5. P(0)
  <2>2. q \o <<>> = q
    BY ConcatEmptySeq
  <2>3. Newest(q, KEYB_BUFF_SIZE) = q
    BY <1>3, <1>4, NewestAll
  <2> QED BY <1>1, <1>2, <1>4, <2>2, <2>3
<1>6. ASSUME NEW i \in 1 .. n, P(i - 1) PROVE P(i)
  <2>1. i \in 1 .. Len(keys) /\ i - 1 \in 0 .. Len(keys)
    BY <1>0
  <2>2. PICK x \in KeyboardState, s \in Seq(Keystroke) : x = h[i - 1] /\ s = g[i - 1]
    BY <1>1, <1>2, <2>1
  <2>3. PICK e \in Keystroke : e = keys[i]
    BY <2>1
  <2>4. h[i] = i8042_insert_keystroke(x, e) /\ g[i] = Behind(s, e, down)
    BY <1>1, <1>2, <1>d, <2>1, <2>2, <2>3
  <2>5. /\ KeyRing(x) /\ x.decoder.down = down /\ x.decoder = b.decoder
        /\ Keystrokes(x) = Newest(q \o s, KEYB_BUFF_SIZE)
    BY <1>6, <1>d, <2>2
  <2>6. q \o s \in Seq(Keystroke)
    BY ConcatProperties
  <2>7. /\ KeyRing(i8042_insert_keystroke(x, e))
        /\ Keystrokes(i8042_insert_keystroke(x, e))
             = Newest(Behind(q \o s, e, x.decoder.down), KEYB_BUFF_SIZE)
    BY <2>5, <2>6, InsertRing
  <2>8. i8042_insert_keystroke(x, e).decoder = x.decoder
    BY InsertType
  <2>9. Behind(q \o s, e, down) = q \o Behind(s, e, down)
    BY BehindConcat
  <2> QED BY <2>4, <2>5, <2>7, <2>8, <2>9
<1>7. P(n)
  <2> HIDE DEF P
  <2>1. 0 \in T /\ \A i \in 1 .. n : i - 1 \in T => i \in T
    BY <1>5, <1>6
  <2> HIDE DEF T
  <2>2. \A i \in 0 .. n : i \in T
    BY <2>1, Upto
  <2>3. n \in T
    BY <2>2
  <2> QED BY <2>3 DEF T
<1>8. i8042_send(b, keys) = h[n] /\ Stamped(b, keys) = g[n] /\ g[n] \in Seq(Keystroke)
  BY <1>0, <1>1, <1>2 DEF i8042_send
<1> QED BY <1>4, <1>7, <1>8

\* s without its first a items, and of those without the first n.
LEMMA RestOfRest ==
  ASSUME NEW B, NEW s \in Seq(B), NEW a \in 0 .. Len(s),
         NEW t \in Seq(B), t = SubSeq(s, a + 1, Len(s)), NEW n \in 0 .. Len(t),
         NEW j \in Nat, j = a + n
  PROVE  /\ Len(t) = Len(s) - a /\ \A i \in 1 .. Len(t) : t[i] = s[a + i]
         /\ j \in 0 .. Len(s) /\ SubSeq(t, n + 1, Len(t)) = SubSeq(s, j + 1, Len(s))
<1>1. Len(t) = Len(s) - a /\ \A i \in 1 .. Len(t) : t[i] = s[a + i]
  <2>1. /\ Len(SubSeq(s, a + 1, Len(s))) = Len(s) - a
        /\ \A i \in 1 .. Len(s) - a : SubSeq(s, a + 1, Len(s))[i] = s[a + i]
    BY Rest
  <2> QED BY <2>1
<1>2. j \in 0 .. Len(s)
  BY <1>1
<1> DEFINE v == SubSeq(t, n + 1, Len(t))
           w == SubSeq(s, j + 1, Len(s))
<1>3. v \in Seq(B) /\ Len(v) = Len(t) - n /\ \A i \in 1 .. Len(t) - n : v[i] = t[n + i]
  BY Rest
<1>4. w \in Seq(B) /\ Len(w) = Len(s) - j /\ \A i \in 1 .. Len(s) - j : w[i] = s[j + i]
  BY <1>2, Rest
<1> HIDE DEF v, w
<1>5. Len(v) = Len(w)
  BY <1>1, <1>3, <1>4
<1>6. ASSUME NEW i \in 1 .. Len(v) PROVE v[i] = w[i]
  <2>1. /\ n + i \in 1 .. Len(t) /\ a + (n + i) = j + i
        /\ i \in 1 .. Len(t) - n /\ i \in 1 .. Len(s) - j
    BY <1>1, <1>3
  <2>2. v[i] = t[n + i] /\ t[n + i] = s[a + (n + i)] /\ w[i] = s[j + i]
    BY <1>1, <1>3, <1>4, <2>1
  <2> QED BY <2>1, <2>2
<1>7. v = w
  BY <1>3, <1>4, <1>5, <1>6, SeqEqual
<1> QED BY <1>1, <1>2, <1>7 DEF v, w

\* The index of the last item is the one before buf_last, unless that is 0.
LEMMA LastIndex ==
  ASSUME NEW n \in Nat \ {0}, NEW first \in 0 .. n - 1, NEW size \in 1 .. n,
         NEW last, last = (first + size) % n, last > 0, NEW m, m = size - 1
  PROVE  last - 1 = (first + m) % n
<1>1. /\ first + size \in Nat /\ first + size < n + n
      /\ first + m \in Nat /\ first + m < n + n
  OBVIOUS
<1>2. last = Wrap(first + size, n)
  BY <1>1, ModOnce, Zenon
<1>3. (first + m) % n = Wrap(first + m, n)
  BY <1>1, ModOnce, Zenon
<1>4. Wrap(first + m, n) = last - 1
  BY <1>2 DEF Wrap
<1> QED BY <1>3, <1>4

\* ONLY_LAST forgets all but the last of n.
Forgotten(flags, n) == IF "ONLY_LAST" \in flags THEN n - 1 ELSE 0

LEMMA FirstRead ==
  ASSUME NEW b \in KeyboardState, KeyRing(b), b.size > 0, NEW flags,
         ReadFirst(b, flags).first # KEYB_BUFF_SIZE
  PROVE  LET b1 == ReadFirst(b, flags)
         IN  /\ b1.size > 0 /\ b1 \in KeyboardState /\ b1.first < KEYB_BUFF_SIZE
             /\ KeyRing(b1)
             /\ \E a \in 0 .. Len(Keystrokes(b)) :
                  /\ a = Forgotten(flags, Len(Keystrokes(b)))
                  /\ Keystrokes(b1) = SubSeq(Keystrokes(b), a + 1, Len(Keystrokes(b)))
<1>0. KEYB_BUFF_SIZE \in Nat \ {0} /\ b.size \in 0 .. KEYB_BUFF_SIZE
  BY KeyboardAssumption DEF KeyboardState
<1>1. PICK q \in Seq(Keystroke) : q = Keystrokes(b) /\ Len(q) = b.size
  BY KeysAre
<1>r. b.first \in 0 .. KEYB_BUFF_SIZE - 1 /\ b.last = (b.first + b.size) % KEYB_BUFF_SIZE
  BY DEF KeyRing, IsRing
<1> DEFINE b1 == ReadFirst(b, flags)
<1>2. CASE "ONLY_LAST" \notin flags
  <2>1. b1 = b
    BY <1>2 DEF ReadFirst
  <2>2. SubSeq(q, 0 + 1, Len(q)) = q /\ 0 \in 0 .. Len(q)
    BY SubSeqFull
  <2>3. b.first < KEYB_BUFF_SIZE
    BY <1>0, <1>r
  <2>4. 0 = Forgotten(flags, Len(q))
    BY <1>2 DEF Forgotten
  <2> QED BY <1>1, <2>1, <2>2, <2>3, <2>4
<1>3. CASE "ONLY_LAST" \in flags
  <2>0. b.last > 0
    BY <1>3 DEF ReadFirst, KeyboardState
  <2>1. b1 = [b EXCEPT !.first = b.last - 1, !.size = 1]
    BY <1>3, <2>0 DEF ReadFirst
  <2>2. b1.first = b.last - 1 /\ b1.size = 1 /\ b1.buffer = b.buffer /\ b1.last = b.last
    BY <2>1 DEF KeyboardState
  <2>3. b.last - 1 \in 0 .. KEYB_BUFF_SIZE - 1 /\ b.last - 1 \in 0 .. KEYB_BUFF_SIZE
    BY <1>0, <2>0 DEF KeyboardState
  <2> HIDE DEF b1
  <2>4. b1 \in KeyboardState /\ b1.first < KEYB_BUFF_SIZE
    <3>1. PICK f \in 0 .. KEYB_BUFF_SIZE : f = b.last - 1 /\ f < KEYB_BUFF_SIZE
      BY <1>0, <2>3
    <3>2. 1 \in 0 .. KEYB_BUFF_SIZE
      BY <1>0
    <3>3. [b EXCEPT !.first = f, !.size = 1] \in KeyboardState
      BY <3>2 DEF KeyboardState
    <3> QED BY <2>1, <2>2, <3>1, <3>3
  <2>5. PICK m \in 0 .. b.size : m = b.size - 1
    BY <1>0
  <2>6. b.last - 1 = (b.first + m) % KEYB_BUFF_SIZE
    <3>1. b.size \in 1 .. KEYB_BUFF_SIZE
      BY <1>0
    <3> QED BY <1>0, <1>r, <2>0, <2>5, <3>1, LastIndex, Zenon
  <2>7. 1 = b.size - m
    BY <1>0, <2>5
  <2>8. IsRing(SubSeq(q, m + 1, Len(q)), Keystroke, KEYB_BUFF_SIZE,
               b1.buffer, b1.first, b1.last, b1.size)
    <3> DEFINE f == b.last - 1
               o == 1
    <3>1. f = (b.first + m) % KEYB_BUFF_SIZE /\ o = b.size - m
      BY <2>6, <2>7
    <3> HIDE DEF f, o
    <3>2. IsRing(SubSeq(q, m + 1, Len(q)), Keystroke, KEYB_BUFF_SIZE, b.buffer, f, b.last, o)
      BY <1>0, <1>1, <3>1, RingTake DEF KeyRing
    <3> QED BY <2>2, <3>2 DEF f, o
  <2>9. KeyRing(b1) /\ Keystrokes(b1) = SubSeq(q, m + 1, Len(q))
    BY <2>8, KeysAre
  <2>10. m \in 0 .. Len(q) /\ m = Forgotten(flags, Len(q))
    BY <1>1, <1>3, <2>5 DEF Forgotten
  <2>11. /\ m \in 0 .. Len(Keystrokes(b)) /\ m = Forgotten(flags, Len(Keystrokes(b)))
         /\ Keystrokes(b1) = SubSeq(Keystrokes(b), m + 1, Len(Keystrokes(b)))
    BY <1>1, <2>9, <2>10
  <2>12. b1.size > 0
    BY <2>2
  <2> QED BY <2>4, <2>9, <2>11, <2>12 DEF b1
<1> QED BY <1>2, <1>3

\* What a reader with these flags is given of x, and whether the loop ends with it.
ItemFor(flags, x) == IF "ONLY_ASCII" \in flags THEN ASCII_KEY(x) ELSE x
SuitsFor(flags, x) == "ONLY_ASCII" \in flags => ASCII_KEY(x) # NoKey

LEMMA SuitsEnough ==
  ASSUME NEW flags, NEW x
  PROVE  SuitsFor(flags, x) <=> ("ONLY_ASCII" \notin flags \/ x.ascii # NoChar)
<1>1. ASCII_KEY(x) = NoKey <=> x.ascii = NoChar
  BY DEF ASCII_KEY, CHAR, NoKey
<1> QED BY <1>1 DEF SuitsFor

\* From q, the n-th is picked.
PickedFrom(flags, q, n) ==
  /\ "ONLY_LAST" \in flags => n = Len(q)
  /\ n = Len(q) \/ SuitsFor(flags, q[n])
  /\ "ONLY_LAST" \in flags \/ \A i \in 1 .. n - 1 : ~SuitsFor(flags, q[i])

\* From the a-th item of q on, n are taken.
LEMMA PickedAfter ==
  ASSUME NEW flags, NEW q \in Seq(Keystroke), NEW a \in 0 .. Len(q),
         a = IF "ONLY_LAST" \in flags THEN Len(q) - 1 ELSE 0,
         NEW t \in Seq(Keystroke), Len(t) = Len(q) - a, \A i \in 1 .. Len(t) : t[i] = q[a + i],
         NEW n \in 1 .. Len(t), n = Len(t) \/ SuitsFor(flags, t[n]),
         \A i \in 1 .. n - 1 : ~SuitsFor(flags, t[i]),
         NEW j \in 1 .. Len(q), j = a + n
  PROVE  PickedFrom(flags, q, j)
<1>1. CASE "ONLY_LAST" \in flags
  <2>1. j = Len(q)
    BY <1>1
  <2> QED BY <1>1, <2>1 DEF PickedFrom
<1>2. CASE "ONLY_LAST" \notin flags
  <2>1. a = 0 /\ j = n /\ Len(t) = Len(q) /\ n \in 1 .. Len(q)
    BY <1>2
  <2>2. \A i \in 1 .. Len(q) : t[i] = q[i]
    BY <2>1
  <2>3. \A i \in 1 .. n - 1 : i \in 1 .. Len(q)
    OBVIOUS
  <2>4. n = Len(q) \/ SuitsFor(flags, q[n])
    BY <2>1, <2>2
  <2>5. \A i \in 1 .. n - 1 : ~SuitsFor(flags, q[i])
    BY <2>2, <2>3
  <2> QED BY <1>2, <2>1, <2>4, <2>5 DEF PickedFrom
<1> QED BY <1>1, <1>2

LEMMA GetTakes ==
  ASSUME NEW b \in KeyboardState, KeyRing(b), b.size > 0, NEW flags, NEW beyond,
         ReadFirst(b, flags).first # KEYB_BUFF_SIZE
  PROVE  LET r == i8042_get(b, flags, beyond)
             q == Keystrokes(b)
         IN  /\ KeyRing(r.kb)
             /\ \E j \in 1 .. Len(q) :
                  /\ PickedFrom(flags, q, j) /\ r.key = ItemFor(flags, q[j])
                  /\ Keystrokes(r.kb) = IF "CLEAR_BUFFER" \in flags THEN <<>>
                                        ELSE SubSeq(q, j + 1, Len(q))
<1>0. KEYB_BUFF_SIZE \in Nat \ {0} /\ b.size \in Nat /\ b.size # 0
  BY KeyboardAssumption DEF KeyboardState
<1>1. PICK q \in Seq(Keystroke) : q = Keystrokes(b) /\ Len(q) = b.size
  BY KeysAre
<1>2. PICK b1 \in KeyboardState : b1 = ReadFirst(b, flags)
  BY FirstRead
<1>3. b1.size > 0 /\ b1.first < KEYB_BUFF_SIZE /\ KeyRing(b1)
  BY <1>2, FirstRead
<1>4. PICK a \in 0 .. Len(q) :
        /\ a = Forgotten(flags, Len(q))
        /\ Keystrokes(b1) = SubSeq(q, a + 1, Len(q))
  BY <1>1, <1>2, FirstRead
<1>5. PICK t \in Seq(Keystroke) : t = Keystrokes(b1) /\ Len(t) = b1.size
  BY <1>3, KeysAre
<1>6. PICK n \in 1 .. Len(t) :
        n = Taken(b1, flags, beyond) /\ TakenAsAsked(b1, flags, beyond, n)
  BY <1>3, <1>5, TakenType
<1>7. PICK j \in Nat : j = a + n
  OBVIOUS
<1>8. /\ Len(t) = Len(q) - a /\ \A i \in 1 .. Len(t) : t[i] = q[a + i]
      /\ j \in 0 .. Len(q) /\ SubSeq(t, n + 1, Len(t)) = SubSeq(q, j + 1, Len(q))
  <2>1. n \in 0 .. Len(t)
    OBVIOUS
  <2>2. t = SubSeq(q, a + 1, Len(q))
    BY <1>4, <1>5
  <2> QED BY <1>7, <2>1, <2>2, RestOfRest
<1>9. j \in 1 .. Len(q) /\ t[n] = q[j]
  BY <1>7, <1>8
<1>10. \A i \in 1 .. Len(t) : NthKey(b1, i, beyond) = t[i]
  <2>1. ASSUME NEW i \in 1 .. Len(t) PROVE NthKey(b1, i, beyond) = t[i]
    <3>1. i \in 1 .. b1.size /\ b1.first # KEYB_BUFF_SIZE
      BY <1>0, <1>3, <1>5 DEF KeyboardState
    <3>2. NthKey(b1, i, beyond) = b1.buffer[(b1.first + i - 1) % KEYB_BUFF_SIZE]
      BY <3>1 DEF NthKey
    <3>3. t[i] = b1.buffer[(b1.first + i - 1) % KEYB_BUFF_SIZE]
      BY <1>5, <3>1 DEF Keystrokes
    <3> QED BY <3>2, <3>3
  <2> QED BY <2>1
<1>p. PickedFrom(flags, q, j)
  <2>1. n = Len(t) \/ SuitsFor(flags, t[n])
    <3>1. NthKey(b1, n, beyond) = t[n]
      BY <1>10
    <3> QED BY <1>5, <1>6, <3>1, SuitsEnough DEF TakenAsAsked
  <2>2. ASSUME NEW i \in 1 .. n - 1 PROVE ~SuitsFor(flags, t[i])
    <3>1. i \in 1 .. Len(t)
      OBVIOUS
    <3>2. NthKey(b1, i, beyond) = t[i]
      BY <1>10, <3>1
    <3>3. ~("ONLY_ASCII" \notin flags \/ NthKey(b1, i, beyond).ascii # NoChar)
      BY <1>6 DEF TakenAsAsked
    <3> QED BY <3>2, <3>3, SuitsEnough
  <2>3. Len(t) = Len(q) - a /\ \A i \in 1 .. Len(t) : t[i] = q[a + i]
    BY <1>8
  <2>4. \A i \in 1 .. n - 1 : ~SuitsFor(flags, t[i])
    BY <2>2
  <2>5. a = IF "ONLY_LAST" \in flags THEN Len(q) - 1 ELSE 0
    BY <1>4 DEF Forgotten
  <2> QED BY <1>7, <1>9, <2>1, <2>3, <2>4, <2>5, PickedAfter
<1> DEFINE r == i8042_get(b, flags, beyond)
<1>11. r.key = ItemFor(flags, q[j])
  <2>1. NthKey(b1, n, beyond) = q[j]
    BY <1>9, <1>10
  <2> QED BY <1>0, <1>2, <1>6, <2>1 DEF i8042_get, ItemFor
<1>12. CASE "CLEAR_BUFFER" \in flags
  <2>1. r.kb = [b1 EXCEPT !.first = 0, !.last = 0, !.size = 0]
    BY <1>0, <1>2, <1>12 DEF i8042_get
  <2>2. r.kb.buffer = b1.buffer /\ r.kb.first = 0 /\ r.kb.last = 0 /\ r.kb.size = 0
    BY <2>1 DEF KeyboardState
  <2> HIDE DEF r
  <2>3. b1.buffer \in [0 .. KEYB_BUFF_SIZE - 1 -> Keystroke]
    BY DEF KeyboardState
  <2>4. IsRing(<<>>, Keystroke, KEYB_BUFF_SIZE, b1.buffer, 0, 0, 0)
    BY <1>0, <2>3, RingEmpty
  <2>5. KeyRing(r.kb) /\ Keystrokes(r.kb) = <<>>
    <3>1. IsRing(<<>>, Keystroke, KEYB_BUFF_SIZE, r.kb.buffer, r.kb.first, r.kb.last, r.kb.size)
      BY <2>2, <2>4
    <3> QED BY <3>1, KeysAre
  <2> QED BY <1>1, <1>9, <1>p, <1>11, <1>12, <2>5 DEF r
<1>13. CASE "CLEAR_BUFFER" \notin flags
  <2> DEFINE f == (b1.first + n) % KEYB_BUFF_SIZE
             s == b1.size - n
  <2>1. r.kb = [b1 EXCEPT !.first = f, !.size = s]
    BY <1>0, <1>2, <1>6, <1>13 DEF i8042_get
  <2> HIDE DEF r
  <2>2. f = (b1.first + n) % KEYB_BUFF_SIZE /\ s = b1.size - n
    OBVIOUS
  <2> HIDE DEF f, s
  <2>3. r.kb.buffer = b1.buffer /\ r.kb.first = f /\ r.kb.last = b1.last /\ r.kb.size = s
    BY <2>1 DEF KeyboardState
  <2>4. n \in 0 .. b1.size
    BY <1>5
  <2>5. IsRing(SubSeq(t, n + 1, Len(t)), Keystroke, KEYB_BUFF_SIZE, b1.buffer, f, b1.last, s)
    BY <1>0, <1>3, <1>5, <2>2, <2>4, RingTake DEF KeyRing
  <2>6. KeyRing(r.kb) /\ Keystrokes(r.kb) = SubSeq(t, n + 1, Len(t))
    <3>1. IsRing(SubSeq(t, n + 1, Len(t)), Keystroke, KEYB_BUFF_SIZE,
                 r.kb.buffer, r.kb.first, r.kb.last, r.kb.size)
      BY <2>3, <2>5
    <3> QED BY <3>1, KeysAre
  <2> QED BY <1>1, <1>8, <1>9, <1>p, <1>11, <1>13, <2>6 DEF r
<1> QED BY <1>12, <1>13

\* The two parts of s \o t.
LEMMA SplitJoined ==
  ASSUME NEW B, NEW s \in Seq(B), NEW t \in Seq(B), NEW l, l = s \o t, NEW m, m = Len(s)
  PROVE  /\ l \in Seq(B) /\ m \in 0 .. Len(l)
         /\ SubSeq(l, 1, m) = s /\ SubSeq(l, m + 1, Len(l)) = t
<1>0. PICK a \in Nat, b \in Nat : a = Len(s) /\ b = Len(t)
  OBVIOUS
<1>1. l \in Seq(B) /\ Len(l) = a + b
  BY <1>0, ConcatProperties
<1>2. \A i \in 1 .. a + b : l[i] = IF i <= a THEN s[i] ELSE t[i - a]
  BY <1>0, ConcatProperties
<1>3. a \in 0 .. Len(l)
  BY <1>1
<1> DEFINE v == SubSeq(l, 1, a)
           w == SubSeq(l, a + 1, Len(l))
<1>4. v \in Seq(B) /\ Len(v) = a /\ \A i \in 1 .. a : v[i] = l[i]
  BY <1>1, <1>3, FirstOnes
<1>5. w \in Seq(B) /\ Len(w) = Len(l) - a /\ \A i \in 1 .. Len(l) - a : w[i] = l[a + i]
  BY <1>1, <1>3, Rest
<1> HIDE DEF v, w
<1>6. \A i \in 1 .. a : v[i] = s[i]
  <2>1. ASSUME NEW i \in 1 .. a PROVE v[i] = s[i]
    <3>1. i \in 1 .. a + b /\ i <= a
      OBVIOUS
    <3>2. l[i] = s[i]
      BY <1>2, <3>1, Zenon
    <3>3. v[i] = l[i]
      BY <1>4
    <3> QED BY <3>2, <3>3
  <2> QED BY <2>1
<1>7. v = s
  BY <1>0, <1>4, <1>6, SeqEqual
<1>8. Len(w) = b /\ \A i \in 1 .. b : w[i] = t[i]
  <2>1. Len(w) = b /\ Len(l) - a = b
    BY <1>1, <1>5
  <2>2. ASSUME NEW i \in 1 .. b PROVE w[i] = t[i]
    <3>1. PICK j \in 1 .. a + b : j = a + i
      OBVIOUS
    <3>2. ~(j <= a) /\ j - a = i
      BY <3>1
    <3>3. l[j] = t[j - a]
      BY <1>2, <3>2, Zenon
    <3>4. w[i] = l[j]
      BY <1>5, <2>1, <3>1
    <3> QED BY <3>2, <3>3, <3>4
  <2> QED BY <2>1, <2>2
<1>9. w = t
  BY <1>0, <1>5, <1>8, SeqEqual
<1> QED BY <1>0, <1>1, <1>3, <1>7, <1>9 DEF v, w

-----------------------------------------------------------------------------
(***************************************************************************)
(* The keyboard's interrupt and calls, step by step the queue of           *)
(* RingBuffer, as long as nothing was read beyond the array.               *)
(***************************************************************************)
KeysOK == ~astray => KeyRing(kb)

LEMMA KeysTaken ==
  ASSUME NEW flags, NEW q \in Seq(Keystroke), q = Keystrokes(kb), NEW j \in 1 .. Len(q),
         kcall'.flags = flags \cup {"READ"}, PickedFrom(flags, q, j),
         key' = ItemFor(flags, q[j]), Arriving(kb', codes') = Arriving(kb, codes),
         Keystrokes(kb') = IF "CLEAR_BUFFER" \in flags THEN <<>> ELSE SubSeq(q, j + 1, Len(q))
  PROVE  KeyboardBuffer!KeyNext
<1>1. /\ "READ" \in kcall'.flags
      /\ "ONLY_LAST" \in kcall'.flags <=> "ONLY_LAST" \in flags
      /\ "ONLY_ASCII" \in kcall'.flags <=> "ONLY_ASCII" \in flags
      /\ "CLEAR_BUFFER" \in kcall'.flags <=> "CLEAR_BUFFER" \in flags
  OBVIOUS
<1>2. q # <<>>
  OBVIOUS
<1>3. j \in (IF "ONLY_LAST" \in kcall'.flags THEN Len(q) ELSE 1) .. Len(q)
  BY <1>1 DEF PickedFrom
<1>4. \A x : /\ ("ONLY_ASCII" \in kcall'.flags => ASCII_KEY(x) # NoKey) <=> SuitsFor(flags, x)
             /\ (IF "ONLY_ASCII" \in kcall'.flags THEN ASCII_KEY(x) ELSE x) = ItemFor(flags, x)
  BY <1>1 DEF SuitsFor, ItemFor
<1>5. KeyboardBuffer!Pick
  BY <1>1, <1>3, <1>4 DEF KeyboardBuffer!Pick, KeyboardBuffer!From, PickedFrom
<1> QED BY <1>1, <1>2, <1>5 DEF KeyboardBuffer!KeyNext

\* A step that is no read.
LEMMA NotRead ==
  ASSUME kcall'.flags = {} \/ Keystrokes(kb) = <<>>, KeyboardBuffer!Next
  PROVE  KeyboardBuffer!KeyNext
BY DEF KeyboardBuffer!KeyNext

LEMMA NoneTaken ==
  ASSUME NEW all \in Seq(Keystroke), Keystrokes(kb') = all, key' = NoKey
  PROVE  KeyboardBuffer!Take(all)
<1>1. 0 \in 0 .. Len(all)
  OBVIOUS
<1>2. SubSeq(all, 0 + 1, Len(all)) = all /\ SubSeq(all, 1, 0) = <<>>
  BY SubSeqFull, SubSeqEmpty
<1> QED BY <1>1, <1>2 DEF KeyboardBuffer!Take, KeyboardBuffer!From

\* What the buffer keeps are the newest.
LEMMA KeptNewest ==
  ASSUME NEW all
  PROVE  KeyboardBuffer!Kept(all) = Newest(all, KEYB_BUFF_SIZE)
BY DEF KeyboardBuffer!Kept, Newest

\* A key is pressed or released.
LEMMA KeyStep ==
  ASSUME DevInv, kb' = kb, key' = NoKey, kcall' = NoKeyboardCall,
         codes = <<>>, codes' \in Seq(STRING)
  PROVE  KeyboardBuffer!KeyNext
<1>0. kb \in KeyboardState /\ <<>> \in Seq(STRING) /\ Len(<<>>) = 0
  BY DevFacts DEF DevFrame
<1>1. PICK G : Arrived(G, kb.decoder, <<>>) /\ Arriving(kb, <<>>) = G[Len(<<>>)].keys
  BY <1>0, ArrivingRuns
<1>2. Arriving(kb, <<>>) = <<>>
  BY <1>0, <1>1 DEF Arrived
<1>3. PICK s \in Seq(Keystroke) : s = Arriving(kb', codes')
  BY <1>0, ArrivingRuns
<1>4. Len(s) >= Len(<<>>) /\ SubSeq(s, 1, Len(<<>>)) = <<>>
  BY SubSeqEmpty
<1>5. KeyboardBuffer!Next
  BY <1>2, <1>3, <1>4 DEF KeyboardBuffer!Next, KeyboardBuffer!Arrive
<1> QED BY <1>5, NotRead DEF NoKeyboardCall

LEMMA KeyboardInterruptStep ==
  ASSUME DevInv, KeyRing(kb), KeyboardInterrupt
  PROVE  KeyRing(kb') /\ KeyboardBuffer!KeyNext
<1>0. kb \in KeyboardState /\ codes \in Seq(STRING)
  BY DevFacts DEF DevFrame, DevInv
<1>1. PICK n \in 1 .. Len(codes) :
        /\ kb' = i8042_interrupt_handler(kb, SubSeq(codes, 1, n))
        /\ codes' = SubSeq(codes, n + 1, Len(codes))
  BY DEF KeyboardInterrupt
<1>2. key' = NoKey
  BY DEF KeyboardInterrupt
<1>3. PICK read \in Seq(STRING), rest \in Seq(STRING) :
        read = SubSeq(codes, 1, n) /\ rest = SubSeq(codes, n + 1, Len(codes))
  <2>1. n \in 0 .. Len(codes)
    BY <1>0
  <2>2. SubSeq(codes, 1, n) \in Seq(STRING)
    BY <1>0, <2>1, FirstOnes
  <2>3. SubSeq(codes, n + 1, Len(codes)) \in Seq(STRING)
    BY <1>0, <2>1, Rest
  <2> QED BY <2>2, <2>3
<1>4. kb' = i8042_interrupt_handler(kb, read) /\ codes' = rest
  BY <1>1, <1>3
<1>5. Arriving(kb, codes) = Arriving(kb, read) \o Arriving(kb', rest)
  <2>1. Arriving(kb, codes) = Arriving(kb, SubSeq(codes, 1, n))
          \o Arriving(i8042_interrupt_handler(kb, SubSeq(codes, 1, n)),
                      SubSeq(codes, n + 1, Len(codes)))
    BY <1>0, ArrivingRest
  <2> QED BY <1>1, <1>3, <2>1
<1>6. KeyRing(kb') /\ Keystrokes(kb') = Newest(Keystrokes(kb) \o Arriving(kb, read), KEYB_BUFF_SIZE)
  BY <1>0, <1>4, HandlerRing
<1>7. PICK s \in Seq(Keystroke) : s = Arriving(kb, read)
  BY <1>0, ArrivingRuns
<1>8. PICK t \in Seq(Keystroke) : t = Arriving(kb', rest)
  <2>1. kb' \in KeyboardState
    BY <1>0, <1>4, DecodedSteps
  <2> QED BY <2>1, ArrivingRuns
<1>9. PICK q \in Seq(Keystroke) : q = Keystrokes(kb)
  BY KeysAre
<1>10. PICK v \in Seq(Keystroke) : v = Keystrokes(kb')
  BY <1>6, KeysAre
<1>11. PICK l \in Seq(Keystroke) : l = s \o t
  BY ConcatProperties
<1>12. PICK m \in Nat : m = Len(s)
  OBVIOUS
<1>13. m \in 0 .. Len(l) /\ SubSeq(l, 1, m) = s /\ SubSeq(l, m + 1, Len(l)) = t
  BY <1>11, <1>12, SplitJoined
<1>14. KeyboardBuffer!Take(KeyboardBuffer!Kept(q \o s))
  <2>1. KeyboardBuffer!Kept(q \o s) = v
    BY <1>6, <1>7, <1>9, <1>10, KeptNewest
  <2>2. KeyboardBuffer!Take(v)
    BY <1>2, <1>10, NoneTaken
  <2> QED BY <2>1, <2>2
<1>15. l = Arriving(kb, codes) /\ t = Arriving(kb', codes')
  BY <1>4, <1>5, <1>7, <1>8, <1>11
<1>16. KeyboardBuffer!Receive
  <2>1. t = KeyboardBuffer!From(l, m)
    BY <1>13 DEF KeyboardBuffer!From
  <2>2. KeyboardBuffer!Take(KeyboardBuffer!Kept(q \o SubSeq(l, 1, m)))
    BY <1>13, <1>14
  <2> QED BY <1>9, <1>13, <1>15, <2>1, <2>2 DEF KeyboardBuffer!Receive
<1>17. kcall'.flags = {}
  BY DEF KeyboardInterrupt, NoKeyboardCall
<1>18. KeyboardBuffer!Next
  BY <1>16 DEF KeyboardBuffer!Next
<1> QED BY <1>6, <1>17, <1>18, NotRead

LEMMA SameArriving ==
  ASSUME NEW a, NEW b, a.decoder = b.decoder, NEW s
  PROVE  Arriving(a, s) = Arriving(b, s)
BY DEF Arriving

LEMMA KeyboardSendStep ==
  ASSUME DevInv, KeyRing(kb), KeyboardSend
  PROVE  KeyRing(kb') /\ KeyboardBuffer!KeyNext
<1>0. kb \in KeyboardState
  BY DevFacts DEF DevFrame
<1>1. PICK keys \in PushedBack :
        kb' = i8042_send(kb, keys) /\ kcall' = [NoKeyboardCall EXCEPT !.keys = keys]
  BY DEF KeyboardSend
<1>2. keys \in Seq(Keystroke) /\ key' = NoKey /\ codes' = codes
  BY DevicesAssumption DEF KeyboardSend
<1>3. /\ KeyRing(kb')
      /\ Keystrokes(kb') = Newest(Keystrokes(kb) \o Stamped(kb, keys), KEYB_BUFF_SIZE)
  BY <1>0, <1>1, <1>2, SendRing
<1>4. PICK v \in Seq(Keystroke) : v = Keystrokes(kb')
  BY <1>3, KeysAre
<1>5. KeyboardBuffer!Take(KeyboardBuffer!Kept(Keystrokes(kb) \o Stamped(kb, keys)))
  <2>1. KeyboardBuffer!Kept(Keystrokes(kb) \o Stamped(kb, keys)) = v
    BY <1>3, <1>4, KeptNewest
  <2>2. KeyboardBuffer!Take(v)
    BY <1>2, <1>4, NoneTaken
  <2> QED BY <2>1, <2>2
<1>6. Arriving(kb', codes') = Arriving(kb, codes)
  <2>1. kb'.decoder = kb.decoder
    BY <1>0, <1>1, <1>2, SendType
  <2> QED BY <1>2, <2>1, SameArriving
<1>7. kcall'.keys = keys /\ kcall'.flags = {}
  BY <1>1 DEF NoKeyboardCall
<1>8. Stamped(kb', keys) = Stamped(kb, keys)
  <2>1. kb'.decoder = kb.decoder
    BY <1>0, <1>1, <1>2, SendType
  <2> QED BY <2>1 DEF Stamped
<1>9. KeyboardBuffer!Put
  BY <1>5, <1>6, <1>7, <1>8 DEF KeyboardBuffer!Put
<1>10. KeyboardBuffer!Next
  BY <1>9 DEF KeyboardBuffer!Next
<1> QED BY <1>3, <1>7, <1>10, NotRead

LEMMA ClearRing ==
  ASSUME NEW b \in KeyboardState, b.size > 0, NEW flags, "CLEAR_BUFFER" \in flags, NEW beyond
  PROVE  KeyRing(i8042_get(b, flags, beyond).kb)
<1>0. KEYB_BUFF_SIZE \in Nat \ {0} /\ b.size # 0
  BY KeyboardAssumption DEF KeyboardState
<1>1. PICK b1 : b1 = ReadFirst(b, flags)
  OBVIOUS
<1>2. PICK r : r = i8042_get(b, flags, beyond).kb
  OBVIOUS
<1>3. r = [b1 EXCEPT !.first = 0, !.last = 0, !.size = 0]
  BY <1>0, <1>1, <1>2 DEF i8042_get
<1>4. b1 = b \/ \E f : b1 = [b EXCEPT !.first = f, !.size = 1]
  BY <1>1 DEF ReadFirst
<1>5. r.buffer = b.buffer /\ r.first = 0 /\ r.last = 0 /\ r.size = 0
  BY <1>3, <1>4 DEF KeyboardState
<1>6. b.buffer \in [0 .. KEYB_BUFF_SIZE - 1 -> Keystroke]
  BY DEF KeyboardState
<1>7. IsRing(<<>>, Keystroke, KEYB_BUFF_SIZE, b.buffer, 0, 0, 0)
  BY <1>0, <1>6, RingEmpty
<1>8. IsRing(<<>>, Keystroke, KEYB_BUFF_SIZE, r.buffer, r.first, r.last, r.size)
  BY <1>5, <1>7
<1> QED BY <1>2, <1>8, KeysAre

LEMMA KeyboardRecvStep ==
  ASSUME DevInv, KeysOK, KeyboardRecv
  PROVE  KeysOK' /\ (astray \/ astray' \/ KeyboardBuffer!KeyNext)
<1>0. kb \in KeyboardState /\ codes \in Seq(STRING)
  BY DevFacts DEF DevFrame, DevInv
<1>1. PICK flags \in GetFlags, beyond \in {NoKey, CHAR("K_RCTRL_UP")} :
        /\ kb' = i8042_get(kb, flags, beyond).kb /\ key' = i8042_get(kb, flags, beyond).key
        /\ kcall' = [NoKeyboardCall EXCEPT !.flags = flags \cup {"READ"}]
        /\ astray' = (\/ kb.size > 0 /\ ReadFirst(kb, flags).first = KEYB_BUFF_SIZE
                      \/ astray /\ ~("CLEAR_BUFFER" \in flags /\ kb.size > 0))
  BY DEF KeyboardRecv
<1>2. codes' = codes
  BY DEF KeyboardRecv
<1>3. SUFFICES ASSUME ~astray'
               PROVE  KeyRing(kb') /\ (astray \/ KeyboardBuffer!KeyNext)
  BY DEF KeysOK
<1>4. /\ ~(kb.size > 0 /\ ReadFirst(kb, flags).first = KEYB_BUFF_SIZE)
      /\ ~astray \/ ("CLEAR_BUFFER" \in flags /\ kb.size > 0)
  BY <1>1, <1>3, Zenon
<1>5. CASE astray
  BY <1>0, <1>1, <1>4, <1>5, ClearRing
<1>6. CASE ~astray
  <2>1. KeyRing(kb)
    BY <1>6 DEF KeysOK
  <2>2. PICK q \in Seq(Keystroke) : q = Keystrokes(kb) /\ Len(q) = kb.size
    BY <2>1, KeysAre
  <2>3. Arriving(kb', codes') = Arriving(kb, codes)
    <3>1. kb'.decoder = kb.decoder
      <4>1. beyond \in Keystroke
        BY KeyTypes
      <4> QED BY <1>0, <1>1, <4>1, GetType
    <3> QED BY <1>2, <3>1, SameArriving
  <2>4. CASE kb.size = 0
    <3>1. kb' = kb /\ key' = NoKey
      BY <1>1, <2>4 DEF i8042_get
    <3>2. q = <<>>
      BY <2>2, <2>4, EmptySeq
    <3>3. PICK s \in Seq(Keystroke) : s = Arriving(kb, codes)
      BY <1>0, ArrivingRuns
    <3>4. Len(s) >= Len(s) /\ SubSeq(s, 1, Len(s)) = s
      BY SubSeqFull
    <3>5. KeyboardBuffer!Next
      BY <2>3, <3>1, <3>3, <3>4 DEF KeyboardBuffer!Next, KeyboardBuffer!Arrive
    <3> QED BY <2>1, <2>2, <3>1, <3>2, <3>5, NotRead
  <2>5. CASE kb.size # 0
    <3>1. kb.size > 0 /\ ReadFirst(kb, flags).first # KEYB_BUFF_SIZE
      BY <1>0, <1>4, <2>5, KeyboardAssumption DEF KeyboardState
    <3>2. /\ KeyRing(kb')
          /\ \E j \in 1 .. Len(q) :
               /\ PickedFrom(flags, q, j) /\ key' = ItemFor(flags, q[j])
               /\ Keystrokes(kb') = IF "CLEAR_BUFFER" \in flags THEN <<>>
                                    ELSE SubSeq(q, j + 1, Len(q))
      <4>1. LET r == i8042_get(kb, flags, beyond)
            IN  /\ KeyRing(r.kb)
                /\ \E j \in 1 .. Len(Keystrokes(kb)) :
                     /\ PickedFrom(flags, Keystrokes(kb), j)
                     /\ r.key = ItemFor(flags, Keystrokes(kb)[j])
                     /\ Keystrokes(r.kb) =
                          IF "CLEAR_BUFFER" \in flags THEN <<>>
                          ELSE SubSeq(Keystrokes(kb), j + 1, Len(Keystrokes(kb)))
        BY <1>0, <2>1, <3>1, GetTakes
      <4> QED BY <1>1, <2>2, <4>1
    <3>3. kcall'.flags = flags \cup {"READ"}
      BY <1>1 DEF NoKeyboardCall
    <3> QED BY <2>2, <2>3, <3>2, <3>3, KeysTaken
  <2> QED BY <2>4, <2>5
<1> QED BY <1>5, <1>6

LEMMA KeysNext ==
  ASSUME DevInv, KeysOK, [DevNext]_devVars
  PROVE  KeysOK' /\ (astray \/ astray' \/ [KeyboardBuffer!KeyNext]_(KeyboardBuffer!vars))
<1>0. codes' \in Seq(STRING)
  BY KeyboardNext
<1>1. CASE PressKey \/ ReleaseKey
  <2>1. kb' = kb /\ key' = NoKey /\ kcall' = NoKeyboardCall /\ astray' = astray /\ codes = <<>>
    BY <1>1 DEF PressKey, ReleaseKey, Sent
  <2>2. KeysOK'
    BY <2>1 DEF KeysOK
  <2> QED BY <1>0, <2>1, <2>2, KeyStep
<1>2. CASE KeyboardInterrupt
  <2>1. astray' = astray
    BY <1>2 DEF KeyboardInterrupt
  <2> QED BY <1>2, <2>1, KeyboardInterruptStep DEF KeysOK
<1>3. CASE KeyboardSend
  <2>1. astray' = astray
    BY <1>3 DEF KeyboardSend
  <2> QED BY <1>3, <2>1, KeyboardSendStep DEF KeysOK
<1>4. CASE KeyboardRecv
  BY <1>4, KeyboardRecvStep
<1>5. CASE UNCHANGED <<kb, codes, key, astray>>
  <2>1. KeysOK'
    BY <1>5 DEF KeysOK
  <2>2. UNCHANGED KeyboardBuffer!vars
    BY <1>5 DEF KeyboardBuffer!vars
  <2> QED BY <2>1, <2>2
<1> QED BY <1>1, <1>2, <1>3, <1>4, <1>5 DEF DevNext, sys__device_open,
     sys__device_close, sys__set_default, sys__device_lock, sys__device_unlock, ThreadCall,
     k_memory_fault, ByteArrives, TransmitterEmpty, UartInterrupt, UartSend, UartSetConf,
     UartRecv, Call, devVars, keyboardVars

\* i8042_init keeps no keystroke.
LEMMA InitEmpty ==
  ASSUME NEW seq \in Seq(STRING), NEW r, r = i8042_init(seq)
  PROVE  SameBuffer(KeyboardBefore, r.kb)
<1> DEFINE start == [kb |-> KeyboardBefore, stopped |-> FALSE, codes |-> <<>>]
<1>0. start \in Initialising
  BY BeforeType DEF Initialising
<1>1. PICK h \in [0 .. Len(seq) -> Initialising] :
        /\ h[0] = start /\ FoldLeft(EmptyCode, start, seq) = h[Len(seq)]
        /\ \A i \in 1 .. Len(seq) : h[i] = EmptyCode(h[i - 1], seq[i])
  BY <1>0, EmptySteps
<1>2. r = h[Len(seq)]
  BY <1>1 DEF i8042_init, EmptyCode, FoldLeft, MapThenFoldSet
<1>3. PICK n \in Nat : n = Len(seq) /\ \A i \in 1 .. n : seq[i] \in STRING
  OBVIOUS
<1> DEFINE T == {i \in Nat : SameBuffer(KeyboardBefore, h[i].kb)}
<1>4. 0 \in T
  BY <1>1 DEF SameBuffer
<1>5. ASSUME NEW i \in 1 .. n, i - 1 \in T PROVE i \in T
  <2> DEFINE x == h[i - 1]
             y == h[i]
             c == seq[i]
  <2>1. x \in Initialising /\ c \in STRING /\ y = EmptyCode(x, c) /\ i \in Nat
    BY <1>1, <1>3
  <2>2. SameBuffer(KeyboardBefore, x.kb)
    BY <1>5
  <2> HIDE DEF x, y, c
  <2>3. SameBuffer(x.kb, y.kb)
    <3>1. CASE x.stopped
      BY <2>1, <3>1 DEF EmptyCode, Initialising, SameBuffer
    <3>2. CASE ~x.stopped
      BY <2>1, <3>2 DEF EmptyCode, Initialising, KeyboardState, SameBuffer
    <3> QED BY <3>1, <3>2
  <2>4. SameBuffer(KeyboardBefore, y.kb)
    BY <2>2, <2>3 DEF SameBuffer
  <2> QED BY <2>1, <2>4 DEF y
<1>6. n \in T
  <2> HIDE DEF T
  <2>1. \A i \in 0 .. n : i \in T
    BY <1>4, <1>5, Upto
  <2> QED BY <2>1
<1> QED BY <1>2, <1>3, <1>6

LEMMA KeysInit == DevInit => KeysOK
<1> SUFFICES ASSUME DevInit PROVE KeysOK
  OBVIOUS
<1>1. PICK boot \in BootCodes : kb = i8042_init(boot.codes).kb
  BY DEF DevInit
<1>2. boot.codes \in Seq(STRING)
  BY BootAssumption
<1>3. SameBuffer(KeyboardBefore, kb)
  BY <1>1, <1>2, InitEmpty
<1>4. KeyRing(KeyboardBefore)
  <2>1. /\ KeyboardBefore.buffer \in [0 .. KEYB_BUFF_SIZE - 1 -> Keystroke]
        /\ KeyboardBefore.first = 0 /\ KeyboardBefore.last = 0 /\ KeyboardBefore.size = 0
    BY KeyTypes DEF KeyboardBefore
  <2>2. IsRing(<<>>, Keystroke, KEYB_BUFF_SIZE, KeyboardBefore.buffer, 0, 0, 0)
    BY <2>1, RingEmpty, KeyboardAssumption
  <2>3. IsRing(<<>>, Keystroke, KEYB_BUFF_SIZE, KeyboardBefore.buffer,
               KeyboardBefore.first, KeyboardBefore.last, KeyboardBefore.size)
    BY <2>1, <2>2
  <2> QED BY <2>3, KeysAre
<1> QED BY <1>3, <1>4, SameStrokes DEF KeysOK

\* Beside DevInv, the invariant of the refinement: indices and sizes agree.
LEMMA RingsInvariant == DevSpec => [](SerialOK /\ KeysOK)
<1>1. DevInv /\ SerialOK /\ KeysOK /\ [DevNext]_devVars => SerialOK' /\ KeysOK'
  BY SerialNext, KeysNext
<1> QED BY <1>1, DevInvariant, SerialInit, KeysInit, PTL DEF DevSpec

(***************************************************************************)
(* Keystrokes and bytes are read, and bytes transmitted, in the order they *)
(* came, each once, for buffers of any size: every step of the drivers is  *)
(* a step of RingBuffer's queue, from what its variables are mapped to.    *)
(***************************************************************************)
THEOREM BuffersAlwaysInOrder == DevSpec => BuffersInOrder
<1>1. DevInv /\ SerialOK /\ KeysOK /\ [DevNext]_devVars =>
        /\ astray \/ astray' \/ [KeyboardBuffer!KeyNext]_(KeyboardBuffer!vars)
        /\ [InputBuffer!Next]_(InputBuffer!vars)
        /\ [OutputBuffer!Next]_(OutputBuffer!vars)
  BY SerialNext, KeysNext DEF SerialSteps
<1> QED BY <1>1, DevInvariant, RingsInvariant, PTL DEF DevSpec, BuffersInOrder
=============================================================================
