-------------------------- MODULE ThreadsProofs ---------------------------
(***************************************************************************)
(* The invariants of Threads hold for any number of descriptors, processes,*)
(* priorities, words of rdy_mask and ids, and for any programs.            *)
(***************************************************************************)
EXTENDS Threads, KThreadProofs

\* Programs never have a handle of the idle thread, nor one with id 0, which is the
\* id of a freed descriptor.
ProgHandle == (Desc \ {Idle}) \X (Id \ {0})

(***************************************************************************)
(* The inductive invariant.  The properties are not inductive on their     *)
(* own: that an ASSERT does not fail needs the idle thread in a ready      *)
(* queue, the ids of allocated descriptors to be in use and different, and *)
(* a process that is gone to have no thread to count.  GInv is the part    *)
(* that is left when threads are also created in processes that are gone   *)
(* and ready threads are left waiting for the next call (messages.c).      *)
(***************************************************************************)
GInv ==
  /\ Good(k) /\ Runs(k)
  /\ k.ids.last_id <= MaxIds
  /\ handles \subseteq ProgHandle
  /\ joining \in [Desc -> ProgHandle \cup {NoHandle}]

IInv == GInv /\ Sound(k) /\ Top(k)

LEMMA RunsFacts ==
  ASSUME NEW x, Good(x), Runs(x)
  PROVE  /\ x \in KState /\ x.ids.last_id \in Nat
         /\ Idle \in x.all_threads /\ x.all_threads \subseteq Desc
         /\ x.active_thread \in x.all_threads /\ x.active_thread \in Desc
         /\ x.state[x.active_thread] = ACTIVE
         /\ \A t \in x.all_threads : x.id[t] \in Id \ {0}
         /\ \A t \in Desc : x.id[t] # 0 => t \in x.all_threads
<1>1. /\ x \in KState /\ x.ids \in UniqueIdState /\ IdleOK(x) /\ IdsOK(x)
  BY DEF Good, Consistent, KState
<1>2. x.ids.last_id \in Nat
  BY <1>1 DEF UniqueIdState, Id
<1>3. \A t \in x.all_threads : x.id[t] \in 1 .. x.ids.last_id
  BY <1>1 DEF IdsOK
<1>4. \A t \in x.all_threads : x.id[t] \in Id \ {0}
  BY <1>2, <1>3 DEF Id
<1>5. \A t \in Desc : x.id[t] # 0 => t \in x.all_threads
  BY <1>1 DEF IdsOK
<1>6. x.all_threads \subseteq Desc
  BY <1>1 DEF KState
<1> QED BY <1>1, <1>2, <1>4, <1>5, <1>6 DEF IdleOK, Runs

(***************************************************************************)
(* What a call of thread.c does to the thread subsystem, seen by whoever   *)
(* keeps threads in queues of its own.                                     *)
(***************************************************************************)
SoundCall(x, r) ==
  /\ Good(r) /\ Runs(r)
  /\ Sound(x) => Sound(r)
  /\ Top(x) => Top(r)
  /\ \E t \in Desc \cup {NULL} : Frame(x, r, t)

LEMMA NoChange ==
  ASSUME NEW x, Good(x), Runs(x)
  PROVE  SoundCall(x, x)
<1>1. x \in KState /\ x.ref_cnt \in [Desc -> Int]
  BY DEF Good, Consistent, KState
<1>2. \A w \in WaitQueue : x.q[wait_q(w)] = list_find_and_remove(x.q[wait_q(w)], NULL)
  BY <1>1, NobodyLeaves
<1>3. \A v \in Desc : ~RefDropped(x, x, v)
  BY <1>1 DEF RefDropped
<1>4. Frame(x, x, NULL)
  BY <1>2, <1>3, KThreadAssumption DEF Frame
<1> QED BY <1>4 DEF SoundCall

\* One reference fewer to t, which may be gone; nothing else has changed.
Collected(x, t, r) ==
  /\ SameLists(x, r) /\ r.proc = x.proc /\ r.procs = x.procs /\ r.thr_count = x.thr_count
  /\ r.all_threads \subseteq x.all_threads /\ x.all_threads \subseteq r.all_threads \cup {t}
  /\ \A v \in r.all_threads : r.id[v] = x.id[v]
  /\ \A v \in Desc : r.ref_cnt[v] = IF v = t THEN x.ref_cnt[v] - 1 ELSE x.ref_cnt[v]

\* The branch of sys__wait_for_thread that returns an exit status.
LEMMA CollectOK ==
  ASSUME Good(k), Runs(k), NEW t \in k.all_threads, k.state[t] = PASSIVE, t # Idle
  PROVE  /\ SoundCall(k, Collect(t)) /\ Collect(t).ids.last_id = k.ids.last_id
         /\ Collected(k, t, Collect(t))
<1> DEFINE rc == [k.ref_cnt EXCEPT ![t] = @ - 1]
           k1 == [k EXCEPT !.ref_cnt[t] = @ - 1]
           r  == Collect(t)
<1>1. /\ Consistent(k) /\ k \in KState /\ RefsOK(k) /\ IdsOK(k)
      /\ t \in Desc \ {Idle} /\ t # k.active_thread
  BY RunsFacts DEF Good, Consistent, ACTIVE, PASSIVE
<1>2. rc \in [Desc -> Int] /\ k1 = [k EXCEPT !.ref_cnt = rc]
      /\ \A v \in Desc : rc[v] = IF v = t THEN k.ref_cnt[v] - 1 ELSE k.ref_cnt[v]
  BY <1>1 DEF KState
<1>3. r = IF k1.ref_cnt[t] = 0 THEN kthread_remove_descriptor(k1, t) ELSE k1
  BY DEF Collect
<1> HIDE DEF rc, k1, r
<1>4. /\ k1 \in KState /\ SameLists(k, k1) /\ k1.all_threads = k.all_threads
      /\ k1.id = k.id /\ k1.ids = k.ids /\ k1.assert = k.assert /\ k1.procs = k.procs
      /\ k1.thr_count = k.thr_count /\ k1.ref_cnt = rc /\ k1.proc = k.proc
  BY <1>1, <1>2 DEF KState, SameLists
<1>5. Consistent(k1) /\ IdsOK(k1)
  BY <1>1, <1>4, SameListsConsistent DEF IdsOK
<1>6. k.q[join_queue(t)] = <<>> /\ k.ref_cnt[t] >= 1 /\ k.ref_cnt[t] \in Int
  BY <1>1 DEF RefsOK, KState
<1>7. ~Queued(k, t)
  BY <1>1 DEF Queued, Consistent, QueuesOK, Belongs, PASSIVE, READY, WAIT
<1>8. /\ Good(r) /\ SameLists(k, r) /\ r.assert = k.assert /\ r.procs = k.procs
      /\ r.thr_count = k.thr_count /\ r.ref_cnt = rc
      /\ r.ids.last_id = k.ids.last_id /\ OtherIds(r) = OtherIds(k)
      /\ r.all_threads \subseteq k.all_threads /\ k.all_threads \subseteq r.all_threads \cup {t}
      /\ r.proc = k.proc /\ \A v \in r.all_threads : r.id[v] = k.id[v]
  <2>1. CASE k1.ref_cnt[t] = 0
    <3>1. ~Queued(k1, t) /\ k1.state[t] # ACTIVE
      BY <1>4, <1>7 DEF Queued, SameLists, PASSIVE, ACTIVE
    <3>2. Removed(k1, t, r)
      BY <1>1, <1>3, <1>4, <1>5, <2>1, <3>1, RemoveDescriptorOK
    <3>3. RefsOK(r)
      BY <1>1, <1>2, <1>4, <1>6, <2>1, <3>2 DEF Removed, SameLists, RefsOK
    <3> QED BY <1>4, <3>2, <3>3 DEF Removed, Good, SameLists, OtherIds
  <2>2. CASE k1.ref_cnt[t] # 0
    <3>1. RefsOK(k1)
      BY <1>1, <1>2, <1>4, <1>6, <2>2 DEF RefsOK, SameLists
    <3> QED BY <1>3, <1>4, <1>5, <2>2, <3>1 DEF Good, OtherIds
  <2> QED BY <2>1, <2>2
<1>9. (Sound(k) => Sound(r)) /\ (Top(k) => Top(r)) /\ Runs(r)
  BY <1>1, <1>8 DEF Sound, ProcsOK, Top, Runs, SameLists
<1>10. Frame(k, r, NULL)
  <2>1. \A w \in WaitQueue : r.q[wait_q(w)] = list_find_and_remove(k.q[wait_q(w)], NULL)
    BY <1>1, <1>8, NobodyLeaves DEF SameLists
  <2>2. \A v \in Desc : /\ Awake(r, v) <=> Awake(k, v)
                        /\ Waiting(r, v) <=> Waiting(k, v)
    BY <1>8 DEF SameLists, Awake, Waiting
  <2>3. \A v \in Desc : RefDropped(k, r, v) <=> v = t
    BY <1>1, <1>2, <1>8 DEF RefDropped, KState
  <2>4. ~Waiting(r, t)
    BY <1>7, <1>8 DEF Waiting, Queued, Queue, SameLists
  <2> QED BY <1>1, <1>8, <2>1, <2>2, <2>3, <2>4, KThreadAssumption DEF Frame, Live
<1>11. SoundCall(k, r)
  BY <1>8, <1>9, <1>10 DEF SoundCall
<1>12. Collected(k, t, r)
  BY <1>2, <1>8 DEF Collected
<1> QED BY <1>8, <1>11, <1>12 DEF r

\* sys__cancel_thread: the second kthread_cancel finds t in no queue of another module.
LEMMA CancelTwiceOK ==
  ASSUME Good(k), Runs(k), NEW t \in Desc \ {Idle}, k.state[t] \in {READY, WAIT}
  PROVE  SoundCall(k, CancelTwice(t)) /\ CancelTwice(t).ids.last_id = k.ids.last_id
<1> DEFINE k1 == kthread_cancel(k, t, -1)
           r  == kthread_cancel(k1, t, -1)
<1>1. Cancelled(k, t, k1)
  <2>1. -1 \in Int
    OBVIOUS
  <2> QED BY <2>1, CancelOK
<1> HIDE DEF k1
<1>2. Cancelled(k1, t, r)
  <2>1. -1 \in Int /\ Good(k1)
    BY <1>1 DEF Cancelled
  <2> QED BY <2>1, CancelOK
<1> HIDE DEF r
<1>3. Frame(k, k1, t) /\ Frame(k1, r, t)
  BY <1>1, <1>2 DEF Cancelled
<1>4. /\ k.ref_cnt \in [Desc -> Int] /\ k1.ref_cnt \in [Desc -> Int] /\ r.ref_cnt \in [Desc -> Int]
      /\ k \in KState /\ QueuesOK(k) /\ k.all_threads \subseteq Desc
  BY <1>1, <1>2 DEF Cancelled, Good, Consistent, KState
<1>5. RefDropped(k, k1, t) /\ RefDropped(k, r, t)
  BY <1>1, <1>2, <1>4 DEF Cancelled, RefDropped
<1>6. \A v \in Desc \ {t} : ~RefDropped(k, r, v)
  BY <1>1, <1>2, <1>4 DEF Cancelled, RefDropped
<1>7. \A w \in WaitQueue : r.q[wait_q(w)] = list_find_and_remove(k.q[wait_q(w)], t)
  <2> TAKE w \in WaitQueue
  <2>1. wait_q(w) \in Queue /\ k.q[wait_q(w)] \in Seq(Desc) /\ NoDup(k.q[wait_q(w)])
    BY <1>4, QueueNames DEF KState, QueuesOK
  <2>2. k1.q[wait_q(w)] = list_find_and_remove(k.q[wait_q(w)], t)
    BY <1>3 DEF Frame
  <2>3. t \notin ToSet(k1.q[wait_q(w)])
    BY <2>1, <2>2, RemoveList
  <2>4. r.q[wait_q(w)] = list_find_and_remove(k1.q[wait_q(w)], t)
    BY <1>3 DEF Frame
  <2> QED BY <2>2, <2>3, <2>4 DEF list_find_and_remove
<1>8. \A v \in Desc : Live(r, v) => Live(k, v) \/ v \in r.all_threads \ k.all_threads
  <2>1. r.all_threads \subseteq k1.all_threads /\ k1.all_threads \subseteq k.all_threads
    BY <1>1, <1>2 DEF Cancelled
  <2> QED BY <1>3, <2>1 DEF Frame
<1>9. Waiting(k, t) => ~Live(r, t)
  <2>1. Waiting(k, t) => ~Live(k1, t)
    BY <1>3 DEF Frame
  <2>2. Live(r, t) => Live(k1, t)
    BY <1>2, <1>3 DEF Frame, Cancelled
  <2> QED BY <2>1, <2>2
<1>10. \A v \in Desc : Awake(k, v) => Awake(r, v) \/ v = k.active_thread \/ RefDropped(k, r, v)
  BY <1>1, <1>2, <1>5 DEF Cancelled
<1>11. \A v \in Desc : RefDropped(k, r, v) => ~Waiting(r, v)
  <2>1. ~Waiting(k1, t)
    BY <1>3, <1>5 DEF Frame
  <2>2. ~Waiting(r, t)
    BY <1>2, <2>1 DEF Cancelled
  <2> QED BY <1>6, <2>2
<1>12. \A v \in k.all_threads \ r.all_threads : RefDropped(k, r, v)
  <2>1. \A v \in k.all_threads \ k1.all_threads : RefDropped(k, k1, v)
    BY <1>3 DEF Frame
  <2>2. \A v \in k1.all_threads \ r.all_threads : RefDropped(k1, r, v)
    BY <1>3 DEF Frame
  <2>3. \A v \in k.all_threads \ r.all_threads : v = t
    BY <1>1, <1>2, <1>4, <2>1, <2>2 DEF Cancelled
  <2> QED BY <1>5, <2>3
<1>13. Frame(k, r, t)
  <2>1. OtherIds(r) = OtherIds(k)
    BY <1>3 DEF Frame
  <2> QED BY <1>7, <1>8, <1>9, <1>10, <1>11, <1>12, <2>1 DEF Frame
<1>14. SoundCall(k, r) /\ r.ids.last_id = k.ids.last_id
  BY <1>1, <1>2, <1>13 DEF Cancelled, SoundCall
<1>15. CancelTwice(t) = r
  BY DEF CancelTwice, r, k1
<1> QED BY <1>14, <1>15

-----------------------------------------------------------------------------
LEMMA InitInv ==
  Init => IInv /\ OtherIds(k) = {} /\ \A w \in WaitQueue : k.q[wait_q(w)] = <<>>
<1> SUFFICES ASSUME Init
             PROVE  IInv /\ OtherIds(k) = {} /\ \A w \in WaitQueue : k.q[wait_q(w)] = <<>>
  OBVIOUS
<1> DEFINE k0 == kthreads_init
<1>1. /\ Settled(k0) /\ Good(k0) /\ Sound(k0) /\ k0.ids.last_id = 1 /\ k0.all_threads = {Idle}
      /\ k0.procs = {KernelProc} /\ OtherIds(k0) = {}
      /\ \A w \in WaitQueue : k0.q[wait_q(w)] = <<>>
  BY InitOK, QueueNames DEF Settled
<1>2. k = kthread_start_process(k0, Main, MainProc, THR_DEFAULT_PRIO)
  BY DEF Init
<1> HIDE DEF k0
<1>3. k0.ids.last_id + 1 < MASK_BITS /\ THR_DEFAULT_PRIO \in Int
  BY <1>1, ThreadsAssumption, MaskBitsFact DEF Prio
<1>4. Main \in Desc \ k0.all_threads /\ MainProc \in Proc \ k0.procs
  BY <1>1, ThreadsAssumption
<1>5. Started(k0, Main, k) /\ Sound(k)
  BY <1>1, <1>2, <1>3, <1>4, StartProcessOK
<1>6. Good(k) /\ Top(k) /\ Runs(k) /\ OtherIds(k) = {} /\ k.ids.last_id <= MaxIds
  BY <1>1, <1>5, TopRuns, ThreadsAssumption DEF Started, Settled, Frame
<1>7. \A w \in WaitQueue : k.q[wait_q(w)] = <<>>
  BY <1>1, <1>5, NoDupEmpty DEF Started, Frame, list_find_and_remove
<1> QED BY <1>5, <1>6, <1>7 DEF IInv, GInv, Init

\* A handle that is valid names an allocated descriptor, not the idle thread's.
LEMMA ValidHandle ==
  ASSUME Good(k), Runs(k), NEW h \in ProgHandle, Valid(h)
  PROVE  h[1] \in k.all_threads /\ h[1] \in Desc \ {Idle}
BY RunsFacts DEF ProgHandle, Valid

LEMMA WaitArgType ==
  ASSUME GInv, NEW h \in WaitArg
  PROVE  h \in ProgHandle
<1>1. Self \in Desc
  BY RunsFacts DEF GInv, Self
<1> QED BY <1>1 DEF GInv, WaitArg

LEMMA StartedCall ==
  ASSUME NEW x, Good(x), NEW t, NEW r, Started(x, t, r), Sound(x) => Sound(r)
  PROVE  SoundCall(x, r)
BY TopRuns DEF Started, Settled, SoundCall

\* Every call keeps the invariant, and leaves the queues of other modules alone.
LEMMA NextGInv ==
  ASSUME GInv, [Next]_vars
  PROVE  GInv' /\ SoundCall(k, k')
<1>1. /\ Good(k) /\ Runs(k) /\ k.ids.last_id \in Nat /\ k.ids.last_id <= MaxIds
      /\ Idle \in k.all_threads /\ Self \in k.all_threads /\ Self \in Desc
      /\ k.id[Self] \in Id \ {0}
  BY RunsFacts DEF GInv, Self
<1>2. handles \subseteq ProgHandle /\ joining \in [Desc -> ProgHandle \cup {NoHandle}]
  BY DEF GInv
<1>3. MoreThreads => k.ids.last_id + 1 < MASK_BITS /\ k.ids.last_id + 1 <= MaxIds
  BY <1>1, ThreadsAssumption, MaskBitsFact DEF MoreThreads
<1>4. ASSUME NEW t \in FreeDesc(k), MoreThreads, Started(k, t, k'), Sound(k) => Sound(k'),
             handles' = handles \cup {<<t, k'.id[t]>>},
             joining' = [joining EXCEPT ![t] = NoHandle]
      PROVE  GInv' /\ SoundCall(k, k')
  <2>1. SoundCall(k, k')
    BY <1>1, <1>4, StartedCall
  <2>2. t \in Desc \ {Idle} /\ k'.id[t] \in Id \ {0}
    BY <1>1, <1>3, <1>4 DEF FreeDesc, Id, Started
  <2>3. <<t, k'.id[t]>> \in ProgHandle
    BY <2>2 DEF ProgHandle
  <2> QED BY <1>1, <1>2, <1>3, <1>4, <2>1, <2>2, <2>3 DEF GInv, SoundCall, Started
<1>5. CASE sys__create_thread
  <2>1. PICK t \in FreeDesc(k), prio \in UserPrio :
          /\ k' = kthreads_schedule(kthread_create(k, t, prio, k.proc[Self]))
          /\ handles' = handles \cup {<<t, k'.id[t]>>}
          /\ joining' = [joining EXCEPT ![t] = NoHandle]
    BY <1>5 DEF sys__create_thread
  <2>2. /\ MoreThreads /\ k.proc[Self] \in k.procs /\ prio \in Int
        /\ t \in Desc \ k.all_threads
    BY <1>5, ThreadsAssumption DEF sys__create_thread, FreeToCall, UserCall, FreeDesc
  <2>3. k.proc[Self] \in Proc
    BY <1>1, RunsFacts DEF KState
  <2>4. Started(k, t, k') /\ (Sound(k) => Sound(k'))
    BY <1>1, <1>3, <2>1, <2>2, <2>3, CreateThreadOK
  <2> QED BY <1>4, <2>1, <2>2, <2>4
<1>6. CASE sys__start_program
  <2>1. PICK t \in FreeDesc(k), pr \in FreeProc(k), prio \in UserPrio :
          /\ k' = kthread_start_process(k, t, pr, StartPrio(prio))
          /\ handles' = handles \cup {<<t, k'.id[t]>>}
          /\ joining' = [joining EXCEPT ![t] = NoHandle]
    BY <1>6 DEF sys__start_program
  <2>2. /\ MoreThreads /\ pr \in Proc \ k.procs /\ StartPrio(prio) \in Int
        /\ t \in Desc \ k.all_threads
    BY <1>6, ThreadsAssumption
       DEF sys__start_program, FreeDesc, FreeProc, StartPrio, Prio
  <2>3. Started(k, t, k') /\ (Sound(k) => Sound(k'))
    BY <1>1, <1>3, <2>1, <2>2, StartProcessOK
  <2> QED BY <1>4, <2>1, <2>2, <2>3
<1>7. CASE sys__thread_exit
  <2>1. PICK status \in ExitStatus : k' = kthread_cancel(k, Self, status)
    BY <1>7 DEF sys__thread_exit
  <2>2. status \in Int /\ Self \in Desc \ {Idle}
    BY <1>1, <1>7, ThreadsAssumption DEF sys__thread_exit, FreeToCall, UserCall
  <2>3. Cancelled(k, Self, k')
    BY <1>1, <2>1, <2>2, CancelOK
  <2>4. SoundCall(k, k') /\ k'.ids.last_id = k.ids.last_id
    BY <1>1, <2>3 DEF Cancelled, SoundCall
  <2> QED BY <1>1, <1>2, <1>7, <2>4 DEF GInv, SoundCall, sys__thread_exit
<1>8. CASE sys__thread_self
  <2>1. <<Self, k.id[Self]>> \in ProgHandle
    BY <1>1, <1>8 DEF ProgHandle, sys__thread_self, FreeToCall, UserCall
  <2> QED BY <1>1, <1>2, <1>8, <2>1, NoChange DEF GInv, sys__thread_self
<1>9. CASE WaitGone
  BY <1>1, <1>2, <1>9, NoChange DEF GInv, WaitGone
<1>10. CASE WaitBlock
  <2>1. PICK h \in WaitArg :
          /\ Valid(h) /\ k.state[h[1]] # PASSIVE
          /\ k' = kthreads_schedule(
                    kthread_enqueue([k EXCEPT !.ref_cnt[h[1]] = @ + 1], Self, join_queue(h[1])))
          /\ joining' = [joining EXCEPT ![Self] = h]
    BY <1>10 DEF WaitBlock
  <2>2. h \in ProgHandle /\ h[1] \in k.all_threads
    BY <1>1, <2>1, WaitArgType, ValidHandle
  <2>3. k.active_thread # Idle
    BY <1>10 DEF WaitBlock, UserCall, Self
  <2>4. Settled(k') /\ k'.ids = k.ids /\ Frame(k, k', NULL) /\ (Sound(k) => Sound(k'))
    BY <1>1, <2>1, <2>2, <2>3, BlockOK DEF Self
  <2>5. SoundCall(k, k')
    BY <2>4, TopRuns DEF SoundCall, Settled
  <2>6. handles' = handles
    BY <1>10 DEF WaitBlock
  <2> QED BY <1>1, <1>2, <2>1, <2>2, <2>4, <2>5, <2>6 DEF GInv, SoundCall
<1>11. CASE WaitCollect
  <2>1. PICK h \in WaitArg : Valid(h) /\ k.state[h[1]] = PASSIVE /\ k' = Collect(h[1])
    BY <1>11 DEF WaitCollect
  <2>2. h \in ProgHandle /\ h[1] \in k.all_threads /\ h[1] # Idle
    BY <1>1, <2>1, WaitArgType, ValidHandle
  <2>3. SoundCall(k, k') /\ k'.ids.last_id = k.ids.last_id
    BY <1>1, <2>1, <2>2, CollectOK
  <2> QED BY <1>1, <1>2, <1>11, <2>3 DEF GInv, SoundCall, WaitCollect
<1>12. CASE sys__cancel_thread
  <2>1. PICK h \in handles :
          /\ Valid(h) /\ k.state[h[1]] \in {READY, WAIT} /\ k' = CancelTwice(h[1])
          /\ joining' = [joining EXCEPT ![h[1]] = NoHandle]
    BY <1>12 DEF sys__cancel_thread
  <2>2. h[1] \in Desc \ {Idle}
    BY <1>1, <1>2, <2>1, ValidHandle
  <2>3. SoundCall(k, k') /\ k'.ids.last_id = k.ids.last_id
    BY <1>1, <2>1, <2>2, CancelTwiceOK
  <2> QED BY <1>1, <1>2, <1>12, <2>1, <2>3 DEF GInv, SoundCall, sys__cancel_thread
<1>13. CASE WaitPoll \/ CancelRefused \/ sys__suspend \/ UNCHANGED vars
  <2>1. k' = k /\ handles' = handles /\ joining' = joining
    BY <1>13 DEF WaitPoll, CancelRefused, sys__suspend, vars
  <2> QED BY <1>1, <1>2, <2>1, NoChange DEF GInv
<1> QED
  BY <1>5, <1>6, <1>7, <1>8, <1>9, <1>10, <1>11, <1>12, <1>13 DEF Next

LEMMA NextInv ==
  ASSUME IInv, [Next]_vars
  PROVE  IInv' /\ \E t \in Desc \cup {NULL} : Frame(k, k', t)
<1>1. GInv' /\ SoundCall(k, k')
  BY NextGInv DEF IInv
<1> QED BY <1>1 DEF IInv, SoundCall

LEMMA InvInvariant == Spec => []IInv
<1>1. Init => IInv
  BY InitInv
<1>2. IInv /\ [Next]_vars => IInv'
  BY NextInv
<1> QED BY <1>1, <1>2, PTL DEF Spec

(***************************************************************************)
(* The end of every call of another module that moves threads between      *)
(* queues and then calls kthreads_schedule.                                *)
(***************************************************************************)
LEMMA RescheduleG ==
  ASSUME GInv, NEW r, Good(r), SameResources(k, r),
         k' = kthreads_schedule(r), UNCHANGED <<handles, joining>>
  PROVE  GInv' /\ Rescheduled(r, k')
<1>1. Rescheduled(r, k')
  BY ScheduleSettles
<1>2. k'.ids.last_id = k.ids.last_id
  BY <1>1 DEF SameResources, Rescheduled
<1> QED BY <1>1, <1>2, TopRuns DEF GInv, Rescheduled, Settled

LEMMA RescheduleOK ==
  ASSUME IInv, NEW r, Good(r), Sound(r), SameResources(k, r),
         k' = kthreads_schedule(r), UNCHANGED <<handles, joining>>
  PROVE  IInv' /\ Rescheduled(r, k')
BY RescheduleG DEF IInv, Rescheduled, Settled

-----------------------------------------------------------------------------
LEMMA GInvType ==
  ASSUME GInv
  PROVE  TypeOK
<1>1. ProgHandle \subseteq Handle
  BY DEF ProgHandle, Handle
<1> QED BY <1>1 DEF TypeOK, GInv, Good, Consistent

\* What the state formulae of Threads say of k is in the inductive invariant.
LEMMA InvImplies ==
  ASSUME IInv
  PROVE  TypeOK /\ QueuesConsistent /\ HighestPriorityRuns /\ NoAssertFails /\ WaitersHoldReferences
<1>1. /\ Good(k) /\ Sound(k) /\ Consistent(k) /\ k \in KState /\ Top(k)
      /\ QueuesOK(k) /\ MaskOK(k) /\ ActiveOK(k) /\ RefsOK(k) /\ IdsOK(k)
  BY DEF IInv, GInv, Good, Consistent
<1>2. TypeOK
  BY GInvType DEF IInv
<1>3. QueuesConsistent
  BY <1>1 DEF QueuesConsistent, QueuesOK, MaskOK, NoDup, Belongs
<1>4. HighestPriorityRuns
  BY <1>1 DEF HighestPriorityRuns, Top, ActiveOK, Self
<1>5. NoAssertFails
  BY <1>1 DEF NoAssertFails, Running, Sound, IdsOK
<1>6. WaitersHoldReferences
  BY <1>1 DEF WaitersHoldReferences, RefsOK
<1> QED BY <1>2, <1>3, <1>4, <1>5, <1>6

(***************************************************************************)
(* Type correctness: in particular kthread_create clamps every priority a  *)
(* program asks for, and a queue field names a queue.                      *)
(***************************************************************************)
THEOREM TypeCorrect == Spec => []TypeOK
BY InvInvariant, InvImplies, PTL

(***************************************************************************)
(* The queues, the descriptors and the bit mask of the ready list agree    *)
(* after every system call.                                                *)
(***************************************************************************)
THEOREM QueuesStayConsistent == Spec => []QueuesConsistent
BY InvInvariant, InvImplies, PTL

(***************************************************************************)
(* The kernel always returns to a thread of the highest priority that is   *)
(* ready, and no other thread is marked active.                            *)
(***************************************************************************)
THEOREM HighestPriorityAlwaysRuns == Spec => []HighestPriorityRuns
BY InvInvariant, InvImplies, PTL

(***************************************************************************)
(* No ASSERT of thread.c or of the id allocator fails, even though         *)
(* sys__cancel_thread calls kthread_cancel twice.                          *)
(***************************************************************************)
THEOREM NoAssertEverFails == Spec => []NoAssertFails
BY InvInvariant, InvImplies, PTL

(***************************************************************************)
(* No descriptor is freed while a thread waits in its join queue, and none *)
(* is kept without a reference.                                            *)
(***************************************************************************)
THEOREM WaitersAlwaysHoldReferences == Spec => []WaitersHoldReferences
BY InvInvariant, InvImplies, PTL

-----------------------------------------------------------------------------
(***************************************************************************)
(* No system call changes the order of the threads that stay in a queue,   *)
(* and whoever enters one is behind those that were there.                 *)
(***************************************************************************)

\* What QueuesAreFifo says of one queue, s before and u after the call.
InOrder(s, u) ==
  \A a \in ToSet(s), b \in ToSet(u) :
    a \in ToSet(u) /\ a # b /\ (b \in ToSet(s) => Before(s, a, b)) => Before(u, a, b)

LEMMA SameInOrder ==
  ASSUME NEW s
  PROVE  InOrder(s, s)
BY DEF InOrder

LEMMA EmptyInOrder ==
  ASSUME NEW s
  PROVE  InOrder(s, <<>>)
BY NoDupEmpty DEF InOrder

\* Threads that were not in s are put behind it.
LEMMA ConcatInOrder ==
  ASSUME NEW s \in Seq(Desc), NEW c \in Seq(Desc), NoDup(s), ToSet(c) \cap ToSet(s) = {}
  PROVE  InOrder(s, s \o c)
<1> DEFINE u == s \o c
<1>1. /\ u \in Seq(Desc) /\ Len(u) = Len(s) + Len(c) /\ Len(s) \in Nat /\ Len(c) \in Nat
      /\ \A i \in 1 .. Len(u) : u[i] = IF i <= Len(s) THEN s[i] ELSE c[i - Len(s)]
  BY ConcatGet
<1>2. ToSet(u) = ToSet(s) \cup ToSet(c)
  BY ConcatList
<1> HIDE DEF u
<1> SUFFICES ASSUME NEW a \in ToSet(s), NEW b \in ToSet(u), a # b,
                    b \in ToSet(s) => Before(s, a, b)
             PROVE  Before(u, a, b)
  BY DEF InOrder, u
<1>3. CASE b \in ToSet(s)
  <2>1. PICK i \in 1 .. Len(s), j \in 1 .. Len(s) : i < j /\ s[i] = a /\ s[j] = b
    BY <1>3 DEF Before
  <2>2. i \in 1 .. Len(u) /\ j \in 1 .. Len(u) /\ u[i] = a /\ u[j] = b
    BY <1>1, <2>1
  <2> QED BY <2>1, <2>2 DEF Before
<1>4. CASE b \notin ToSet(s)
  <2>1. PICK i \in 1 .. Len(s) : s[i] = a
    BY InToSet
  <2>2. PICK j \in 1 .. Len(c) : c[j] = b
    BY <1>2, <1>4, InToSet
  <2>3. i \in 1 .. Len(u) /\ u[i] = a
    BY <1>1, <2>1
  <2>4. /\ Len(s) + j \in 1 .. Len(u) /\ ~(Len(s) + j <= Len(s)) /\ Len(s) + j - Len(s) = j
        /\ i < Len(s) + j
    BY <1>1
  <2>5. u[Len(s) + j] = b
    BY <1>1, <2>2, <2>4
  <2> QED BY <2>3, <2>4, <2>5 DEF Before
<1> QED BY <1>3, <1>4

LEMMA AppendInOrder ==
  ASSUME NEW s \in Seq(Desc), NoDup(s), NEW x \in Desc, x \notin ToSet(s)
  PROVE  InOrder(s, Append(s, x))
<1>1. <<x>> \in Seq(Desc) /\ ToSet(<<x>>) = {x} /\ Append(s, x) = s \o <<x>>
  BY DEF ToSet
<1> QED BY <1>1, ConcatInOrder

LEMMA TailInOrder ==
  ASSUME NEW s \in Seq(Desc), s # <<>>, NoDup(s)
  PROVE  InOrder(s, Tail(s))
<1> DEFINE u == Tail(s)
<1>1. /\ u \in Seq(Desc) /\ Len(u) = Len(s) - 1 /\ Len(s) \in Nat \ {0}
      /\ \A i \in 1 .. Len(u) : u[i] = s[i + 1]
      /\ Head(s) = s[1]
  OBVIOUS
<1>2. ToSet(u) = ToSet(s) \ {s[1]}
  BY <1>1, TailList
<1> HIDE DEF u
<1> SUFFICES ASSUME NEW a \in ToSet(u), NEW b \in ToSet(u), Before(s, a, b)
             PROVE  Before(u, a, b)
  BY <1>2 DEF InOrder, u
<1>3. PICK i \in 1 .. Len(s), j \in 1 .. Len(s) : i < j /\ s[i] = a /\ s[j] = b
  BY DEF Before
<1>4. i # 1
  BY <1>2, <1>3
<1>5. i - 1 \in 1 .. Len(u) /\ j - 1 \in 1 .. Len(u) /\ i - 1 < j - 1
  BY <1>1, <1>3, <1>4
<1>6. u[i - 1] = a /\ u[j - 1] = b
  BY <1>1, <1>3, <1>5
<1> QED BY <1>5, <1>6 DEF Before

LEMMA RemoveInOrder ==
  ASSUME NEW s \in Seq(Desc), NoDup(s), NEW x
  PROVE  InOrder(s, list_find_and_remove(s, x))
<1> DEFINE u == list_find_and_remove(s, x)
<1>1. CASE x \notin ToSet(s)
  BY <1>1, SameInOrder DEF list_find_and_remove
<1>2. CASE x \in ToSet(s)
  <2> DEFINE n == IndexOf(s, x)
  <2>1. n \in 1 .. Len(s) /\ s[n] = x
    BY <1>2, RemoveGet
  <2>3. /\ Len(u) = Len(s) - 1 /\ Len(s) \in Nat
        /\ \A i \in 1 .. Len(u) : u[i] = IF i < n THEN s[i] ELSE s[i + 1]
    BY <1>2, RemoveGet
  <2> HIDE DEF n
  <2>4. u \in Seq(Desc) /\ ToSet(u) = ToSet(s) \ {x}
    BY RemoveList
  <2> HIDE DEF u
  <2> SUFFICES ASSUME NEW a \in ToSet(u), NEW b \in ToSet(u), Before(s, a, b)
               PROVE  Before(u, a, b)
    BY <2>4 DEF InOrder, u
  <2>5. PICK i \in 1 .. Len(s), j \in 1 .. Len(s) : i < j /\ s[i] = a /\ s[j] = b
    BY DEF Before
  <2>6. i # n /\ j # n
    BY <2>1, <2>4, <2>5
  <2> DEFINE At(m) == IF m < n THEN m ELSE m - 1
  <2>7. ASSUME NEW m \in 1 .. Len(s), m # n
        PROVE  At(m) \in 1 .. Len(u) /\ u[At(m)] = s[m]
    <3>1. CASE m < n
      BY <2>1, <2>3, <3>1
    <3>2. CASE m > n
      <4>1. m - 1 \in 1 .. Len(u) /\ ~(m - 1 < n) /\ m - 1 + 1 = m
        BY <2>1, <2>3, <3>2
      <4>2. u[m - 1] = s[m]
        BY <2>3, <4>1
      <4> QED BY <2>1, <3>2, <4>1, <4>2
    <3> QED BY <2>1, <2>7, <3>1, <3>2
  <2>8. At(i) < At(j)
    BY <2>1, <2>5, <2>6
  <2> QED BY <2>5, <2>6, <2>7, <2>8 DEF Before
<1> QED BY <1>1, <1>2 DEF u

\* Two moves after each other, unless a thread leaves in the first one and is back
\* in the second.
LEMMA InOrderTwice ==
  ASSUME NEW s, NEW u, NEW v, InOrder(s, u), InOrder(u, v),
         ToSet(s) \cap ToSet(v) \subseteq ToSet(u)
  PROVE  InOrder(s, v)
<1> SUFFICES ASSUME NEW a \in ToSet(s), NEW b \in ToSet(v), a \in ToSet(v), a # b,
                    b \in ToSet(s) => Before(s, a, b)
             PROVE  Before(v, a, b)
  BY DEF InOrder
<1>1. a \in ToSet(u)
  OBVIOUS
<1>2. b \in ToSet(u) => Before(u, a, b)
  BY <1>1 DEF InOrder
<1> QED BY <1>1, <1>2 DEF InOrder

-----------------------------------------------------------------------------
InOrderAll(x, r) == \A Q \in Queue : InOrder(x.q[Q], r.q[Q])

Within(x, r) == \A Q \in Queue : ToSet(r.q[Q]) \subseteq ToSet(x.q[Q])

\* The threads that kthreads_schedule may put in a queue.
ActiveIn(x) == {v \in Desc : x.state[v] = ACTIVE}

LEMMA AllTwice ==
  ASSUME NEW x, NEW y, NEW r, InOrderAll(x, y), InOrderAll(y, r),
         \A Q \in Queue : ToSet(x.q[Q]) \cap ToSet(r.q[Q]) \subseteq ToSet(y.q[Q])
  PROVE  InOrderAll(x, r)
BY InOrderTwice DEF InOrderAll

\* The first of a ready queue becomes active.
LEMMA ActivateInOrder ==
  ASSUME NEW x, NEW p \in Prio, x \in KState, QueuesOK(x), x.q[ready_q(p)] # <<>>, MaskOK(x)
  PROVE  LET r == ActivateFirst(x, p)
         IN  /\ InOrderAll(x, r) /\ Within(x, r)
             /\ r.active_thread \in ToSet(x.q[ready_q(p)])
<1> DEFINE Q == ready_q(p)
           t == Head(x.q[Q])
           r == ActivateFirst(x, p)
<1>1. Q \in Queue /\ x.q \in [Queue -> Seq(Desc)] /\ \A R \in Queue : NoDup(x.q[R])
  BY QueueNames DEF KState, QueuesOK
<1>2. Activated(x, p, t, r)
  BY ActivateFields
<1> HIDE DEF r
<1>3. \A R \in Queue : r.q[R] = IF R = Q THEN Tail(x.q[Q]) ELSE x.q[R]
  BY <1>1, <1>2 DEF Activated
<1>4. r.active_thread = t /\ t \in ToSet(x.q[Q]) /\ ToSet(Tail(x.q[Q])) \subseteq ToSet(x.q[Q])
      /\ InOrder(x.q[Q], Tail(x.q[Q]))
  BY <1>1, <1>2, TailList, TailInOrder DEF Activated
<1> HIDE DEF Q, t
<1>5. InOrderAll(x, r) /\ Within(x, r)
  BY <1>3, <1>4, SameInOrder DEF InOrderAll, Within
<1> QED BY <1>4, <1>5 DEF r, Q

\* What kthreads_schedule does to the queues.
ScheduledInOrder(x, r) ==
  /\ InOrderAll(x, r)
  /\ \A Q \in Queue : ToSet(r.q[Q]) \subseteq ToSet(x.q[Q]) \cup ActiveIn(x)
  /\ r.active_thread = x.active_thread \/ Queued(x, r.active_thread)
  /\ Top(x) => r = x

LEMMA DispatchInOrder ==
  ASSUME NEW x \in KState, QueuesOK(x), MaskOK(x), IdleOK(x), NobodyActive(x)
  PROVE  LET r == ActivateFirst(x, kthread_ready_list_highest(x))
         IN  InOrderAll(x, r) /\ Within(x, r) /\ Queued(x, r.active_thread)
<1> DEFINE h == kthread_ready_list_highest(x)
<1>1. \E p \in Prio : x.q[ready_q(p)] # <<>>
  <2>1. PICK R \in ReadyQueue : Idle \in ToSet(x.q[R])
    BY KThreadAssumption DEF IdleOK, NobodyActive
  <2>2. PICK p \in Prio : R = ready_q(p)
    BY QueueNames
  <2> QED BY <2>1, <2>2, NoDupEmpty
<1>2. h \in Prio /\ x.q[ready_q(h)] # <<>> /\ ready_q(h) \in Queue
  BY <1>1, HighestLevel, QueueNames
<1> HIDE DEF h
<1>3. LET r == ActivateFirst(x, h)
      IN  InOrderAll(x, r) /\ Within(x, r) /\ r.active_thread \in ToSet(x.q[ready_q(h)])
  BY <1>2, ActivateInOrder
<1> QED BY <1>2, <1>3 DEF Queued, h

LEMMA ScheduleInOrder ==
  ASSUME NEW x, Consistent(x)
  PROVE  ScheduledInOrder(x, kthreads_schedule(x))
<1> DEFINE h == kthread_ready_list_highest(x)
           r == kthreads_schedule(x)
<1>1. /\ x \in KState /\ QueuesOK(x) /\ MaskOK(x) /\ ActiveOK(x) /\ IdleOK(x)
      /\ x.q \in [Queue -> Seq(Desc)]
  BY DEF Consistent, KState
<1>2. h \in Int /\ ((\A p \in Prio : x.q[ready_q(p)] = <<>>) => h = -1)
      /\ ((\E p \in Prio : x.q[ready_q(p)] # <<>>) => h \in Prio /\ x.q[ready_q(h)] # <<>>)
  BY <1>1, HighestLevel DEF Prio
<1>3. CASE ~CurrIsActive(x)
  <2>1. NobodyActive(x) /\ ~Top(x)
    BY <1>1, <1>3, KThreadAssumption DEF NobodyActive, ActiveOK, CurrIsActive, Top
  <2>2. h >= 0
    BY <1>1, <2>1, ActivateScheduled
  <2>3. r = ActivateFirst(x, h)
    <3> HIDE DEF h
    <3>1. ~(h < 0)
      BY <1>2, <2>2
    <3> QED BY <1>3, <3>1 DEF kthreads_schedule, MustSwitch, h
  <2> HIDE DEF r
  <2>4. InOrderAll(x, r) /\ Within(x, r) /\ Queued(x, r.active_thread)
    BY <1>1, <2>1, <2>3, DispatchInOrder
  <2>5. ScheduledInOrder(x, r)
    BY <2>1, <2>4 DEF ScheduledInOrder, Within
  <2> QED BY <2>5 DEF r
<1>4. CASE CurrIsActive(x) /\ MustSwitch(x)
  <2> DEFINE t  == x.active_thread
             Q  == ready_q(x.prio[t])
             x1 == kthread_move_to_ready(x, t)
             r1 == ActivateFirst(x1, kthread_ready_list_highest(x1))
  <2>1. r = r1
    BY <1>4 DEF kthreads_schedule
  <2>2. x1 \in KState /\ QueuesOK(x1) /\ MaskOK(x1) /\ IdleOK(x1) /\ NobodyActive(x1)
    BY <1>4, PreemptReady
  <2>3. t \in Desc /\ x.state[t] = ACTIVE /\ x.prio[t] \in Prio
    BY <1>1, <1>4 DEF CurrIsActive, KState
  <2>4. Q \in Queue /\ ~Queued(x, t)
    BY <1>1, <2>3, QueueNames DEF Queued, QueuesOK, Belongs, ACTIVE, READY, WAIT
  <2>5. PutLast(x, t, Q, READY, x1)
    BY <1>1, <2>3, MoveToReadyLast
  <2>6. InOrderAll(x1, r1) /\ Within(x1, r1) /\ Queued(x1, r1.active_thread)
    BY <2>2, DispatchInOrder
  <2> HIDE DEF x1, r1, r, Q
  <2>7. InOrderAll(x, x1)
    <3>1. InOrder(x.q[Q], Append(x.q[Q], t))
      BY <1>1, <2>3, <2>4, AppendInOrder DEF QueuesOK, Queued
    <3> QED BY <2>5, <3>1, SameInOrder DEF PutLast, InOrderAll
  <2>8. \A R \in Queue : ToSet(x1.q[R]) \subseteq ToSet(x.q[R]) \cup {t} /\ ToSet(x.q[R]) \subseteq ToSet(x1.q[R])
    BY <2>5 DEF PutLast
  <2>9. InOrderAll(x, r1)
    BY <2>6, <2>7, <2>8, AllTwice
  <2>10. \A R \in Queue : ToSet(r1.q[R]) \subseteq ToSet(x.q[R]) \cup ActiveIn(x)
    BY <2>3, <2>6, <2>8 DEF Within, ActiveIn
  <2>11. r1.active_thread = t \/ Queued(x, r1.active_thread)
    BY <2>6, <2>8 DEF Queued
  <2>12. ~Top(x)
    <3>1. h > x.prio[t]
      BY <1>4 DEF MustSwitch
    <3>2. h \in Prio /\ x.q[ready_q(h)] # <<>>
      <4> HIDE DEF h
      <4>1. h # -1
        BY <1>2, <2>3, <3>1 DEF Prio
      <4> QED BY <1>2, <4>1
    <3> HIDE DEF h
    <3>3. Top(x) => h <= x.prio[t]
      BY <3>2 DEF Top
    <3> QED BY <1>2, <2>3, <3>1, <3>3 DEF Prio
  <2> HIDE DEF t
  <2>13. ScheduledInOrder(x, r1)
    BY <2>9, <2>10, <2>11, <2>12 DEF ScheduledInOrder, t
  <2> QED BY <2>1, <2>13 DEF r
<1>5. CASE CurrIsActive(x) /\ ~MustSwitch(x)
  <2>1. r = x
    BY <1>5 DEF kthreads_schedule
  <2>2. ScheduledInOrder(x, x)
    BY SameInOrder DEF ScheduledInOrder, InOrderAll
  <2> QED BY <2>1, <2>2
<1> QED BY <1>3, <1>4, <1>5

\* Moves that make nobody active, and then kthreads_schedule.
LEMMA ThenScheduleInOrder ==
  ASSUME NEW x, Consistent(x), NEW y, Consistent(y), InOrderAll(x, y),
         ActiveIn(y) \subseteq ActiveIn(x)
  PROVE  InOrderAll(x, kthreads_schedule(y))
<1> DEFINE r == kthreads_schedule(y)
<1>1. ScheduledInOrder(y, r)
  BY ScheduleInOrder
<1> HIDE DEF r
<1>2. \A Q \in Queue : ToSet(x.q[Q]) \cap ActiveIn(x) = {}
  BY DEF Consistent, QueuesOK, Belongs, ActiveIn, ACTIVE, READY, WAIT
<1>3. \A Q \in Queue : ToSet(x.q[Q]) \cap ToSet(r.q[Q]) \subseteq ToSet(y.q[Q])
  BY <1>1, <1>2 DEF ScheduledInOrder
<1>4. InOrderAll(x, r)
  BY <1>1, <1>3, AllTwice DEF ScheduledInOrder
<1> QED BY <1>4 DEF r

-----------------------------------------------------------------------------
LEMMA SameAll ==
  ASSUME NEW x, NEW r, r.q = x.q
  PROVE  InOrderAll(x, r)
BY SameInOrder DEF InOrderAll

\* A thread that is in no queue enters Q.
LEMMA EnterInOrder ==
  ASSUME NEW x \in KState, QueuesOK(x), NEW t \in Desc, ~Queued(x, t), NEW Q \in Queue,
         NEW r, \A R \in Queue : r.q[R] = IF R = Q THEN Append(x.q[R], t) ELSE x.q[R]
  PROVE  InOrderAll(x, r)
<1>1. x.q[Q] \in Seq(Desc) /\ NoDup(x.q[Q]) /\ t \notin ToSet(x.q[Q])
  BY DEF KState, QueuesOK, Queued
<1>2. InOrder(x.q[Q], Append(x.q[Q], t))
  BY <1>1, AppendInOrder
<1> QED BY <1>2, SameInOrder DEF InOrderAll

LEMMA CreateInOrder ==
  ASSUME NEW x, Good(x), x.ids.last_id + 1 < MASK_BITS,
         NEW t \in Desc \ x.all_threads, NEW prio \in Int, NEW proc \in Proc
  PROVE  LET r == kthread_create(x, t, prio, proc)
         IN  Consistent(r) /\ InOrderAll(x, r) /\ ActiveIn(r) \subseteq ActiveIn(x)
<1> DEFINE x1 == NewDescriptor(x, t, prio, proc)
           r  == kthread_move_to_ready(x1, t)
           Q  == ready_q(x1.prio[t])
<1>1. kthread_create(x, t, prio, proc) = r
  BY DEF kthread_create, NewDescriptor
<1>2. /\ x \in KState /\ Consistent(x) /\ QueuesOK(x) /\ MaskOK(x) /\ ActiveOK(x) /\ IdleOK(x)
      /\ RefsOK(x) /\ IdsOK(x) /\ x.q[join_queue(t)] = <<>>
  BY DEF Good, Consistent, RefsOK
<1>3. Created(x, t, proc, r)
  BY <1>1, <1>2, CreateOK
<1>4. Initialised(x, t, proc, x1)
  BY <1>2, NewDescriptorFields
<1> HIDE DEF x1
<1>5. x1 \in KState /\ x1.q = x.q
  BY <1>4 DEF Initialised
<1>6. PutLast(x1, t, Q, READY, r) /\ Q \in Queue
  BY <1>5, MoveToReadyLast, QueueNames DEF KState
<1>7. ~Queued(x, t)
  BY <1>2 DEF Queued, QueuesOK, Belongs
<1> HIDE DEF r, Q
<1>8. InOrderAll(x, r)
  BY <1>2, <1>5, <1>6, <1>7, EnterInOrder DEF PutLast
<1>9. Consistent(r)
  BY <1>3 DEF Created, Added, Good
<1>10. ActiveIn(r) \subseteq ActiveIn(x)
  BY <1>3 DEF Created, Added, ActiveIn, ACTIVE, READY
<1> QED BY <1>1, <1>8, <1>9, <1>10

LEMMA StartProcessInOrder ==
  ASSUME NEW x, Good(x), x.ids.last_id + 1 < MASK_BITS,
         NEW t \in Desc \ x.all_threads, NEW prio \in Int, NEW pr \in Proc
  PROVE  InOrderAll(x, kthread_start_process(x, t, pr, prio))
<1> DEFINE x0 == [x EXCEPT !.thr_count[pr] = 0]
           x1 == kthread_create(x0, t, prio, pr)
           x2 == [x1 EXCEPT !.procs = @ \cup {pr}]
<1>1. kthread_start_process(x, t, pr, prio) = kthreads_schedule(x2)
  BY DEF kthread_start_process
<1>2. Consistent(x) /\ x \in KState /\ RefsOK(x) /\ IdsOK(x)
  BY DEF Good, Consistent
<1>3. /\ x0 \in KState /\ SameLists(x, x0) /\ x0.all_threads = x.all_threads
      /\ x0.id = x.id /\ x0.ids = x.ids /\ x0.ref_cnt = x.ref_cnt
  <2> DEFINE tc == [x.thr_count EXCEPT ![pr] = 0]
  <2>1. tc \in [Proc -> Int] /\ x0 = [x EXCEPT !.thr_count = tc]
    BY <1>2 DEF KState
  <2> HIDE DEF tc, x0
  <2> QED BY <1>2, <2>1 DEF KState, SameLists
<1> HIDE DEF x0
<1>4. Good(x0)
  <2>1. Consistent(x0)
    BY <1>2, <1>3, SameListsConsistent
  <2> QED BY <1>2, <1>3, <2>1 DEF Good, RefsOK, IdsOK, SameLists
<1>5. Consistent(x1) /\ InOrderAll(x0, x1) /\ ActiveIn(x1) \subseteq ActiveIn(x0)
  BY <1>3, <1>4, CreateInOrder
<1> HIDE DEF x1
<1>6. /\ x2 \in KState /\ SameLists(x1, x2) /\ x2.all_threads = x1.all_threads
  BY <1>5 DEF Consistent, KState, SameLists
<1> HIDE DEF x2
<1>7. Consistent(x2)
  BY <1>5, <1>6, SameListsConsistent
<1>8. InOrderAll(x, x2) /\ ActiveIn(x2) \subseteq ActiveIn(x)
  BY <1>3, <1>5, <1>6 DEF SameLists, InOrderAll, ActiveIn
<1> QED BY <1>1, <1>2, <1>7, <1>8, ThenScheduleInOrder

LEMMA BlockInOrder ==
  ASSUME NEW x, Good(x), Runs(x), NEW t \in x.all_threads, x.active_thread # Idle
  PROVE  InOrderAll(x, kthreads_schedule(kthread_enqueue([x EXCEPT !.ref_cnt[t] = @ + 1],
                                                          x.active_thread, join_queue(t))))
<1> DEFINE w  == x.active_thread
           J  == join_queue(t)
           x1 == [x EXCEPT !.ref_cnt[t] = @ + 1]
           x2 == kthread_enqueue(x1, w, J)
<1>1. /\ Consistent(x) /\ x \in KState /\ QueuesOK(x) /\ t \in Desc
      /\ w \in Desc \ {Idle} /\ w \in x.all_threads /\ x.state[w] = ACTIVE
      /\ J \in BlockedQueue /\ J \in Queue
  BY QueueNames DEF Good, Consistent, Runs, KState
<1>2. x1 \in KState /\ SameLists(x, x1) /\ x1.all_threads = x.all_threads
  <2> DEFINE rc == [x.ref_cnt EXCEPT ![t] = @ + 1]
  <2>1. rc \in [Desc -> Int] /\ x1 = [x EXCEPT !.ref_cnt = rc]
    BY <1>1 DEF KState
  <2> HIDE DEF rc, x1
  <2> QED BY <1>1, <2>1 DEF KState, SameLists
<1> HIDE DEF x1, w, J
<1>3. Consistent(x1)
  BY <1>1, <1>2, SameListsConsistent
<1>4. ~Queued(x1, w) /\ ~Queued(x, w)
  BY <1>1, <1>2 DEF Queued, QueuesOK, Belongs, SameLists, ACTIVE, READY, WAIT
<1>5. Enqueued(x1, w, J, x2)
  BY <1>1, <1>2, <1>3, <1>4, EnqueueOK
<1> HIDE DEF x2
<1>6. InOrderAll(x, x2)
  <2>1. \A R \in Queue : x2.q[R] = IF R = J THEN Append(x.q[R], w) ELSE x.q[R]
    BY <1>2, <1>5 DEF Enqueued, OtherQueuesSame, SameLists
  <2> QED BY <1>1, <1>4, <2>1, EnterInOrder
<1>7. Consistent(x2) /\ ActiveIn(x2) \subseteq ActiveIn(x)
  BY <1>2, <1>5 DEF Enqueued, SameLists, ActiveIn, WAIT, ACTIVE
<1> QED BY <1>1, <1>6, <1>7, ThenScheduleInOrder DEF x2, x1, w, J

-----------------------------------------------------------------------------
(***************************************************************************)
(* kthread_cancel.  Released waiters are appended to ready queues in their *)
(* order; a queue loses threads only if it is t's or the join queue of t.  *)
(***************************************************************************)
Grown(x, t, r) ==
  \A Q \in Queue :
    IF Q = join_queue(t) THEN r.q[Q] = <<>>
    ELSE \E c \in Seq(Desc) :
           /\ r.q[Q] = x.q[Q] \o c
           /\ ToSet(c) \subseteq ToSet(x.q[join_queue(t)])

LEMMA FreeOrReleaseInOrder ==
  ASSUME NEW x, Consistent(x), IdsOK(x), NEW t \in Desc \ {Idle}, Ending(x, t)
  PROVE  LET r == FreeOrRelease(x, t)
         IN  /\ Consistent(r) /\ Grown(x, t, r) /\ ActiveIn(r) = ActiveIn(x)
             /\ r.active_thread = x.active_thread /\ r.prio = x.prio
             /\ r.all_threads \subseteq x.all_threads /\ x.all_threads \subseteq r.all_threads \cup {t}
<1> DEFINE r == FreeOrRelease(x, t)
           J == join_queue(t)
<1>1. /\ x \in KState /\ x.ref_cnt[t] \in Int /\ x.q[J] \in Seq(Desc) /\ Len(x.q[J]) \in Nat
      /\ J \in BlockedQueue /\ J \in Queue /\ J \notin ReadyQueue
      /\ x.q \in [Queue -> Seq(Desc)]
  BY JoinQueueType, QueueNames DEF Consistent, KState
<1>2. CASE x.ref_cnt[t] = 0
  <2>1. r = kthread_remove_descriptor(x, t)
    BY <1>2 DEF FreeOrRelease
  <2>2. t \in x.all_threads /\ x.q[J] = <<>>
    BY <1>1, <1>2 DEF Ending
  <2>3. Removed(x, t, r)
    BY <2>1, <2>2, RemoveDescriptorOK DEF Ending
  <2> HIDE DEF r
  <2>4. /\ r.q = x.q /\ Consistent(r) /\ ActiveIn(r) = ActiveIn(x)
        /\ r.active_thread = x.active_thread /\ r.prio = x.prio
        /\ r.all_threads = x.all_threads \ {t}
    BY <2>3 DEF Removed, SameLists, ActiveIn
  <2>5. \A Q \in Queue : x.q[Q] = x.q[Q] \o <<>>
    BY <1>1
  <2>6. Grown(x, t, r)
    BY <1>1, <2>2, <2>4, <2>5, NoDupEmpty DEF Grown
  <2> QED BY <2>4, <2>6 DEF r
<1>3. CASE x.ref_cnt[t] # 0
  <2>1. r = kthreadq_release_all(x, J)
    BY <1>3 DEF FreeOrRelease
  <2>2. ReleasedAll(x, J, r)
    BY <1>1, <2>1, ReleaseAllOK
  <2>3. \A Q \in Queue \ {J} :
          r.q[Q] = IF Q \in ReadyQueue
                   THEN x.q[Q] \o Chosen(x.q[J], {v \in ToSet(x.q[J]) : x.prio[v] = Q[2]})
                   ELSE x.q[Q]
    BY <1>1, <2>1 DEF kthreadq_release_all, KState
  <2> HIDE DEF r
  <2>4. ASSUME NEW Q \in Queue, Q # J
        PROVE  \E c \in Seq(Desc) : /\ r.q[Q] = x.q[Q] \o c
                                    /\ ToSet(c) \subseteq ToSet(x.q[J])
    <3>1. CASE Q \in ReadyQueue
      <4> DEFINE P == {v \in ToSet(x.q[J]) : x.prio[v] = Q[2]}
                 c == Chosen(x.q[J], P)
      <4>1. r.q[Q] = x.q[Q] \o c
        BY <2>3, <2>4, <3>1
      <4> HIDE DEF P
      <4>2. c \in Seq(Desc) /\ ToSet(c) = ToSet(x.q[J]) \cap P
        BY <1>1, ChosenList
      <4> HIDE DEF c
      <4> QED BY <4>1, <4>2
    <3>2. CASE Q \notin ReadyQueue
      <4>1. r.q[Q] = x.q[Q] /\ x.q[Q] \in Seq(Desc)
        BY <1>1, <2>3, <2>4, <3>2
      <4>2. r.q[Q] = x.q[Q] \o <<>>
        BY <4>1
      <4>3. <<>> \in Seq(Desc) /\ ToSet(<<>>) \subseteq ToSet(x.q[J])
        BY NoDupEmpty
      <4> QED BY <4>2, <4>3
    <3> QED BY <3>1, <3>2
  <2>5. Grown(x, t, r)
    BY <2>2, <2>4 DEF Grown, ReleasedAll
  <2>6. ActiveIn(r) = ActiveIn(x)
    BY <2>2 DEF ReleasedAll, ActiveIn, WAIT, READY, ACTIVE
  <2>7. /\ Consistent(r) /\ r.active_thread = x.active_thread /\ r.prio = x.prio
        /\ r.all_threads = x.all_threads
    BY <2>2 DEF ReleasedAll, SameResources
  <2> QED BY <2>5, <2>6, <2>7 DEF r
<1> QED BY <1>2, <1>3

\* t is out of the queues, its waiters are released, but nothing is scheduled yet.
Unlinked(x, t, r) ==
  /\ Consistent(r) /\ InOrderAll(x, r) /\ ActiveIn(r) \subseteq ActiveIn(x)
  /\ r.active_thread = x.active_thread /\ r.prio = x.prio
  /\ r.all_threads \subseteq x.all_threads /\ x.all_threads \subseteq r.all_threads \cup {t}
  /\ ~Queued(r, t) /\ r.q[join_queue(t)] = <<>>
  /\ \A Q \in Queue : ToSet(r.q[Q]) \subseteq ToSet(x.q[Q]) \cup ToSet(x.q[join_queue(t)])
  /\ \A v \in Desc : v \in ActiveIn(x) /\ v # t => v \in ActiveIn(r)

LEMMA EndInOrder ==
  ASSUME NEW x, Good(x), NEW t \in Desc \ {Idle}, NEW s \in Int, x.state[t] # PASSIVE
  PROVE  Unlinked(x, t, FreeOrRelease(Discount(Detach(x, t), t, s), t))
<1> DEFINE J == join_queue(t)
           y == Discount(Detach(x, t), t, s)
           r == FreeOrRelease(y, t)
<1>1. /\ x \in KState /\ QueuesOK(x) /\ J \in Queue /\ x.q \in [Queue -> Seq(Desc)]
      /\ \A Q \in Queue : x.q[Q] \in Seq(Desc) /\ NoDup(x.q[Q])
  BY QueueNames DEF Good, Consistent, KState, QueuesOK
<1>2. Withdrawn(x, t, y)
  BY StopOK
<1> HIDE DEF y
<1>3. /\ Consistent(r) /\ Grown(y, t, r) /\ ActiveIn(r) = ActiveIn(y)
      /\ r.active_thread = y.active_thread /\ r.prio = y.prio
      /\ r.all_threads \subseteq y.all_threads /\ y.all_threads \subseteq r.all_threads \cup {t}
  BY <1>2, FreeOrReleaseInOrder DEF Withdrawn
<1> HIDE DEF r, J
<1>4. \A Q \in Queue : /\ y.q[Q] = list_find_and_remove(x.q[Q], t)
                       /\ ToSet(y.q[Q]) = ToSet(x.q[Q]) \ {t}
                       /\ InOrder(x.q[Q], y.q[Q])
                       /\ y.q[Q] \in Seq(Desc) /\ NoDup(y.q[Q])
  BY <1>1, <1>2, RemoveList, RemoveInOrder DEF Withdrawn
<1>5. ASSUME NEW Q \in Queue
      PROVE  /\ InOrder(y.q[Q], r.q[Q])
             /\ ToSet(r.q[Q]) \subseteq ToSet(y.q[Q]) \cup ToSet(y.q[J])
             /\ ToSet(x.q[Q]) \cap ToSet(r.q[Q]) \subseteq ToSet(y.q[Q])
  <2>1. CASE Q = J
    BY <1>3, <2>1, EmptyInOrder, NoDupEmpty DEF Grown, J
  <2>2. CASE Q # J
    <3>1. PICK c \in Seq(Desc) : r.q[Q] = y.q[Q] \o c /\ ToSet(c) \subseteq ToSet(y.q[J])
      BY <1>3, <2>2 DEF Grown, J
    <3>2. ToSet(x.q[Q]) \cap ToSet(x.q[J]) = {}
      <4>1. ASSUME NEW v \in ToSet(x.q[Q]), v \in ToSet(x.q[J]) PROVE FALSE
        <5>1. Belongs(x, v, Q) /\ Belongs(x, v, J)
          BY <1>1, <4>1 DEF QueuesOK
        <5> QED BY <2>2, <5>1 DEF Belongs
      <4> QED BY <4>1
    <3>3. ToSet(c) \cap ToSet(y.q[Q]) = {}
      BY <1>1, <1>4, <3>1, <3>2
    <3>4. InOrder(y.q[Q], r.q[Q])
      BY <1>4, <3>1, <3>3, ConcatInOrder
    <3>5. ToSet(r.q[Q]) = ToSet(y.q[Q]) \cup ToSet(c)
      BY <1>4, <3>1, ConcatList
    <3> QED BY <1>1, <1>4, <3>1, <3>2, <3>4, <3>5
  <2> QED BY <2>1, <2>2
<1>6. InOrderAll(x, r)
  <2>1. InOrderAll(x, y) /\ InOrderAll(y, r)
    BY <1>4, <1>5 DEF InOrderAll
  <2> QED BY <1>5, <2>1, AllTwice
<1>7. ~Queued(r, t)
  BY <1>1, <1>4, <1>5 DEF Queued
<1>8. ActiveIn(r) \subseteq ActiveIn(x) /\ \A v \in Desc : v \in ActiveIn(x) /\ v # t => v \in ActiveIn(r)
  BY <1>2, <1>3 DEF Withdrawn, ActiveIn, ACTIVE, PASSIVE
<1>9. /\ r.active_thread = x.active_thread /\ r.prio = x.prio
      /\ r.all_threads \subseteq x.all_threads /\ x.all_threads \subseteq r.all_threads \cup {t}
      /\ r.q[join_queue(t)] = <<>>
  BY <1>1, <1>2, <1>3 DEF Withdrawn, Grown, J
<1>10. \A Q \in Queue : ToSet(r.q[Q]) \subseteq ToSet(x.q[Q]) \cup ToSet(x.q[J])
  BY <1>1, <1>4, <1>5
<1>11. Unlinked(x, t, r)
  BY <1>3, <1>6, <1>7, <1>8, <1>9, <1>10 DEF Unlinked, J
<1> QED BY <1>11 DEF r, y

LEMMA CancelInOrder ==
  ASSUME NEW x, Good(x), NEW t \in Desc \ {Idle}, NEW s \in Int
  PROVE  InOrderAll(x, kthread_cancel(x, t, s))
<1>1. CASE x.state[t] = PASSIVE \/ (x.state[t] = ACTIVE /\ t # x.active_thread)
  BY <1>1, SameAll DEF kthread_cancel
<1>2. CASE ~(x.state[t] = PASSIVE \/ (x.state[t] = ACTIVE /\ t # x.active_thread))
  <2> DEFINE y == FreeOrRelease(Discount(Detach(x, t), t, s), t)
  <2>1. kthread_cancel(x, t, s) = kthreads_schedule(y)
    BY <1>2 DEF kthread_cancel
  <2>2. Unlinked(x, t, y)
    BY <1>2, EndInOrder
  <2> HIDE DEF y
  <2> QED BY <2>1, <2>2, ThenScheduleInOrder DEF Unlinked, Good
<1> QED BY <1>1, <1>2

\* kthread_cancel of a ready or blocked thread leaves it neither active nor in a queue.
LEMMA CancelLeaves ==
  ASSUME NEW x, Good(x), Runs(x), NEW t \in Desc \ {Idle}, NEW s \in Int,
         x.state[t] \in {READY, WAIT}
  PROVE  LET r == kthread_cancel(x, t, s)
         IN  ~Queued(r, t) /\ r.active_thread # t /\ r.q[join_queue(t)] = <<>>
<1> DEFINE y == FreeOrRelease(Discount(Detach(x, t), t, s), t)
           r == kthreads_schedule(y)
<1>1. kthread_cancel(x, t, s) = r
  BY DEF kthread_cancel, READY, WAIT, PASSIVE, ACTIVE
<1>2. Unlinked(x, t, y)
  BY EndInOrder DEF READY, WAIT, PASSIVE
<1> HIDE DEF y
<1>3. ScheduledInOrder(y, r) /\ Scheduled(y, r)
  BY <1>2, ScheduleInOrder, ScheduleOK DEF Unlinked
<1> HIDE DEF r
<1>4. t \notin ActiveIn(y) /\ y.active_thread # t
  BY <1>2 DEF Unlinked, ActiveIn, Runs, READY, WAIT, ACTIVE
<1>5. ~Queued(r, t) /\ r.active_thread # t
  BY <1>2, <1>3, <1>4 DEF ScheduledInOrder, Unlinked, Queued
<1>6. r.q[join_queue(t)] = <<>>
  BY <1>2, <1>3, QueueNames DEF Scheduled, BlockedSame, Unlinked
<1> QED BY <1>1, <1>5, <1>6

\* The second kthread_cancel of sys__cancel_thread puts nobody in a queue.
LEMMA CancelAgain ==
  ASSUME NEW x, Good(x), Top(x), NEW t \in Desc \ {Idle}, NEW s \in Int,
         ~Queued(x, t), x.active_thread # t, x.q[join_queue(t)] = <<>>
  PROVE  Within(x, kthread_cancel(x, t, s))
<1>1. CASE x.state[t] = PASSIVE \/ (x.state[t] = ACTIVE /\ t # x.active_thread)
  BY <1>1 DEF kthread_cancel, Within
<1>2. CASE ~(x.state[t] = PASSIVE \/ (x.state[t] = ACTIVE /\ t # x.active_thread))
  <2> DEFINE y == FreeOrRelease(Discount(Detach(x, t), t, s), t)
             r == kthreads_schedule(y)
  <2>1. kthread_cancel(x, t, s) = r
    BY <1>2 DEF kthread_cancel
  <2>2. Unlinked(x, t, y)
    BY <1>2, EndInOrder
  <2> HIDE DEF y
  <2>3. ScheduledInOrder(y, r)
    BY <2>2, ScheduleInOrder DEF Unlinked
  <2> HIDE DEF r
  <2>4. Within(x, y)
    BY <2>2, NoDupEmpty DEF Unlinked, Within
  <2>5. Top(y)
    <3>1. y.active_thread = x.active_thread /\ y.active_thread \in ActiveIn(y)
      BY <2>2 DEF Unlinked, Top, ActiveIn
    <3>2. y.active_thread \in y.all_threads
      BY <2>2 DEF Unlinked, Top
    <3>3. ASSUME NEW p \in Prio, y.q[ready_q(p)] # <<>> PROVE p <= y.prio[y.active_thread]
      <4>1. /\ ready_q(p) \in Queue /\ x.q[ready_q(p)] \in Seq(Desc)
            /\ y.q[ready_q(p)] \in Seq(Desc)
        BY <2>2, QueueNames DEF Good, Consistent, KState, Unlinked
      <4>2. x.q[ready_q(p)] # <<>>
        BY <2>4, <3>3, <4>1, EmptyToSet DEF Within
      <4> QED BY <2>2, <4>2 DEF Top, Unlinked
    <3> QED BY <3>1, <3>2, <3>3 DEF Top, ActiveIn
  <2> QED BY <2>1, <2>3, <2>4, <2>5 DEF ScheduledInOrder
<1> QED BY <1>1, <1>2

LEMMA CancelTwiceInOrder ==
  ASSUME Good(k), Top(k), NEW t \in Desc \ {Idle}, k.state[t] \in {READY, WAIT}
  PROVE  InOrderAll(k, CancelTwice(t))
<1> DEFINE y == kthread_cancel(k, t, -1)
           r == kthread_cancel(y, t, -1)
<1>1. -1 \in Int /\ Runs(k)
  BY TopRuns
<1>2. /\ Cancelled(k, t, y) /\ InOrderAll(k, y)
      /\ ~Queued(y, t) /\ y.active_thread # t /\ y.q[join_queue(t)] = <<>>
  BY <1>1, CancelOK, CancelInOrder, CancelLeaves
<1> HIDE DEF y
<1>3. Good(y) /\ Top(y)
  BY <1>2 DEF Cancelled
<1>4. InOrderAll(y, r) /\ Within(y, r)
  BY <1>1, <1>2, <1>3, CancelInOrder, CancelAgain
<1>5. InOrderAll(k, r)
  BY <1>2, <1>4, AllTwice DEF Within
<1> QED BY <1>5 DEF CancelTwice, r, y

-----------------------------------------------------------------------------
LEMMA CollectInOrder ==
  ASSUME Good(k), NEW t \in Desc
  PROVE  InOrderAll(k, Collect(t))
<1> DEFINE rc == [k.ref_cnt EXCEPT ![t] = @ - 1]
           k1 == [k EXCEPT !.ref_cnt[t] = @ - 1]
<1>1. k \in KState
  BY DEF Good, Consistent
<1>2. k1 = [k EXCEPT !.ref_cnt = rc]
  BY <1>1 DEF KState
<1>3. Collect(t) = IF k1.ref_cnt[t] = 0 THEN kthread_remove_descriptor(k1, t) ELSE k1
  BY DEF Collect
<1> HIDE DEF rc, k1
<1>4. k1.q = k.q /\ kthread_remove_descriptor(k1, t).q = k1.q
  BY <1>1, <1>2 DEF KState, kthread_remove_descriptor
<1> QED BY <1>3, <1>4, SameAll

LEMMA NextInOrder ==
  ASSUME IInv, [Next]_vars
  PROVE  InOrderAll(k, k')
<1>1. /\ Good(k) /\ Runs(k) /\ Top(k) /\ k.ids.last_id \in Nat /\ k.ids.last_id <= MaxIds
      /\ Self \in Desc /\ k \in KState
  BY RunsFacts DEF IInv, GInv, Self
<1>2. handles \subseteq ProgHandle
  BY DEF IInv, GInv
<1>3. MoreThreads => k.ids.last_id + 1 < MASK_BITS
  BY <1>1, ThreadsAssumption, MaskBitsFact DEF MoreThreads
<1>4. CASE sys__create_thread
  <2>1. PICK t \in FreeDesc(k), prio \in UserPrio :
          k' = kthreads_schedule(kthread_create(k, t, prio, k.proc[Self]))
    BY <1>4 DEF sys__create_thread
  <2>2. /\ MoreThreads /\ prio \in Int /\ t \in Desc \ k.all_threads /\ k.proc[Self] \in Proc
    BY <1>1, <1>4, ThreadsAssumption DEF sys__create_thread, FreeDesc, KState
  <2> DEFINE y == kthread_create(k, t, prio, k.proc[Self])
  <2>3. Consistent(y) /\ InOrderAll(k, y) /\ ActiveIn(y) \subseteq ActiveIn(k)
    BY <1>1, <1>3, <2>2, CreateInOrder
  <2> HIDE DEF y
  <2>4. InOrderAll(k, kthreads_schedule(y))
    BY <1>1, <2>3, ThenScheduleInOrder DEF Good
  <2> QED BY <2>1, <2>4 DEF y
<1>5. CASE sys__start_program
  <2>1. PICK t \in FreeDesc(k), pr \in FreeProc(k), prio \in UserPrio :
          k' = kthread_start_process(k, t, pr, StartPrio(prio))
    BY <1>5 DEF sys__start_program
  <2>2. /\ MoreThreads /\ pr \in Proc /\ StartPrio(prio) \in Int /\ t \in Desc \ k.all_threads
    BY <1>5, ThreadsAssumption
       DEF sys__start_program, FreeDesc, FreeProc, StartPrio, Prio
  <2> QED BY <1>1, <1>3, <2>1, <2>2, StartProcessInOrder
<1>6. CASE sys__thread_exit
  <2>1. PICK status \in ExitStatus : k' = kthread_cancel(k, Self, status)
    BY <1>6 DEF sys__thread_exit
  <2>2. status \in Int /\ Self \in Desc \ {Idle}
    BY <1>1, <1>6, ThreadsAssumption DEF sys__thread_exit, FreeToCall, UserCall
  <2> QED BY <1>1, <2>1, <2>2, CancelInOrder
<1>7. CASE WaitBlock
  <2>1. PICK h \in WaitArg :
          /\ Valid(h)
          /\ k' = kthreads_schedule(
                    kthread_enqueue([k EXCEPT !.ref_cnt[h[1]] = @ + 1], Self, join_queue(h[1])))
    BY <1>7 DEF WaitBlock
  <2>2. h[1] \in k.all_threads
    BY <1>1, <2>1, WaitArgType, ValidHandle DEF IInv
  <2>3. k.active_thread # Idle
    BY <1>7 DEF WaitBlock, UserCall, Self
  <2> QED BY <1>1, <2>1, <2>2, <2>3, BlockInOrder DEF Self
<1>8. CASE WaitCollect
  <2>1. PICK h \in WaitArg : k' = Collect(h[1])
    BY <1>8 DEF WaitCollect
  <2>2. h[1] \in Desc
    BY WaitArgType DEF IInv, ProgHandle
  <2> QED BY <1>1, <2>1, <2>2, CollectInOrder
<1>9. CASE sys__cancel_thread
  <2>1. PICK h \in handles :
          Valid(h) /\ k.state[h[1]] \in {READY, WAIT} /\ k' = CancelTwice(h[1])
    BY <1>9 DEF sys__cancel_thread
  <2>2. h[1] \in Desc \ {Idle}
    BY <1>2 DEF ProgHandle
  <2> QED BY <1>1, <2>1, <2>2, CancelTwiceInOrder
<1>10. CASE sys__thread_self \/ WaitGone \/ WaitPoll \/ CancelRefused \/ sys__suspend \/ UNCHANGED vars
  <2>1. k' = k
    BY <1>10 DEF sys__thread_self, WaitGone, WaitPoll, CancelRefused, sys__suspend, vars
  <2> QED BY <2>1, SameAll
<1> QED
  BY <1>4, <1>5, <1>6, <1>7, <1>8, <1>9, <1>10 DEF Next

\* What QueuesAreFifo says of one step.
FifoStep ==
  \A Q \in Queue : \A a \in ToSet(k.q[Q]) : \A b \in ToSet(k'.q[Q]) :
    /\ a \in ToSet(k'.q[Q]) /\ a # b
    /\ b \in ToSet(k.q[Q]) => Before(k.q[Q], a, b)
    => Before(k'.q[Q], a, b)

(***************************************************************************)
(* FIFO for threads of the same priority and for the waiters of a thread:  *)
(* no call reorders a queue, lets a thread in before others, or takes one  *)
(* out and puts it back behind them; not even preemption does, which puts  *)
(* the active thread last, nor the two kthread_cancel of cancel_thread.    *)
(***************************************************************************)
THEOREM QueuesAreAlwaysFifo == Spec => QueuesAreFifo
<1>1. IInv /\ [Next]_vars => [FifoStep]_vars
  BY NextInOrder DEF InOrderAll, InOrder, FifoStep
<1>2. Spec => [][FifoStep]_vars
  BY <1>1, InvInvariant, PTL DEF Spec
<1> QED BY <1>2 DEF QueuesAreFifo, FifoStep

-----------------------------------------------------------------------------
(***************************************************************************)
(* Lifetimes: as long as no program calls cancel_thread, a process lives   *)
(* exactly as long as its threads, and a finished thread's descriptor only *)
(* as long as somebody is still to collect its status.                     *)
(***************************************************************************)
\* kthread_cancel of the active thread, which is sys__thread_exit.
Exited(x, t, r) ==
  /\ LeftProcess(x, t, r)
  /\ r.all_threads \subseteq x.all_threads /\ x.all_threads \subseteq r.all_threads \cup {t}
  /\ \A v \in r.all_threads : r.id[v] = x.id[v]
  /\ r.ids.last_id = x.ids.last_id /\ r.state[t] = PASSIVE
  /\ \A v \in Desc : r.ref_cnt[v] = IF v = t THEN x.ref_cnt[t] - 1 ELSE x.ref_cnt[v]
  /\ \A v \in Desc \ {t} : /\ r.state[v] # PASSIVE <=> x.state[v] # PASSIVE
                           /\ r.q[join_queue(v)] = x.q[join_queue(v)]

LEMMA ExitOK ==
  ASSUME NEW x, Good(x), NEW t \in Desc \ {Idle}, t = x.active_thread, x.state[t] = ACTIVE,
         NEW s \in Int
  PROVE  Exited(x, t, kthread_cancel(x, t, s))
<1> DEFINE k2 == Discount(Detach(x, t), t, s)
           k3 == FreeOrRelease(k2, t)
           r  == kthreads_schedule(k3)
<1>1. /\ x \in KState /\ QueuesOK(x) /\ x.state[t] # PASSIVE
      /\ x.q \in [Queue -> Seq(Desc)]
  BY DEF Good, Consistent, KState, ACTIVE, PASSIVE
<1>2. kthread_cancel(x, t, s) = r
  BY <1>1 DEF kthread_cancel
<1>3. Withdrawn(x, t, k2)
  BY <1>1, StopOK
<1> HIDE DEF k2
<1>4. Freed(k2, t, k3)
  BY <1>3, FreeOrReleaseOK DEF Withdrawn
<1> HIDE DEF k3
<1>5. Rescheduled(k3, r)
  BY <1>4, ScheduleSettles DEF Freed
<1> HIDE DEF r
<1>6. LeftProcess(x, t, r)
  BY <1>3, <1>4, <1>5 DEF Withdrawn, Freed, Rescheduled, SameResources, LeftProcess
<1>7. /\ r.all_threads \subseteq x.all_threads /\ x.all_threads \subseteq r.all_threads \cup {t}
      /\ r.ids.last_id = x.ids.last_id
      /\ \A v \in r.all_threads : r.id[v] = x.id[v]
  BY <1>3, <1>4, <1>5 DEF Withdrawn, Freed, Rescheduled, SameResources
<1>8. \A v \in Desc : r.ref_cnt[v] = IF v = t THEN x.ref_cnt[t] - 1 ELSE x.ref_cnt[v]
  BY <1>3, <1>4, <1>5 DEF Withdrawn, Freed, Rescheduled, SameResources
<1>9. \A v \in Desc : r.state[v] # PASSIVE <=> k2.state[v] # PASSIVE
  BY <1>4, <1>5 DEF Freed, Rescheduled, BlockedSame, PASSIVE, ACTIVE, READY
<1>10. /\ k2.state[t] = PASSIVE
       /\ \A v \in Desc \ {t} : k2.state[v] = x.state[v]
  BY <1>3 DEF Withdrawn
<1>11. ASSUME NEW v \in Desc \ {t} PROVE r.q[join_queue(v)] = x.q[join_queue(v)]
  <2>1. r.q[join_queue(v)] = k2.q[join_queue(v)]
    BY <1>4, <1>5, QueueNames DEF Freed, Rescheduled, BlockedSame
  <2>2. k2.q[join_queue(v)] = list_find_and_remove(x.q[join_queue(v)], t)
    BY <1>3, QueueNames DEF Withdrawn
  <2>3. t \notin ToSet(x.q[join_queue(v)])
    BY <1>1, QueueNames DEF QueuesOK, Belongs, ACTIVE, READY, WAIT
  <2> QED BY <2>1, <2>2, <2>3 DEF list_find_and_remove
<1>12. Exited(x, t, r)
  BY <1>6, <1>7, <1>8, <1>9, <1>10, <1>11 DEF Exited
<1> QED BY <1>2, <1>12

(***************************************************************************)
(* What a call does to lifetimes, when no thread is cancelled: one of the  *)
(* five predicates below.                                                  *)
(***************************************************************************)
\* A thread is created, in a process that exists or with a process of its own.
Born(t, pr) ==
  /\ t \in Desc \ k.all_threads /\ pr \in Proc
  /\ Started(k, t, k') /\ k'.proc = [k.proc EXCEPT ![t] = pr]
  /\ k'.thr_count = [k.thr_count EXCEPT ![pr] = IF pr \in k.procs THEN @ + 1 ELSE 1]
  /\ k'.procs = k.procs \cup {pr}
  /\ handles' = handles \cup {<<t, k'.id[t]>>}
  /\ joining' = [joining EXCEPT ![t] = NoHandle]

\* The active thread t exits.
Exits(t) ==
  /\ t = Self /\ t # Idle /\ Exited(k, t, k')
  /\ joining[t] = NoHandle
  /\ UNCHANGED <<handles, joining>>

\* The active thread waits for h, or collects its status.
Joins(h) ==
  /\ h \in WaitArg /\ Valid(h) /\ h[1] \in k.all_threads /\ k.state[h[1]] # PASSIVE
  /\ Blocked(k, h[1], Self, k') /\ k'.all_threads = k.all_threads /\ k'.ids = k.ids
  /\ joining' = [joining EXCEPT ![Self] = h]
  /\ UNCHANGED handles

Collects(h) ==
  /\ h \in WaitArg /\ Valid(h) /\ h[1] \in k.all_threads /\ k.state[h[1]] = PASSIVE
  /\ Collected(k, h[1], k') /\ k'.ids.last_id = k.ids.last_id
  /\ joining' = [joining EXCEPT ![Self] = NoHandle]
  /\ UNCHANGED handles

\* The thread subsystem is as it was; who waits for a handle that is gone stops.
Stays ==
  /\ k' = k /\ handles' \subseteq handles \cup {<<Self, k.id[Self]>>}
  /\ \/ joining' = joining
     \/ /\ joining' = [joining EXCEPT ![Self] = NoHandle]
        /\ joining[Self] = NoHandle \/ ~Valid(joining[Self])

LEMMA LifeSteps ==
  ASSUME IInv, CancelUsed = FALSE, [Next]_vars
  PROVE  \/ \E t \in Desc, pr \in Proc : Born(t, pr)
         \/ \E t \in Desc : Exits(t)
         \/ \E h \in ProgHandle : Joins(h) \/ Collects(h)
         \/ Stays
<1>1. /\ Good(k) /\ Runs(k) /\ GInv /\ k.ids.last_id \in Nat /\ k \in KState
      /\ Self \in Desc /\ k.state[Self] = ACTIVE /\ Self = k.active_thread
      /\ k.thr_count \in [Proc -> Int]
  BY RunsFacts DEF IInv, GInv, Self, KState
<1>2. MoreThreads => k.ids.last_id + 1 < MASK_BITS
  BY <1>1, ThreadsAssumption, MaskBitsFact DEF MoreThreads
<1>3. CASE sys__create_thread
  <2>1. PICK t \in FreeDesc(k), prio \in UserPrio :
          /\ k' = kthreads_schedule(kthread_create(k, t, prio, k.proc[Self]))
          /\ handles' = handles \cup {<<t, k'.id[t]>>}
          /\ joining' = [joining EXCEPT ![t] = NoHandle]
    BY <1>3 DEF sys__create_thread
  <2> DEFINE pr == k.proc[Self]
  <2>2. /\ MoreThreads /\ pr \in k.procs /\ prio \in Int /\ pr \in Proc
        /\ t \in Desc \ k.all_threads
    BY <1>1, <1>3, ThreadsAssumption
       DEF sys__create_thread, FreeToCall, UserCall, FreeDesc, KState
  <2> HIDE DEF pr
  <2>3. /\ Started(k, t, k') /\ k'.proc = [k.proc EXCEPT ![t] = pr] /\ k'.procs = k.procs
        /\ k'.thr_count = [k.thr_count EXCEPT ![pr] = @ + 1]
    BY <1>1, <1>2, <2>1, <2>2, CreateThreadOK DEF pr
  <2>4. Born(t, pr)
    BY <2>1, <2>2, <2>3 DEF Born
  <2> QED BY <2>2, <2>4
<1>4. CASE sys__start_program
  <2>1. PICK t \in FreeDesc(k), pr \in FreeProc(k), prio \in UserPrio :
          /\ k' = kthread_start_process(k, t, pr, StartPrio(prio))
          /\ handles' = handles \cup {<<t, k'.id[t]>>}
          /\ joining' = [joining EXCEPT ![t] = NoHandle]
    BY <1>4 DEF sys__start_program
  <2>2. /\ MoreThreads /\ pr \in Proc \ k.procs /\ StartPrio(prio) \in Int
        /\ t \in Desc \ k.all_threads
    BY <1>4, ThreadsAssumption
       DEF sys__start_program, FreeDesc, FreeProc, StartPrio, Prio
  <2>3. /\ Started(k, t, k') /\ k'.proc = [k.proc EXCEPT ![t] = pr]
        /\ k'.procs = k.procs \cup {pr} /\ k'.thr_count = [k.thr_count EXCEPT ![pr] = 1]
    BY <1>1, <1>2, <2>1, <2>2, StartProcessOK DEF NewProcess
  <2>4. Born(t, pr)
    BY <2>1, <2>2, <2>3 DEF Born
  <2> QED BY <2>2, <2>4
<1>5. CASE sys__thread_exit
  <2>1. PICK status \in ExitStatus : k' = kthread_cancel(k, Self, status)
    BY <1>5 DEF sys__thread_exit
  <2>2. status \in Int /\ Self \in Desc \ {Idle}
    BY <1>1, <1>5, ThreadsAssumption DEF sys__thread_exit, FreeToCall, UserCall
  <2>3. Exited(k, Self, k')
    BY <1>1, <2>1, <2>2, ExitOK
  <2>4. Exits(Self)
    BY <1>5, <2>2, <2>3 DEF sys__thread_exit, FreeToCall, Exits
  <2> QED BY <1>1, <2>4
<1>6. CASE sys__thread_self
  BY <1>6 DEF sys__thread_self, Stays
<1>7. CASE WaitGone
  <2>1. PICK h \in WaitArg : ~Valid(h)
    BY <1>7 DEF WaitGone
  <2>2. joining[Self] # NoHandle => joining[Self] = h
    BY <2>1 DEF WaitArg
  <2> QED BY <1>7, <2>1, <2>2 DEF WaitGone, Stays
<1>8. CASE WaitBlock
  <2>1. PICK h \in WaitArg :
          /\ Valid(h) /\ k.state[h[1]] # PASSIVE
          /\ k' = kthreads_schedule(
                    kthread_enqueue([k EXCEPT !.ref_cnt[h[1]] = @ + 1], Self, join_queue(h[1])))
          /\ joining' = [joining EXCEPT ![Self] = h]
    BY <1>8 DEF WaitBlock
  <2>2. h \in ProgHandle /\ h[1] \in k.all_threads
    BY <1>1, <2>1, WaitArgType, ValidHandle
  <2>3. k.active_thread # Idle /\ handles' = handles
    BY <1>8 DEF WaitBlock, UserCall, Self
  <2>4. Blocked(k, h[1], Self, k') /\ k'.ids = k.ids /\ k'.all_threads = k.all_threads
    BY <1>1, <2>1, <2>2, <2>3, BlockOK DEF Self
  <2>5. Joins(h)
    BY <2>1, <2>2, <2>3, <2>4 DEF Joins
  <2> QED BY <2>2, <2>5
<1>9. CASE WaitCollect
  <2>1. PICK h \in WaitArg : Valid(h) /\ k.state[h[1]] = PASSIVE /\ k' = Collect(h[1])
    BY <1>9 DEF WaitCollect
  <2>2. h \in ProgHandle /\ h[1] \in k.all_threads /\ h[1] # Idle
    BY <1>1, <2>1, WaitArgType, ValidHandle
  <2>3. Collected(k, h[1], k') /\ k'.ids.last_id = k.ids.last_id
    BY <1>1, <2>1, <2>2, CollectOK
  <2>4. Collects(h)
    BY <1>9, <2>1, <2>2, <2>3 DEF Collects, WaitCollect
  <2> QED BY <2>2, <2>4
<1>10. CASE WaitPoll \/ CancelRefused \/ sys__suspend \/ UNCHANGED vars
  <2>1. k' = k /\ handles' = handles /\ joining' = joining
    BY <1>10 DEF WaitPoll, CancelRefused, sys__suspend, vars
  <2> QED BY <2>1 DEF Stays
<1>11. ~sys__cancel_thread
  BY DEF sys__cancel_thread
<1> QED
  BY <1>3, <1>4, <1>5, <1>6, <1>7, <1>8, <1>9, <1>10, <1>11 DEF Next

-----------------------------------------------------------------------------
(***************************************************************************)
(* Processes: thr_count is the number of the threads that are alive, so    *)
(* that it gets to 0 with the last one.                                    *)
(***************************************************************************)
Members(pr) == {t \in Desc : Alive(t) /\ k.proc[t] = pr}

CountInv == ProcessOutlivesThreads /\ ThreadsCounted

LEMMA MembersFinite ==
  ASSUME NEW pr
  PROVE  IsFiniteSet(Members(pr)) /\ Cardinality(Members(pr)) \in Nat
<1>1. Members(pr) \subseteq Desc
  BY DEF Members
<1> QED BY <1>1, FS_Subset, FS_CardinalityType, KThreadAssumption

\* The threads, their processes and the counts are as they were.
LEMMA SameMembers ==
  ASSUME CountInv, k'.proc = k.proc, k'.procs = k.procs, k'.thr_count = k.thr_count,
         \A v \in Desc : Alive(v)' <=> Alive(v)
  PROVE  CountInv'
<1>1. \A pr \in k.procs : Members(pr)' = Members(pr)
  BY DEF Members
<1> QED BY <1>1 DEF CountInv, ProcessOutlivesThreads, ThreadsCounted, Members

LEMMA BornCounted ==
  ASSUME IInv, CountInv, NEW t \in Desc, NEW pr \in Proc, Born(t, pr)
  PROVE  CountInv'
<1>1. /\ k \in KState /\ k.thr_count \in [Proc -> Int] /\ k.proc \in [Desc -> Proc]
      /\ k.procs \subseteq Proc
  BY DEF IInv, GInv, Good, Consistent, KState
<1>2. ~Alive(t) /\ Alive(t)' /\ \A v \in Desc \ {t} : Alive(v)' <=> Alive(v)
  BY DEF Born, Started, Alive, Awake, PASSIVE, READY, ACTIVE
<1>3. k'.proc[t] = pr /\ \A v \in Desc \ {t} : k'.proc[v] = k.proc[v]
  BY <1>1 DEF Born
<1>4. ProcessOutlivesThreads'
  BY <1>2, <1>3 DEF Born, CountInv, ProcessOutlivesThreads
<1>5. ASSUME NEW p \in k'.procs
      PROVE  k'.thr_count[p] = Cardinality(Members(p)')
  <2>1. CASE p # pr
    <3>1. Members(p)' = Members(p) /\ p \in k.procs
      BY <1>2, <1>3, <1>5, <2>1 DEF Members, Born
    <3>2. k'.thr_count[p] = k.thr_count[p]
      BY <1>1, <2>1, <3>1 DEF Born
    <3> QED BY <3>1, <3>2 DEF CountInv, ThreadsCounted, Members
  <2>2. CASE p = pr
    <3>1. Members(pr)' = Members(pr) \cup {t} /\ t \notin Members(pr)
      BY <1>2, <1>3 DEF Members
    <3>2. Cardinality(Members(pr)') = Cardinality(Members(pr)) + 1
      BY <3>1, MembersFinite, FS_AddElement
    <3>3. CASE pr \in k.procs
      <4>1. k'.thr_count[pr] = k.thr_count[pr] + 1
        BY <1>1, <3>3 DEF Born
      <4> QED BY <2>2, <3>2, <3>3, <4>1 DEF CountInv, ThreadsCounted, Members
    <3>4. CASE pr \notin k.procs
      <4>1. Members(pr) = {}
        BY <3>4 DEF Members, CountInv, ProcessOutlivesThreads
      <4>2. k'.thr_count[pr] = 1
        BY <1>1, <3>4 DEF Born
      <4> QED BY <2>2, <3>2, <4>1, <4>2, FS_EmptySet
    <3> QED BY <3>3, <3>4
  <2> QED BY <2>1, <2>2
<1> QED BY <1>4, <1>5 DEF CountInv, ThreadsCounted, Members

LEMMA ExitCounted ==
  ASSUME IInv, CountInv, NEW t \in Desc, Exits(t)
  PROVE  CountInv'
<1>0. PICK pr \in Proc, n \in Int : pr = k.proc[t] /\ n = k.thr_count[pr] - 1
  BY DEF IInv, GInv, Good, Consistent, KState
<1>1. /\ k \in KState /\ k.thr_count \in [Proc -> Int] /\ k.proc \in [Desc -> Proc]
      /\ k.procs \subseteq Proc /\ Alive(t)
  BY RunsFacts DEF Exits, IInv, GInv, Good, Consistent, KState, Alive, Self, ACTIVE, PASSIVE
<1>2. ~Alive(t)' /\ \A v \in Desc \ {t} : Alive(v)' <=> Alive(v)
  BY DEF Exits, Exited, Alive
<1>3. /\ pr \in Proc /\ pr \in k.procs /\ k'.proc = k.proc
      /\ k'.thr_count = [k.thr_count EXCEPT ![pr] = n]
      /\ k'.procs = IF n = 0 /\ pr # KernelProc THEN k.procs \ {pr} ELSE k.procs
  BY <1>0, <1>1 DEF Exits, Exited, LeftProcess, CountInv, ProcessOutlivesThreads
<1>4. Members(pr)' = Members(pr) \ {t} /\ t \in Members(pr)
  BY <1>0, <1>1, <1>2, <1>3 DEF Members
<1>5. n = Cardinality(Members(pr)') /\ IsFiniteSet(Members(pr)')
  <2>1. Cardinality(Members(pr)') = Cardinality(Members(pr)) - 1 /\ IsFiniteSet(Members(pr)')
    BY <1>4, MembersFinite, FS_RemoveElement
  <2> QED BY <1>0, <1>3, <2>1 DEF CountInv, ThreadsCounted, Members
<1>6. ThreadsCounted'
  <2>1. ASSUME NEW p \in k'.procs PROVE k'.thr_count[p] = Cardinality(Members(p)')
    <3>1. p \in k.procs /\ p \in Proc
      BY <1>1, <1>3
    <3>2. CASE p = pr
      BY <1>1, <1>3, <1>5, <3>2
    <3>3. CASE p # pr
      <4>1. Members(p)' = Members(p)
        BY <1>0, <1>2, <1>3, <3>3 DEF Members
      <4> QED BY <1>1, <1>3, <3>1, <3>3, <4>1 DEF CountInv, ThreadsCounted, Members
    <3> QED BY <3>2, <3>3
  <2> QED BY <2>1 DEF ThreadsCounted, Members
<1>7. ProcessOutlivesThreads'
  <2>1. ASSUME NEW v \in Desc, Alive(v)' PROVE k'.proc[v] \in k'.procs
    <3>1. Alive(v) /\ k.proc[v] \in k.procs
      BY <1>2, <2>1 DEF CountInv, ProcessOutlivesThreads
    <3>2. k.proc[v] = pr => v \in Members(pr)'
      BY <1>3, <2>1 DEF Members
    <3>3. k.proc[v] = pr => n # 0
      BY <1>5, <3>2, FS_EmptySet
    <3> QED BY <1>3, <3>1, <3>3
  <2> QED BY <2>1 DEF ProcessOutlivesThreads
<1> QED BY <1>6, <1>7 DEF CountInv

LEMMA CountStep ==
  ASSUME IInv, CountInv, CancelUsed = FALSE, [Next]_vars
  PROVE  CountInv'
<1>1. ASSUME NEW h \in ProgHandle, Joins(h) PROVE CountInv'
  BY <1>1, SameMembers DEF Joins, Blocked, Alive
<1>2. ASSUME NEW h \in ProgHandle, Collects(h) PROVE CountInv'
  <2>1. \A v \in Desc : Alive(v)' <=> Alive(v)
    BY <1>2 DEF Collects, Collected, SameLists, Alive
  <2> QED BY <1>2, <2>1, SameMembers DEF Collects, Collected
<1>3. CASE Stays
  BY <1>3, SameMembers DEF Stays, Alive
<1> QED BY <1>1, <1>2, <1>3, LifeSteps, BornCounted, ExitCounted

\* After k_startup the idle thread and the first program's are alive.
LEMMA FirstThreads ==
  ASSUME Init
  PROVE  /\ Idle # Main /\ KernelProc # MainProc /\ Main \in Desc /\ Idle \in Desc
         /\ k \in KState /\ k.all_threads = {Idle, Main} /\ k.procs = {KernelProc, MainProc}
         /\ Alive(Idle) /\ Alive(Main)
         /\ k.proc[Idle] = KernelProc /\ k.proc[Main] = MainProc
         /\ k.thr_count[KernelProc] = 1 /\ k.thr_count[MainProc] = 1
         /\ k.ref_cnt[Idle] = 1 /\ k.ref_cnt[Main] = 1
<1> DEFINE x == kthreads_init
<1>1. /\ Good(x) /\ Top(x) /\ Sound(x) /\ x.ids.last_id = 1 /\ x.all_threads = {Idle}
      /\ x.procs = {KernelProc} /\ x.proc[Idle] = KernelProc /\ x.thr_count[KernelProc] = 1
      /\ x.ref_cnt[Idle] = 1
  BY InitOK DEF Settled
<1>2. k = kthread_start_process(x, Main, MainProc, THR_DEFAULT_PRIO)
  BY DEF Init
<1> HIDE DEF x
<1>3. /\ x.ids.last_id + 1 < MASK_BITS /\ THR_DEFAULT_PRIO \in Int
      /\ Main \in Desc \ x.all_threads /\ MainProc \in Proc \ x.procs
      /\ Idle # Main /\ KernelProc # MainProc /\ Main \in Desc /\ Idle \in Desc
  BY <1>1, ThreadsAssumption, KThreadAssumption, MaskBitsFact DEF Prio
<1>4. /\ Started(x, Main, k)
      /\ k.proc = [x.proc EXCEPT ![Main] = MainProc] /\ k.procs = x.procs \cup {MainProc}
      /\ k.thr_count = [x.thr_count EXCEPT ![MainProc] = 1]
  <2>1. Started(x, Main, k) /\ NewProcess(x, Main, MainProc, k)
    BY <1>1, <1>2, <1>3, StartProcessOK
  <2> QED BY <2>1 DEF NewProcess
<1>5. x \in KState /\ x.proc \in [Desc -> Proc] /\ x.thr_count \in [Proc -> Int]
  BY <1>1 DEF Good, Consistent, KState
<1>6. /\ k.proc[Idle] = KernelProc /\ k.proc[Main] = MainProc
      /\ k.thr_count[KernelProc] = 1 /\ k.thr_count[MainProc] = 1
  BY <1>1, <1>3, <1>4, <1>5, KThreadAssumption
<1>7. x.active_thread = Idle /\ x.state[Idle] = ACTIVE
  BY <1>1 DEF Top
<1>8. k \in KState /\ k.all_threads = {Idle, Main} /\ Awake(k, Main)
      /\ k.state[Idle] # PASSIVE /\ k.ref_cnt[Idle] = 1 /\ k.ref_cnt[Main] = 1
  BY <1>1, <1>3, <1>4, <1>7 DEF Started, Settled, Good, Consistent, ACTIVE, PASSIVE
<1> QED BY <1>1, <1>3, <1>4, <1>6, <1>8 DEF Alive, Awake, PASSIVE, ACTIVE, READY

LEMMA InitCounted == Init => CountInv
<1> SUFFICES ASSUME Init PROVE CountInv
  OBVIOUS
<1>1. \A v \in Desc : Alive(v) <=> v \in {Idle, Main}
  BY FirstThreads DEF Alive
<1>2. Members(KernelProc) = {Idle} /\ Members(MainProc) = {Main}
  BY <1>1, FirstThreads DEF Members
<1>3. Cardinality(Members(KernelProc)) = 1 /\ Cardinality(Members(MainProc)) = 1
  BY <1>2, FS_Singleton
<1> QED BY <1>1, <1>3, FirstThreads
        DEF CountInv, ProcessOutlivesThreads, ThreadsCounted, Members

LEMMA CountInvariant ==
  ASSUME CancelUsed = FALSE
  PROVE  Spec => []CountInv
<1>1. Init => CountInv
  BY InitCounted
<1>2. IInv /\ CountInv /\ [Next]_vars => CountInv'
  BY CountStep
<1> QED BY <1>1, <1>2, InvInvariant, PTL DEF Spec

(***************************************************************************)
(* When no program calls cancel_thread, a process is removed only after    *)
(* its last thread has ended (kthread_cancel, "last (non-kernel) thread -  *)
(* remove process").                                                       *)
(***************************************************************************)
THEOREM ProcessesOutliveThreads ==
  ASSUME CancelUsed = FALSE
  PROVE  Spec => []ProcessOutlivesThreads
BY CountInvariant, PTL DEF CountInv

(***************************************************************************)
(* When no program calls cancel_thread, thr_count of an existing process   *)
(* is the number of its threads that have not ended.                       *)
(***************************************************************************)
THEOREM ThreadsAlwaysCounted ==
  ASSUME CancelUsed = FALSE
  PROVE  Spec => []ThreadsCounted
BY CountInvariant, PTL DEF CountInv

-----------------------------------------------------------------------------
(***************************************************************************)
(* Descriptors: a reference to a finished thread is that of a thread that  *)
(* is still to collect its status.  While the thread runs it has one of    *)
(* its own, and whoever is to collect waits in its join queue.             *)
(***************************************************************************)
Asks(w, t) == Alive(w) /\ joining[w] = <<t, k.id[t]>>

Collectors(t) == {w \in Desc : Asks(w, t)}

\* No handle has an id that is still to be given out.
HandlesOld ==
  /\ \A h \in handles : h[2] <= k.ids.last_id
  /\ \A w \in Desc : joining[w][2] <= k.ids.last_id

CollectorsWait ==
  \A w \in Desc, t \in k.all_threads :
    Alive(t) /\ Asks(w, t) => w \in ToSet(k.q[join_queue(t)])

RefsClaimed ==
  \A t \in k.all_threads :
    k.ref_cnt[t] <= (IF Alive(t) THEN 1 ELSE 0) + Cardinality(Collectors(t))

CollectInv == HandlesOld /\ CollectorsWait /\ RefsClaimed

LEMMA CollectorsFinite ==
  ASSUME NEW t
  PROVE  IsFiniteSet(Collectors(t)) /\ Cardinality(Collectors(t)) \in Nat
<1>1. Collectors(t) \subseteq Desc
  BY DEF Collectors
<1> QED BY <1>1, FS_Subset, FS_CardinalityType, KThreadAssumption

LEMMA LifeFacts ==
  ASSUME IInv
  PROVE  /\ k.ids.last_id \in Nat /\ k.all_threads \subseteq Desc
         /\ k.ref_cnt \in [Desc -> Int] /\ k.q \in [Queue -> Seq(Desc)]
         /\ joining \in [Desc -> ProgHandle \cup {NoHandle}] /\ handles \subseteq ProgHandle
         /\ Self \in Desc /\ Alive(Self) /\ k.state[Self] = ACTIVE
         /\ \A t \in k.all_threads : k.id[t] \in 1 .. k.ids.last_id
         /\ NoHandle[1] \notin Desc /\ NoHandle[2] = 0
         /\ \A t \in Desc : join_queue(t) \in Queue
         /\ \A h \in handles : h[2] \in Nat
         /\ \A w \in Desc : joining[w][2] \in Nat
<1>1. /\ k \in KState /\ k.ids.last_id \in Nat /\ k.all_threads \subseteq Desc
      /\ Self \in Desc /\ Self \in k.all_threads /\ k.state[Self] = ACTIVE
  BY RunsFacts DEF IInv, GInv, Self
<1>2. \A t \in k.all_threads : k.id[t] \in 1 .. k.ids.last_id
  BY DEF IInv, GInv, Good, IdsOK
<1>3. \A h \in ProgHandle \cup {NoHandle} : h[2] \in Nat
  BY DEF ProgHandle, NoHandle, Id
<1>4. handles \subseteq ProgHandle /\ joining \in [Desc -> ProgHandle \cup {NoHandle}]
  BY DEF IInv, GInv
<1>5. \A w \in Desc : joining[w] \in ProgHandle \cup {NoHandle}
  BY <1>4
<1> QED BY <1>1, <1>2, <1>3, <1>4, <1>5, KThreadAssumption, QueueNames
        DEF KState, IInv, GInv, NoHandle, Alive, ACTIVE, PASSIVE

LEMMA BornCollected ==
  ASSUME IInv, CollectInv, NEW t \in Desc, NEW pr \in Proc, Born(t, pr)
  PROVE  CollectInv'
<1> DEFINE n == k.ids.last_id + 1
<1>1. /\ t \notin k.all_threads /\ k'.all_threads = k.all_threads \cup {t}
      /\ k'.ids.last_id = n /\ k'.id[t] = n /\ k'.ref_cnt[t] = 1
      /\ handles' = handles \cup {<<t, n>>}
      /\ \A v \in Desc \ {t} : k'.id[v] = k.id[v] /\ k'.ref_cnt[v] = k.ref_cnt[v]
      /\ \A v \in Desc : k'.q[join_queue(v)] = k.q[join_queue(v)]
  BY QueueNames DEF Born, Started
<1>2. /\ joining'[t] = NoHandle
      /\ \A v \in Desc \ {t} : joining'[v] = joining[v]
  BY LifeFacts DEF Born
<1>3. ~Alive(t) /\ Alive(t)' /\ \A v \in Desc \ {t} : Alive(v)' <=> Alive(v)
  BY DEF Born, Started, Alive, Awake, PASSIVE, READY, ACTIVE
<1>4. HandlesOld'
  <2>1. ASSUME NEW h \in handles' PROVE h[2] <= n
    BY <1>1, LifeFacts DEF CollectInv, HandlesOld
  <2>2. ASSUME NEW w \in Desc PROVE joining'[w][2] <= n
    <3>1. CASE w = t
      <4>1. joining'[w] = NoHandle
        BY <1>2, <3>1
      <4> QED BY <4>1, LifeFacts
    <3>2. CASE w # t
      <4>1. joining'[w] = joining[w]
        BY <1>2, <3>2
      <4> QED BY <4>1, LifeFacts DEF CollectInv, HandlesOld
    <3> QED BY <3>1, <3>2
  <2> QED BY <1>1, <2>1, <2>2 DEF HandlesOld
<1>5. ASSUME NEW w \in Desc PROVE ~Asks(w, t)'
  <2>1. CASE w = t
    BY <1>2, <2>1, LifeFacts DEF Asks
  <2>2. CASE w # t
    <3>1. joining[w][2] # n
      BY LifeFacts DEF CollectInv, HandlesOld
    <3>2. joining'[w] # <<t, k'.id[t]>>
      BY <1>1, <1>2, <2>2, <3>1
    <3> QED BY <3>2 DEF Asks
  <2> QED BY <2>1, <2>2
<1>6. ASSUME NEW u \in k.all_threads, NEW w \in Desc
      PROVE  Asks(w, u)' <=> Asks(w, u)
  <2>1. u \in Desc \ {t}
    BY <1>1, LifeFacts
  <2>2. CASE w = t
    <3>1. joining'[w] # <<u, k'.id[u]>>
      BY <1>2, <2>1, <2>2, LifeFacts
    <3> QED BY <1>3, <2>2, <3>1 DEF Asks
  <2>3. CASE w # t
    BY <1>1, <1>2, <1>3, <2>1, <2>3 DEF Asks
  <2> QED BY <2>2, <2>3
<1>7. CollectorsWait'
  <2>1. ASSUME NEW w \in Desc, NEW u \in k'.all_threads, Alive(u)', Asks(w, u)'
        PROVE  w \in ToSet(k'.q[join_queue(u)])
    <3>1. u \in k.all_threads /\ u \in Desc /\ Asks(w, u) /\ Alive(u)
      BY <1>1, <1>3, <1>5, <1>6, <2>1, LifeFacts
    <3> QED BY <1>1, <3>1 DEF CollectInv, CollectorsWait
  <2> QED BY <2>1 DEF CollectorsWait
<1>8. RefsClaimed'
  <2>1. ASSUME NEW u \in k'.all_threads
        PROVE  k'.ref_cnt[u] <= (IF Alive(u)' THEN 1 ELSE 0) + Cardinality(Collectors(u)')
    <3>1. CASE u = t
      <4>1. Collectors(t)' = {}
        BY <1>5 DEF Collectors
      <4> QED BY <1>1, <1>3, <3>1, <4>1, FS_EmptySet
    <3>2. CASE u # t
      <4>1. u \in k.all_threads /\ u \in Desc \ {t}
        BY <1>1, <3>2, LifeFacts
      <4>2. Collectors(u)' = Collectors(u)
        BY <1>6, <4>1 DEF Collectors
      <4> QED BY <1>1, <1>3, <4>1, <4>2 DEF CollectInv, RefsClaimed
    <3> QED BY <3>1, <3>2
  <2> QED BY <2>1 DEF RefsClaimed
<1> QED BY <1>4, <1>7, <1>8 DEF CollectInv

LEMMA ExitCollected ==
  ASSUME IInv, CollectInv, NEW t \in Desc, Exits(t)
  PROVE  CollectInv'
<1>1. /\ k'.all_threads \subseteq k.all_threads /\ k.all_threads \subseteq k'.all_threads \cup {t}
      /\ \A v \in k'.all_threads : k'.id[v] = k.id[v]
      /\ k'.ids.last_id = k.ids.last_id
      /\ handles' = handles /\ joining' = joining /\ joining[t] = NoHandle
      /\ \A v \in Desc : k'.ref_cnt[v] = IF v = t THEN k.ref_cnt[t] - 1 ELSE k.ref_cnt[v]
      /\ \A v \in Desc \ {t} : k'.q[join_queue(v)] = k.q[join_queue(v)]
  BY DEF Exits, Exited
<1>2. Alive(t) /\ ~Alive(t)' /\ \A v \in Desc \ {t} : Alive(v)' <=> Alive(v)
  BY LifeFacts DEF Exits, Exited, Alive
<1>3. HandlesOld'
  BY <1>1 DEF CollectInv, HandlesOld
<1>4. ASSUME NEW u \in k'.all_threads, NEW w \in Desc
      PROVE  Asks(w, u)' <=> Asks(w, u)
  <2>1. u \in k.all_threads /\ u \in Desc /\ k'.id[u] = k.id[u] /\ joining'[w] = joining[w]
    BY <1>1, LifeFacts
  <2>2. CASE w = t
    <3>1. joining[w] # <<u, k.id[u]>>
      BY <1>1, <2>1, <2>2, LifeFacts
    <3> QED BY <2>1, <3>1 DEF Asks
  <2>3. CASE w # t
    BY <1>2, <2>1, <2>3 DEF Asks
  <2> QED BY <2>2, <2>3
<1>5. CollectorsWait'
  <2>1. ASSUME NEW w \in Desc, NEW u \in k'.all_threads, Alive(u)', Asks(w, u)'
        PROVE  w \in ToSet(k'.q[join_queue(u)])
    <3>1. u \in k.all_threads /\ u \in Desc \ {t} /\ Asks(w, u) /\ Alive(u)
      BY <1>1, <1>2, <1>4, <2>1, LifeFacts
    <3> QED BY <1>1, <3>1 DEF CollectInv, CollectorsWait
  <2> QED BY <2>1 DEF CollectorsWait
<1>6. RefsClaimed'
  <2>1. ASSUME NEW u \in k'.all_threads
        PROVE  k'.ref_cnt[u] <= (IF Alive(u)' THEN 1 ELSE 0) + Cardinality(Collectors(u)')
    <3>1. u \in k.all_threads /\ u \in Desc /\ Collectors(u)' = Collectors(u)
      BY <1>1, <1>4, LifeFacts DEF Collectors
    <3>2. k.ref_cnt[u] <= (IF Alive(u) THEN 1 ELSE 0) + Cardinality(Collectors(u))
      BY <3>1 DEF CollectInv, RefsClaimed
    <3>3. Cardinality(Collectors(u)) \in Nat /\ k.ref_cnt[u] \in Int
      BY <3>1, CollectorsFinite, LifeFacts
    <3> QED BY <1>1, <1>2, <3>1, <3>2, <3>3
  <2> QED BY <2>1 DEF RefsClaimed
<1> QED BY <1>3, <1>5, <1>6 DEF CollectInv

LEMMA JoinCollected ==
  ASSUME IInv, CollectInv, NEW h \in ProgHandle, Joins(h)
  PROVE  CollectInv'
<1> DEFINE t == h[1]
<1>0. PICK s \in Desc : s = Self
  BY LifeFacts
<1>1. /\ t \in k.all_threads /\ t \in Desc /\ Alive(t) /\ h = <<t, k.id[t]>>
      /\ h \in WaitArg /\ handles' = handles
  BY LifeFacts DEF Joins, Alive, Valid, ProgHandle
<1>2. /\ k'.all_threads = k.all_threads /\ k'.ids = k.ids /\ k'.id = k.id
      /\ \A v \in Desc :
           /\ k'.ref_cnt[v] = IF v = t THEN k.ref_cnt[v] + 1 ELSE k.ref_cnt[v]
           /\ Alive(v)' <=> Alive(v)
           /\ k'.q[join_queue(v)] = IF v = t THEN Append(k.q[join_queue(v)], s)
                                             ELSE k.q[join_queue(v)]
  BY <1>0 DEF Joins, Blocked, Alive
<1>3. joining'[s] = h /\ \A v \in Desc \ {s} : joining'[v] = joining[v]
  BY <1>0, LifeFacts DEF Joins
<1>4. joining[s] # NoHandle => joining[s] = h
  BY <1>0, <1>1 DEF WaitArg
<1>5. Alive(s) /\ ~Asks(s, t)
  <2>1. s \notin ToSet(k.q[join_queue(t)])
    BY <1>0, <1>1, LifeFacts, QueueNames
       DEF IInv, GInv, Good, Consistent, QueuesOK, Belongs, ACTIVE, READY, WAIT
  <2> QED BY <1>0, <1>1, <2>1, LifeFacts DEF CollectInv, CollectorsWait
<1>6. ASSUME NEW u \in k.all_threads, NEW w \in Desc
      PROVE  Asks(w, u)' <=> Asks(w, u) \/ (w = s /\ u = t)
  <2>1. u \in Desc
    BY LifeFacts
  <2>2. CASE w = s
    <3>1. Asks(w, u)' <=> u = t
      BY <1>1, <1>2, <1>3, <1>5, <2>2 DEF Asks
    <3>2. ~Asks(w, u)
      BY <1>1, <1>4, <1>5, <2>1, <2>2, LifeFacts DEF Asks
    <3> QED BY <2>2, <3>1, <3>2
  <2>3. CASE w # s
    BY <1>2, <1>3, <2>3 DEF Asks
  <2> QED BY <2>2, <2>3
<1>7. HandlesOld'
  <2>1. h[2] <= k.ids.last_id
    BY <1>1, LifeFacts
  <2>2. ASSUME NEW w \in Desc PROVE joining'[w][2] <= k.ids.last_id
    <3>1. CASE w = s
      BY <1>3, <2>1, <3>1
    <3>2. CASE w # s
      BY <1>3, <3>2 DEF CollectInv, HandlesOld
    <3> QED BY <3>1, <3>2
  <2> QED BY <1>1, <1>2, <2>2 DEF CollectInv, HandlesOld
<1>8. CollectorsWait'
  <2>1. ASSUME NEW w \in Desc, NEW u \in k'.all_threads, Alive(u)', Asks(w, u)'
        PROVE  w \in ToSet(k'.q[join_queue(u)])
    <3>0. k.q[join_queue(u)] \in Seq(Desc) /\ u \in k.all_threads /\ u \in Desc
      BY <1>2, LifeFacts
    <3>1. w \in ToSet(k.q[join_queue(u)]) \/ (w = s /\ u = t)
      BY <1>2, <1>6, <2>1, <3>0 DEF CollectInv, CollectorsWait
    <3>2. ToSet(Append(k.q[join_queue(u)], s)) = ToSet(k.q[join_queue(u)]) \cup {s}
      BY <1>0, <3>0, AppendList
    <3> QED BY <1>2, <3>0, <3>1, <3>2
  <2> QED BY <2>1 DEF CollectorsWait
<1>9. RefsClaimed'
  <2>1. ASSUME NEW u \in k'.all_threads
        PROVE  k'.ref_cnt[u] <= (IF Alive(u)' THEN 1 ELSE 0) + Cardinality(Collectors(u)')
    <3>1. u \in k.all_threads /\ u \in Desc /\ k.ref_cnt[u] \in Int
      BY <1>2, LifeFacts
    <3>2. k.ref_cnt[u] <= (IF Alive(u) THEN 1 ELSE 0) + Cardinality(Collectors(u))
      BY <3>1 DEF CollectInv, RefsClaimed
    <3>3. Cardinality(Collectors(u)) \in Nat /\ IsFiniteSet(Collectors(u))
      BY CollectorsFinite
    <3>4. CASE u = t
      <4>1. Collectors(u)' = Collectors(u) \cup {s} /\ s \notin Collectors(u)
        BY <1>5, <1>6, <3>1, <3>4 DEF Collectors
      <4>2. Cardinality(Collectors(u)') = Cardinality(Collectors(u)) + 1
        BY <3>3, <4>1, FS_AddElement
      <4> QED BY <1>2, <3>1, <3>2, <3>3, <3>4, <4>2
    <3>5. CASE u # t
      <4>1. Collectors(u)' = Collectors(u)
        BY <1>6, <3>1, <3>5 DEF Collectors
      <4> QED BY <1>2, <3>1, <3>2, <3>3, <3>5, <4>1
    <3> QED BY <3>4, <3>5
  <2> QED BY <2>1 DEF RefsClaimed
<1> QED BY <1>7, <1>8, <1>9 DEF CollectInv

LEMMA CollectCollected ==
  ASSUME IInv, CollectInv, NEW h \in ProgHandle, Collects(h)
  PROVE  CollectInv'
<1> DEFINE t == h[1]
<1>0. PICK s \in Desc : s = Self
  BY LifeFacts
<1>1. /\ t \in k.all_threads /\ t \in Desc /\ ~Alive(t) /\ h = <<t, k.id[t]>>
      /\ h \in WaitArg /\ handles' = handles
  BY LifeFacts DEF Collects, Alive, Valid, ProgHandle
<1>2. /\ k'.all_threads \subseteq k.all_threads /\ k.all_threads \subseteq k'.all_threads \cup {t}
      /\ k'.ids.last_id = k.ids.last_id /\ k'.q = k.q
      /\ \A v \in k'.all_threads : k'.id[v] = k.id[v]
      /\ \A v \in Desc : k'.ref_cnt[v] = IF v = t THEN k.ref_cnt[v] - 1 ELSE k.ref_cnt[v]
  BY DEF Collects, Collected, SameLists
<1>3. \A v \in Desc : Alive(v)' <=> Alive(v)
  BY <1>1, <1>2 DEF Collects, Collected, SameLists, Alive
<1>4. joining'[s] = NoHandle /\ \A v \in Desc \ {s} : joining'[v] = joining[v]
  BY <1>0, LifeFacts DEF Collects
<1>5. joining[s] # NoHandle => joining[s] = h
  BY <1>0, <1>1 DEF WaitArg
<1>6. ASSUME NEW u \in k'.all_threads, NEW w \in Desc
      PROVE  Asks(w, u)' <=> Asks(w, u) /\ ~(w = s /\ u = t)
  <2>1. u \in Desc /\ u \in k.all_threads /\ k'.id[u] = k.id[u]
    BY <1>2, LifeFacts
  <2>2. CASE w = s
    <3>1. ~Asks(w, u)'
      <4>1. joining'[w] # <<u, k'.id[u]>>
        BY <1>4, <2>1, <2>2, LifeFacts
      <4> QED BY <4>1 DEF Asks
    <3>2. Asks(w, u) => u = t
      BY <1>1, <1>5, <2>1, <2>2, LifeFacts DEF Asks
    <3> QED BY <2>2, <3>1, <3>2
  <2>3. CASE w # s
    BY <1>3, <1>4, <2>1, <2>3 DEF Asks
  <2> QED BY <2>2, <2>3
<1>7. HandlesOld'
  <2>1. ASSUME NEW w \in Desc PROVE joining'[w][2] <= k.ids.last_id
    <3>1. CASE w = s
      BY <1>4, <3>1, LifeFacts
    <3>2. CASE w # s
      BY <1>4, <3>2 DEF CollectInv, HandlesOld
    <3> QED BY <3>1, <3>2
  <2> QED BY <1>1, <1>2, <2>1 DEF CollectInv, HandlesOld
<1>8. CollectorsWait'
  <2>1. ASSUME NEW w \in Desc, NEW u \in k'.all_threads, Alive(u)', Asks(w, u)'
        PROVE  w \in ToSet(k'.q[join_queue(u)])
    <3>1. u \in k.all_threads /\ u \in Desc /\ Alive(u) /\ Asks(w, u)
      BY <1>2, <1>3, <1>6, <2>1, LifeFacts
    <3> QED BY <1>2, <3>1 DEF CollectInv, CollectorsWait
  <2> QED BY <2>1 DEF CollectorsWait
<1>9. RefsClaimed'
  <2>1. ASSUME NEW u \in k'.all_threads
        PROVE  k'.ref_cnt[u] <= (IF Alive(u)' THEN 1 ELSE 0) + Cardinality(Collectors(u)')
    <3>1. u \in k.all_threads /\ u \in Desc /\ k.ref_cnt[u] \in Int
      BY <1>2, LifeFacts
    <3>2. k.ref_cnt[u] <= (IF Alive(u) THEN 1 ELSE 0) + Cardinality(Collectors(u))
      BY <3>1 DEF CollectInv, RefsClaimed
    <3>3. Cardinality(Collectors(u)) \in Nat /\ IsFiniteSet(Collectors(u))
      BY CollectorsFinite
    <3>4. CASE u = t /\ Asks(s, t)
      <4>1. Collectors(u)' = Collectors(u) \ {s} /\ s \in Collectors(u)
        BY <1>6, <3>1, <3>4 DEF Collectors
      <4>2. Cardinality(Collectors(u)') = Cardinality(Collectors(u)) - 1
        BY <3>3, <4>1, FS_RemoveElement
      <4> QED BY <1>2, <1>3, <3>1, <3>2, <3>3, <3>4, <4>2
    <3>5. CASE ~(u = t /\ Asks(s, t))
      <4>1. Collectors(u)' = Collectors(u)
        BY <1>6, <3>1, <3>5 DEF Collectors
      <4>2. k'.ref_cnt[u] <= k.ref_cnt[u]
        BY <1>2, <3>1
      <4>3. k'.ref_cnt[u] \in Int
        BY <1>2, <3>1
      <4> QED BY <1>3, <3>1, <3>2, <3>3, <4>1, <4>2, <4>3
    <3> QED BY <3>4, <3>5
  <2> QED BY <2>1 DEF RefsClaimed
<1> QED BY <1>7, <1>8, <1>9 DEF CollectInv

LEMMA StaysCollected ==
  ASSUME IInv, CollectInv, Stays
  PROVE  CollectInv'
<1>0. PICK s \in Desc : s = Self /\ Alive(s)
  BY LifeFacts
<1>1. k' = k /\ handles' \subseteq handles \cup {<<s, k.id[s]>>}
  BY <1>0 DEF Stays
<1>2. ASSUME NEW w \in Desc
      PROVE  \/ joining'[w] = joining[w]
             \/ joining'[w] = NoHandle /\ (joining[w] = NoHandle \/ ~Valid(joining[w]))
  <2>1. CASE w = s
    BY <1>0, <2>1, LifeFacts DEF Stays
  <2>2. CASE w # s
    BY <1>0, <2>2, LifeFacts DEF Stays
  <2> QED BY <2>1, <2>2
<1>3. HandlesOld'
  <2>1. k.id[s] <= k.ids.last_id
    BY <1>0, LifeFacts DEF Alive
  <2>2. ASSUME NEW w \in Desc PROVE joining'[w][2] <= k.ids.last_id
    <3>1. CASE joining'[w] = joining[w]
      BY <3>1 DEF CollectInv, HandlesOld
    <3>2. CASE joining'[w] = NoHandle
      BY <3>2, LifeFacts
    <3> QED BY <1>2, <3>1, <3>2
  <2>3. ASSUME NEW h \in handles' PROVE h[2] <= k.ids.last_id
    <3>1. CASE h \in handles
      BY <3>1 DEF CollectInv, HandlesOld
    <3>2. CASE h = <<s, k.id[s]>>
      BY <2>1, <3>2
    <3> QED BY <1>1, <2>3, <3>1, <3>2
  <2> QED BY <1>1, <2>2, <2>3 DEF HandlesOld
<1>4. ASSUME NEW u \in k.all_threads, NEW w \in Desc
      PROVE  Asks(w, u)' <=> Asks(w, u)
  <2>1. Alive(w)' <=> Alive(w)
    BY <1>1 DEF Alive
  <2>2. joining'[w] = <<u, k.id[u]>> <=> joining[w] = <<u, k.id[u]>>
    <3>1. NoHandle # <<u, k.id[u]>>
      BY LifeFacts
    <3>2. joining[w] = <<u, k.id[u]>> => Valid(joining[w])
      BY DEF Valid
    <3> QED BY <1>2, <3>1, <3>2
  <2> QED BY <1>1, <2>1, <2>2 DEF Asks
<1>5. CollectorsWait'
  <2>1. ASSUME NEW w \in Desc, NEW u \in k.all_threads, Alive(u), Asks(w, u)'
        PROVE  w \in ToSet(k.q[join_queue(u)])
    BY <1>4, <2>1 DEF CollectInv, CollectorsWait
  <2> QED BY <1>1, <2>1 DEF CollectorsWait, Alive
<1>6. RefsClaimed'
  <2>1. ASSUME NEW u \in k.all_threads PROVE Collectors(u)' = Collectors(u)
    BY <1>4 DEF Collectors
  <2> QED BY <1>1, <2>1 DEF CollectInv, RefsClaimed, Alive
<1> QED BY <1>3, <1>5, <1>6 DEF CollectInv

LEMMA InitCollected == Init => CollectInv
<1> SUFFICES ASSUME Init PROVE CollectInv
  OBVIOUS
<1>1. /\ k.all_threads = {Idle, Main} /\ Alive(Idle) /\ Alive(Main)
      /\ k.ref_cnt[Idle] = 1 /\ k.ref_cnt[Main] = 1
  BY FirstThreads
<1>2. handles = {} /\ \A w \in Desc : joining[w] = NoHandle
  BY DEF Init
<1>3. IInv
  BY InitInv
<1>4. \A w \in Desc, t \in k.all_threads : ~Asks(w, t)
  BY <1>2, <1>3, LifeFacts DEF Asks
<1>5. HandlesOld
  BY <1>2, <1>3, LifeFacts DEF HandlesOld
<1>6. CollectorsWait
  BY <1>4 DEF CollectorsWait
<1>7. RefsClaimed
  BY <1>1, CollectorsFinite DEF RefsClaimed
<1> QED BY <1>5, <1>6, <1>7 DEF CollectInv

LEMMA CollectInvariant ==
  ASSUME CancelUsed = FALSE
  PROVE  Spec => []CollectInv
<1>1. IInv /\ CollectInv /\ [Next]_vars => CollectInv'
  BY LifeSteps, BornCollected, ExitCollected, JoinCollected, CollectCollected, StaysCollected
<1> QED BY <1>1, InitCollected, InvInvariant, PTL DEF Spec

(***************************************************************************)
(* When no program calls cancel_thread, the descriptor of a finished       *)
(* thread is kept only for a live thread that is to collect its status     *)
(* (sys__wait_for_thread, "some thread still must collect its status").    *)
(***************************************************************************)
THEOREM FinishedAlwaysHaveCollector ==
  ASSUME CancelUsed = FALSE
  PROVE  Spec => []FinishedHasCollector
<1>1. ASSUME IInv, CollectInv, NEW t \in k.all_threads, k.state[t] = PASSIVE
      PROVE  \E w \in Desc : Alive(w) /\ joining[w] = <<t, k.id[t]>>
  <2>1. k.ref_cnt[t] >= 1 /\ k.ref_cnt[t] \in Int
    BY <1>1, LifeFacts DEF IInv, GInv, Good, RefsOK
  <2>2. k.ref_cnt[t] <= Cardinality(Collectors(t)) /\ Cardinality(Collectors(t)) \in Nat
    BY <1>1, <2>1, CollectorsFinite DEF CollectInv, RefsClaimed, Alive
  <2>3. Collectors(t) # {}
    BY <2>1, <2>2, FS_EmptySet
  <2> QED BY <2>3 DEF Collectors, Asks
<1>2. IInv /\ CollectInv => FinishedHasCollector
  BY <1>1 DEF FinishedHasCollector
<1> QED BY <1>2, CollectInvariant, InvInvariant, PTL

=============================================================================
