------------------------------ MODULE Threads -------------------------------
(***************************************************************************)
(* Programs and the thread system calls they make (kernel/thread.c, the    *)
(* sys__ functions, and the retry loop of programs/api/thread.c).          *)
(*                                                                         *)
(* A step is one system call of the active thread, from entry to return.   *)
(* Programs are arbitrary: between two calls nothing is assumed of them,   *)
(* except that a thread inside wait_for_thread repeats the call as long as *)
(* it returns E_RETRY.                                                     *)
(***************************************************************************)
EXTENDS KThread

CONSTANTS
  UserPrio,          \* priorities programs ask for (any integers)
  THR_DEFAULT_PRIO,  \* used when a program is started with priority 0
  ExitStatus,        \* values programs exit with
  Main, MainProc,    \* where the descriptors of the first program are put
  MaxIds,            \* bound: threads created in a behaviour, idle included
  CancelUsed,        \* programs call cancel_thread
  MaxJoiners         \* bound: threads waiting for the same thread

ASSUME ThreadsAssumption ==
  /\ UserPrio \subseteq Int /\ ExitStatus \subseteq Int
  /\ THR_DEFAULT_PRIO \in Prio \ {0}
  /\ Main \in Desc \ {Idle} /\ MainProc \in Proc \ {KernelProc}
  /\ MaxIds \in Nat \ {0, 1} /\ MaxIds < MASK_BITS
  /\ CancelUsed \in BOOLEAN /\ MaxJoiners \in Nat

VARIABLES
  k,        \* the kernel's thread subsystem
  handles,  \* thread_t values programs have: <<descriptor, id>> pairs
  joining   \* joining[t]: the handle t is in wait_for_thread for, or NoHandle

vars == <<k, handles, joining>>

Handle   == Desc \X Id
NoHandle == <<NULL, 0>>

Self == k.active_thread

\* thread->thread and thread->thr_id still name the same thread.
Valid(h) == k.id[h[1]] = h[2]

StartPrio(prio) == IF prio = 0 THEN THR_DEFAULT_PRIO ELSE prio

\* k_startup: kthreads_init, then the first program is started.
Init ==
  /\ k = kthread_start_process(kthreads_init, Main, MainProc, THR_DEFAULT_PRIO)
  /\ handles = {}
  /\ joining = [t \in Desc |-> NoHandle]

(***************************************************************************)
(* A program can make a call: its thread is active, the kernel runs, and   *)
(* the process image the thread executes from has not been freed (of what  *)
(* happens after that nothing is said).  The idle thread only suspends.    *)
(***************************************************************************)
UserCall ==
  /\ Running(k)
  /\ Self # Idle
  /\ k.proc[Self] \in k.procs

\* The thread is not inside the retry loop of wait_for_thread.
FreeToCall == UserCall /\ joining[Self] = NoHandle

\* Bound: MaxIds threads in a behaviour, so that last_id does not wrap (what a
\* wrap does is the subject of IdPool).
MoreThreads == k.ids.last_id < MaxIds

-----------------------------------------------------------------------------
sys__create_thread ==
  /\ FreeToCall /\ MoreThreads
  /\ \E t \in FreeDesc(k), prio \in UserPrio :
       /\ k' = kthreads_schedule(kthread_create(k, t, prio, k.proc[Self]))
       /\ handles' = handles \cup {<<t, k'.id[t]>>}
       /\ joining' = [joining EXCEPT ![t] = NoHandle]

sys__start_program ==
  /\ FreeToCall /\ MoreThreads
  /\ \E t \in FreeDesc(k), pr \in FreeProc(k), prio \in UserPrio :
       /\ k' = kthread_start_process(k, t, pr, StartPrio(prio))
       /\ handles' = handles \cup {<<t, k'.id[t]>>}
       /\ joining' = [joining EXCEPT ![t] = NoHandle]

sys__thread_exit ==
  /\ FreeToCall
  /\ \E status \in ExitStatus : k' = kthread_cancel(k, Self, status)
  /\ UNCHANGED <<handles, joining>>

sys__thread_self ==
  /\ FreeToCall
  /\ handles' = handles \cup {<<Self, k.id[Self]>>}
  /\ UNCHANGED <<k, joining>>

-----------------------------------------------------------------------------
(***************************************************************************)
(* sys__wait_for_thread, one action per branch.                            *)
(***************************************************************************)
\* The handles the caller may pass: the one it is retrying, or any it has.
WaitArg ==
  IF joining[Self] # NoHandle THEN {joining[Self]}
  ELSE {h \in handles : Cardinality({t \in Desc : joining[t] = h}) < MaxJoiners}

\* The id does not match, "at 'kthread' is now something else": return 0.
WaitGone ==
  /\ UserCall
  /\ \E h \in WaitArg : ~Valid(h)
  /\ joining' = [joining EXCEPT ![Self] = NoHandle]
  /\ UNCHANGED <<k, handles>>

\* Not finished and wait = 0: return E_NOT_FINISHED, leaving the retry loop.
WaitPoll ==
  /\ FreeToCall
  /\ \E h \in handles : Valid(h) /\ k.state[h[1]] # PASSIVE
  /\ UNCHANGED vars

\* Mutation: the waiting thread takes no reference.
WaitBlock_unreferenced ==
  /\ UserCall
  /\ \E h \in WaitArg :
       /\ Valid(h)
       /\ k.state[h[1]] # PASSIVE
       /\ k' = kthreads_schedule(kthread_enqueue(k, Self, join_queue(h[1])))
       /\ joining' = [joining EXCEPT ![Self] = h]
  /\ UNCHANGED handles

\* Not finished: take a reference, block, and be told to retry.
WaitBlock ==
  /\ UserCall
  /\ \E h \in WaitArg :
       LET t == h[1]
       IN  /\ Valid(h)
           /\ k.state[t] # PASSIVE
           /\ k' = kthreads_schedule(
                     kthread_enqueue([k EXCEPT !.ref_cnt[t] = @ + 1], Self, join_queue(t)))
           /\ joining' = [joining EXCEPT ![Self] = h]
  /\ UNCHANGED handles

\* Mutation: the last collector does not free the descriptor.
Collect_kept(t) == [k EXCEPT !.ref_cnt[t] = @ - 1]

\* Finished: return its exit status, and free the descriptor if nobody else needs
\* it.
Collect(t) ==
  LET k1 == [k EXCEPT !.ref_cnt[t] = @ - 1]
  IN  IF k1.ref_cnt[t] = 0 THEN kthread_remove_descriptor(k1, t) ELSE k1

WaitCollect ==
  /\ UserCall
  /\ \E h \in WaitArg :
       /\ Valid(h)
       /\ k.state[h[1]] = PASSIVE
       /\ k' = Collect(h[1])
  /\ joining' = [joining EXCEPT ![Self] = NoHandle]
  /\ UNCHANGED handles

(***************************************************************************)
(* sys__cancel_thread of a ready or blocked thread.  The macro EXIT        *)
(* evaluates its argument twice, once to set errno and once to return, so  *)
(* kthread_cancel is called twice with the same descriptor.                *)
(***************************************************************************)
CancelTwice(t) == kthread_cancel(kthread_cancel(k, t, -1), t, -1)

sys__cancel_thread ==
  /\ CancelUsed
  /\ FreeToCall
  /\ \E h \in handles :
       /\ Valid(h)
       /\ k.state[h[1]] \in {READY, WAIT}
       /\ k' = CancelTwice(h[1])
       /\ joining' = [joining EXCEPT ![h[1]] = NoHandle]
  /\ UNCHANGED handles

\* sys__cancel_thread of a thread that is gone, finished or the caller itself.
CancelRefused ==
  /\ CancelUsed
  /\ FreeToCall
  /\ \E h \in handles : Valid(h) => k.state[h[1]] \in {PASSIVE, ACTIVE}
  /\ UNCHANGED vars

\* The idle thread waits for an interrupt.
sys__suspend ==
  /\ Running(k)
  /\ Self = Idle
  /\ UNCHANGED vars

Next ==
  \/ sys__create_thread
  \/ sys__start_program
  \/ sys__thread_exit
  \/ sys__thread_self
  \/ WaitGone
  \/ WaitPoll
  \/ WaitBlock
  \/ WaitCollect
  \/ sys__cancel_thread
  \/ CancelRefused
  \/ sys__suspend

Spec == Init /\ [][Next]_vars

(***************************************************************************)
(* Programs terminate: as long as some thread can make a call, calls go on *)
(* being made (this is WF_vars(Next), with UserCall for ENABLED, which TLC *)
(* evaluates much faster), and since a behaviour creates at most MaxIds    *)
(* threads they cannot go on for ever.  The retry loop of wait_for_thread  *)
(* repeats its call.                                                       *)
(***************************************************************************)
ProgramsGoOn == []<>~UserCall \/ []<><<Next>>_vars

FairSpec == Spec /\ ProgramsGoOn /\ WF_vars(WaitGone) /\ WF_vars(WaitCollect)

-----------------------------------------------------------------------------
TypeOK ==
  /\ k \in KState
  /\ handles \subseteq Handle
  /\ joining \in [Desc -> Handle \cup {NoHandle}]

(***************************************************************************)
(* No ASSERT of thread.c or of the id allocator ever fails: there is       *)
(* always a thread to run (kthreads_schedule), a descriptor or a process   *)
(* is removed from its list once (kthread_remove_descriptor,               *)
(* kthread_cancel), and the id given back is one that is in use.           *)
(***************************************************************************)
NoAssertFails == Running(k)

(***************************************************************************)
(* The queues, the descriptors and rdy_mask agree, whatever calls made     *)
(* them: a thread is in at most one queue and once, kthread->queue names   *)
(* it, its state says whether that is a ready queue, the ready queue is    *)
(* the one of its priority, its descriptor is allocated, and a mask bit is *)
(* set exactly for the levels whose queue is not empty.                    *)
(***************************************************************************)
QueuesConsistent ==
  /\ \A Q \in Queue :
       /\ \A i, j \in 1 .. Len(k.q[Q]) : k.q[Q][i] = k.q[Q][j] => i = j
       /\ \A t \in ToSet(k.q[Q]) :
            /\ t \in k.all_threads
            /\ k.queue[t] = Q
            /\ k.state[t] = (IF Q \in ReadyQueue THEN READY ELSE WAIT)
            /\ Q \in ReadyQueue => Q = ready_q(k.prio[t])
  /\ \A i \in MaskWord, b \in MaskBit :
       b \in k.rdy_mask[i] <=> \E p \in Prio : p = i * WORD + b /\ k.q[ready_q(p)] # <<>>

(***************************************************************************)
(* Exactly one thread is active, it is active_thread, and no ready thread  *)
(* has a higher priority when the kernel returns to it: the "priority      *)
(* scheduler" of kernel/sched.h, kept by kthreads_schedule at the end of   *)
(* every call that makes threads ready.                                    *)
(***************************************************************************)
HighestPriorityRuns ==
  /\ Self \in k.all_threads
  /\ \A t \in Desc : k.state[t] = ACTIVE <=> t = Self
  /\ \A p \in Prio : k.q[ready_q(p)] # <<>> => p <= k.prio[Self]

(***************************************************************************)
(* A thread blocked in sys__wait_for_thread holds a reference to the       *)
(* descriptor it waits on: the join queue is never that of a freed         *)
(* descriptor, nor of a thread that has already exited (its waiters have   *)
(* been released), and a descriptor is freed when its count gets to zero.  *)
(***************************************************************************)
WaitersHoldReferences ==
  \A t \in Desc :
    IF t \in k.all_threads /\ k.state[t] # PASSIVE
    THEN k.ref_cnt[t] >= 1 + Len(k.q[join_queue(t)])
    ELSE /\ k.q[join_queue(t)] = <<>>
         /\ t \in k.all_threads <=> k.ref_cnt[t] >= 1

(***************************************************************************)
(* A process exists as long as one of its threads does, and thr_count says *)
(* how many there are: kthread_cancel removes the process with its "last   *)
(* (non-kernel) thread".                                                   *)
(***************************************************************************)
Alive(t) == t \in k.all_threads /\ k.state[t] # PASSIVE

ProcessOutlivesThreads == \A t \in Desc : Alive(t) => k.proc[t] \in k.procs

ThreadsCounted ==
  \A pr \in k.procs : k.thr_count[pr] = Cardinality({t \in Desc : Alive(t) /\ k.proc[t] = pr})

(***************************************************************************)
(* A descriptor of a finished thread is kept only while some live thread   *)
(* is still to collect its status ("thread descriptor still not freed -    *)
(* some thread still must collect its status", sys__wait_for_thread).      *)
(***************************************************************************)
FinishedHasCollector ==
  \A t \in k.all_threads :
    k.state[t] = PASSIVE => \E w \in Desc : Alive(w) /\ joining[w] = <<t, k.id[t]>>

(***************************************************************************)
(* "FIFO for threads with same priority" (kernel/sched.h), and the same    *)
(* for blocked threads: two threads that stay in a queue over a step keep  *)
(* their order, and a thread that enters it is behind those that were      *)
(* there (kthread_move_to_ready LAST, kthread_enqueue, release_all).       *)
(***************************************************************************)
Before(s, a, b) == \E i, j \in 1 .. Len(s) : i < j /\ s[i] = a /\ s[j] = b

QueuesAreFifo ==
  [][\A Q \in Queue : \A a \in ToSet(k.q[Q]) : \A b \in ToSet(k'.q[Q]) :
       /\ a \in ToSet(k'.q[Q]) /\ a # b
       /\ b \in ToSet(k.q[Q]) => Before(k.q[Q], a, b)
       => Before(k'.q[Q], a, b)]_vars

(***************************************************************************)
(* A thread waiting for a thread that has ended (is neither active nor in  *)
(* any queue) returns from wait_for_thread, unless it is cancelled or its  *)
(* process removed first: the release of the join queue in kthread_cancel  *)
(* and the retry loop together lose nobody.                                *)
(***************************************************************************)
Ended(t) == t # Self /\ \A Q \in Queue : t \notin ToSet(k.q[Q])

WaiterReturns ==
  \A w \in Desc :
    joining[w] # NoHandle /\ Ended(joining[w][1]) ~>
      joining[w] = NoHandle \/ ~Alive(w) \/ k.proc[w] \notin k.procs
=============================================================================
