------------------------------ MODULE KThread -------------------------------
(***************************************************************************)
(* The thread subsystem of the kernel (kernel/thread.c) as operators on    *)
(* its state.  The kernel runs with interrupts disabled on one processor,  *)
(* so everything between the entry into a system call or an interrupt      *)
(* handler and the return to a thread is one step; a handler is modelled   *)
(* by composing the operators below in the order of its calls.             *)
(*                                                                         *)
(* The state is a record k: the fields of the descriptors (kthread_t,      *)
(* kprocess_t) as functions, all thread queues in one function k.q indexed *)
(* by the queue's name, and the static variables of thread.c.  A freed     *)
(* descriptor keeps its fields: kfree writes only to the first words of    *)
(* the chunk, where the saved context is.                                  *)
(***************************************************************************)
EXTENDS UniqueId, SequencesExt

CONSTANTS
  Desc,          \* addresses a thread descriptor may be allocated at
  Idle,          \* the descriptor of the idle thread
  Proc,          \* addresses of process descriptors
  KernelProc,    \* kernel_proc, the process of the idle thread
  WaitQueue,     \* names of queues other modules block threads on
  NULL,
  PRIO_LEVELS,   \* number of priorities
  WORD           \* sizeof (word_t): levels kept in one word of rdy_mask

ASSUME KThreadAssumption ==
  /\ IsFiniteSet(Desc) /\ Idle \in Desc /\ NULL \notin Desc
  /\ KernelProc \in Proc
  /\ PRIO_LEVELS \in Nat \ {0}
  /\ WORD \in Nat \ {0}

Prio      == 0 .. PRIO_LEVELS - 1
RDY_MASKS == (PRIO_LEVELS + WORD - 1) \div WORD
MaskWord  == 0 .. RDY_MASKS - 1
MaskBit   == 0 .. WORD - 1

ACTIVE  == "ACTIVE"
READY   == "READY"
WAIT    == "WAIT"
PASSIVE == "PASSIVE"
ThreadState == {ACTIVE, READY, WAIT, PASSIVE}

\* Names of the queues: ready_q[p], a thread's join_queue, and all others.
ready_q(p)    == <<"ready", p>>
join_queue(t) == <<"join", t>>
wait_q(w)     == <<"wait", w>>
ReadyQueue    == {ready_q(p) : p \in Prio}
BlockedQueue  == {join_queue(t) : t \in Desc} \cup {wait_q(w) : w \in WaitQueue}
Queue         == ReadyQueue \cup BlockedQueue

\* The ASSERT that failed, if any: the kernel is halted then.  The first two are in
\* thread.c, the last one in messages.c.
AssertOutcome == {"ok", "no_ready_thread", "not_in_list", "wrong_message"}

KState ==
  [state         : [Desc -> ThreadState],
   prio          : [Desc -> Prio],
   queue         : [Desc -> Queue \cup {NULL}],
   id            : [Desc -> Id],
   ref_cnt       : [Desc -> Int],
   exit_status   : [Desc -> Int],
   proc          : [Desc -> Proc],
   q             : [Queue -> Seq(Desc)],
   rdy_mask      : [MaskWord -> SUBSET MaskBit],
   active_thread : Desc \cup {NULL},
   all_threads   : SUBSET Desc,
   thr_count     : [Proc -> Int],
   procs         : SUBSET Proc,
   ids           : UniqueIdState,
   assert        : AssertOutcome]

\* The kernel has not been stopped by a failed ASSERT.
Running(k) == k.assert = "ok" /\ k.ids.halted = "no"

-----------------------------------------------------------------------------
(***************************************************************************)
(* Thread queues: list_append, list_prepend, list_remove ( FIRST ) and     *)
(* list_find_and_remove of lib/list.c on the sequence of queued threads.   *)
(***************************************************************************)
kthreadq_append(k, Q, t)  == [k EXCEPT !.q[Q] = Append(@, t)]
kthreadq_prepend(k, Q, t) == [k EXCEPT !.q[Q] = <<t>> \o @]
kthreadq_get(k, Q)        == IF k.q[Q] = <<>> THEN NULL ELSE Head(k.q[Q])
kthreadq_remove_first(k, Q) == [k EXCEPT !.q[Q] = Tail(@)]

IndexOf(s, t) == CHOOSE i \in 1 .. Len(s) : s[i] = t

list_find_and_remove(s, t) ==
  IF t \in ToSet(s) THEN RemoveAt(s, IndexOf(s, t)) ELSE s

kthreadq_remove(k, Q, t) == [k EXCEPT !.q[Q] = list_find_and_remove(@, t)]

-----------------------------------------------------------------------------
(***************************************************************************)
(* The ready list: one queue per priority and a bit mask of the non-empty  *)
(* ones.  A word of rdy_mask is the set of its one bits.                   *)
(***************************************************************************)
msb_index(word) == CHOOSE b \in word : \A c \in word : c <= b

kthread_ready_list_highest(k) ==
  IF \A i \in MaskWord : k.rdy_mask[i] = {}
  THEN -1
  ELSE LET top == CHOOSE i \in MaskWord :
                    /\ k.rdy_mask[i] # {}
                    /\ \A j \in MaskWord : j > i => k.rdy_mask[j] = {}
       IN  top * WORD + msb_index(k.rdy_mask[top])

kthread_ready_list_set_not_empty(k, index) ==
  [k EXCEPT !.rdy_mask[index \div WORD] = @ \cup {index % WORD}]

kthread_ready_list_set_empty(k, index) ==
  [k EXCEPT !.rdy_mask[index \div WORD] = @ \ {index % WORD}]

ClearMaskIfEmpty(k, p) ==
  IF k.q[ready_q(p)] = <<>> THEN kthread_ready_list_set_empty(k, p) ELSE k

\* Mutation: FIRST for LAST.
kthread_move_to_ready_first(k, t) ==
  LET Q == ready_q(k.prio[t])
  IN  kthread_ready_list_set_not_empty(
        kthreadq_prepend([k EXCEPT !.state[t] = READY, !.queue[t] = Q], Q, t),
        k.prio[t])

\* kthread_move_to_ready ( kthread, LAST )
kthread_move_to_ready(k, t) ==
  LET Q == ready_q(k.prio[t])
  IN  kthread_ready_list_set_not_empty(
        kthreadq_append([k EXCEPT !.state[t] = READY, !.queue[t] = Q], Q, t),
        k.prio[t])

-----------------------------------------------------------------------------
(***************************************************************************)
(* Scheduling.                                                             *)
(***************************************************************************)
\* The first of ready_q[p] becomes the active thread.
ActivateFirst(k, p) ==
  LET next == Head(k.q[ready_q(p)])
      k1   == ClearMaskIfEmpty(kthreadq_remove_first(k, ready_q(p)), p)
  IN  [k1 EXCEPT !.active_thread = next,
                 !.state[next] = ACTIVE,
                 !.queue[next] = NULL]

CurrIsActive(k) ==
  k.active_thread # NULL /\ k.state[k.active_thread] = ACTIVE

\* Mutation: an active thread is never preempted.
MustSwitch_cooperative(k) == ~CurrIsActive(k)

\* The condition under which kthreads_schedule changes the active thread.
MustSwitch(k) ==
  CurrIsActive(k) => kthread_ready_list_highest(k) > k.prio[k.active_thread]

kthreads_schedule(k) ==
  IF ~CurrIsActive(k) /\ kthread_ready_list_highest(k) < 0
  THEN [k EXCEPT !.assert = "no_ready_thread"]
  ELSE IF MustSwitch(k)
  THEN LET k1 == IF CurrIsActive(k)
                 THEN kthread_move_to_ready(k, k.active_thread) ELSE k
       IN  ActivateFirst(k1, kthread_ready_list_highest(k1))
  ELSE k

-----------------------------------------------------------------------------
(***************************************************************************)
(* Blocking and releasing threads.                                         *)
(***************************************************************************)
kthread_enqueue(k, t, Q) ==
  kthreadq_append([k EXCEPT !.state[t] = WAIT, !.queue[t] = Q], Q, t)

\* kthreadq_release returns 1 exactly when the queue is not empty.
kthreadq_release(k, Q) ==
  IF k.q[Q] = <<>> THEN k
  ELSE kthread_move_to_ready(kthreadq_remove_first(k, Q), Head(k.q[Q]))

\* The elements of s that are in P, in their order in s (SelectSeq without
\* recursion: the n-th one is the element with n elements of P up to it).
Chosen(s, P) ==
  LET Upto(i) == {j \in 1 .. i : s[j] \in P}
  IN  [n \in 1 .. Cardinality(Upto(Len(s))) |->
         s[CHOOSE i \in 1 .. Len(s) : s[i] \in P /\ Cardinality(Upto(i)) = n]]

\* The loop of kthreadq_release_all: every thread of Q goes, in order, to the end
\* of the ready queue of its priority.
kthreadq_release_all(k, Q) ==
  LET released   == ToSet(k.q[Q])
      OfPrio(p)  == {t \in released : k.prio[t] = p}
  IN  [k EXCEPT
        !.state    = [t \in Desc |-> IF t \in released THEN READY ELSE k.state[t]],
        !.queue    = [t \in Desc |-> IF t \in released THEN ready_q(k.prio[t])
                                                       ELSE k.queue[t]],
        !.q        = [R \in Queue |->
                        IF R = Q THEN <<>>
                        ELSE IF R \in ReadyQueue
                        THEN k.q[R] \o Chosen(k.q[Q], OfPrio(R[2]))
                        ELSE k.q[R]],
        !.rdy_mask = [i \in MaskWord |->
                        k.rdy_mask[i] \cup
                        {b \in MaskBit : \E t \in released : k.prio[t] = i * WORD + b}]]

-----------------------------------------------------------------------------
(***************************************************************************)
(* Creation and end of threads and processes.                              *)
(***************************************************************************)
\* Mutation: no upper limit.
ClampPrio_noLimit(prio) == IF prio < 0 THEN 0 ELSE prio

ClampPrio(prio) ==
  IF prio < 0 THEN 0 ELSE IF prio >= PRIO_LEVELS THEN PRIO_LEVELS - 1 ELSE prio

\* kmalloc may return any address at which no descriptor is.
FreeDesc(k) == Desc \ k.all_threads
FreeProc(k) == Proc \ k.procs

(***************************************************************************)
(* kthread_create with run = 1, as all its callers ask; t is the address   *)
(* kmalloc returned.  The stack, the context, the message queue and the    *)
(* secondary scheduler's data are not part of k.                           *)
(***************************************************************************)
kthread_create(k, t, prio, proc) ==
  LET ids == k_new_unique_id(k.ids)
      k1  == [k EXCEPT
                !.ids         = ids,
                !.id          = [k.id EXCEPT ![t] = ids.last_id],
                !.state       = [k.state EXCEPT ![t] = PASSIVE],
                !.prio        = [k.prio EXCEPT ![t] = ClampPrio(prio)],
                !.queue       = [k.queue EXCEPT ![t] = NULL],
                !.exit_status = [k.exit_status EXCEPT ![t] = 0],
                !.q           = [k.q EXCEPT ![join_queue(t)] = <<>>],
                !.ref_cnt     = [k.ref_cnt EXCEPT ![t] = 1],
                !.proc        = [k.proc EXCEPT ![t] = proc],
                !.thr_count   = [k.thr_count EXCEPT ![proc] = @ + 1],
                !.all_threads = @ \cup {t}]
  IN  kthread_move_to_ready(k1, t)

kthread_remove_descriptor(k, t) ==
  [k EXCEPT !.ids = k_free_unique_id(@, k.id[t]),
            !.id[t] = 0,
            !.all_threads = @ \ {t},
            !.assert = IF t \in k.all_threads THEN @ ELSE "not_in_list"]

\* Mutation: the process is removed with its last thread but one.
RemoveProcessIfEmpty_early(k, proc) ==
  IF k.thr_count[proc] <= 1 /\ proc # KernelProc
  THEN [k EXCEPT !.procs = @ \ {proc}]
  ELSE k

\* The last thread of a process (other than kernel_proc, whose pi is NULL) is
\* gone: the process is removed from procs and freed.
RemoveProcessIfEmpty(k, proc) ==
  IF k.thr_count[proc] = 0 /\ proc # KernelProc
  THEN [k EXCEPT !.procs = @ \ {proc},
                 !.assert = IF proc \in k.procs THEN @ ELSE "not_in_list"]
  ELSE k

\* Mutation: the mask bit of a level that becomes empty is not cleared.
Detach_maskKept(k, t) ==
  CASE k.state[t] \in {READY, WAIT} -> kthreadq_remove(k, k.queue[t], t)
    [] k.state[t] = ACTIVE -> [k EXCEPT !.state[t] = PASSIVE]

\* Taking a thread that is to end off its queue, or off the processor.
Detach(k, t) ==
  CASE k.state[t] = READY  -> ClearMaskIfEmpty(kthreadq_remove(k, k.queue[t], t), k.prio[t])
    [] k.state[t] = WAIT   -> kthreadq_remove(k, k.queue[t], t)
    [] k.state[t] = ACTIVE -> [k EXCEPT !.state[t] = PASSIVE]

\* Mutation: thr_count is not decremented.
Discount_uncounted(k, t, exit_status) ==
  [k EXCEPT !.ref_cnt[t] = @ - 1, !.exit_status[t] = exit_status]

\* Dropping the thread's own reference and its place in its process.
Discount(k, t, exit_status) ==
  RemoveProcessIfEmpty(
    [k EXCEPT !.ref_cnt[t] = @ - 1,
              !.exit_status[t] = exit_status,
              !.thr_count[k.proc[t]] = @ - 1],
    k.proc[t])

\* Mutations: a negative count frees the descriptor again; the waiters are not woken.
FreeOrRelease_again(k, t) ==
  IF k.ref_cnt[t] <= 0 THEN kthread_remove_descriptor(k, t)
                       ELSE kthreadq_release_all(k, join_queue(t))
FreeOrRelease_silent(k, t) ==
  IF k.ref_cnt[t] = 0 THEN kthread_remove_descriptor(k, t) ELSE k

\* Nobody holds a reference: free the descriptor; otherwise wake the waiters.
FreeOrRelease(k, t) ==
  IF k.ref_cnt[t] = 0 THEN kthread_remove_descriptor(k, t)
                      ELSE kthreadq_release_all(k, join_queue(t))

kthread_cancel(k, t, exit_status) ==
  IF k.state[t] = PASSIVE \/ (k.state[t] = ACTIVE /\ t # k.active_thread)
  THEN k
  ELSE kthreads_schedule(FreeOrRelease(Discount(Detach(k, t), t, exit_status), t))

(***************************************************************************)
(* kthread_start_process: a new process pr with one thread t.              *)
(***************************************************************************)
kthread_start_process(k, t, pr, prio) ==
  LET k1 == kthread_create([k EXCEPT !.thr_count[pr] = 0], t, prio, pr)
  IN  kthreads_schedule([k1 EXCEPT !.procs = @ \cup {pr}])

(***************************************************************************)
(* kthreads_init: empty queues, then the idle thread, which is scheduled.  *)
(***************************************************************************)
NoThreads ==
  [state         |-> [t \in Desc |-> PASSIVE],
   prio          |-> [t \in Desc |-> 0],
   queue         |-> [t \in Desc |-> NULL],
   id            |-> [t \in Desc |-> 0],
   ref_cnt       |-> [t \in Desc |-> 0],
   exit_status   |-> [t \in Desc |-> 0],
   proc          |-> [t \in Desc |-> KernelProc],
   q             |-> [Q \in Queue |-> <<>>],
   rdy_mask      |-> [i \in MaskWord |-> {}],
   active_thread |-> NULL,
   all_threads   |-> {},
   thr_count     |-> [p \in Proc |-> 0],
   procs         |-> {KernelProc},
   ids           |-> InitialIds,
   assert        |-> "ok"]

kthreads_init == kthreads_schedule(kthread_create(NoThreads, Idle, 0, KernelProc))
=============================================================================
