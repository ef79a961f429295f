---------------------------- MODULE MessagesProofs ---------------------------
(***************************************************************************)
(* The invariants of Messages hold for any number of threads and global    *)
(* queues, any types and sizes of messages and any requests of receivers,  *)
(* also when threads are cancelled or queues deleted under the receivers.  *)
(***************************************************************************)
EXTENDS Messages, ThreadsProofs, FiniteSetTheorems

(***************************************************************************)
(* The inductive invariant.  Of the thread subsystem only GInv holds here: *)
(* sys__delete_msg_queue leaves ready threads of a higher priority         *)
(* waiting, and a signal may be handled in a process that is gone.         *)
(***************************************************************************)
MsgFields ==
  /\ msgs \in [Box -> Seq(Message)]
  /\ min_prio \in [Box -> MinPrio \cup {0}] /\ sig_prio \in [Desc -> MinPrio \cup {0}]
  /\ qid \in [MsgQ -> Id]
  /\ kmsg_qs \in Seq(MsgQ)
  /\ receiving \in [Desc -> Request \cup {NoRecv}]
  /\ skipped \subseteq Box

\* Who is blocked on a box is inside receive_message for it, and the box exists.
WaitersOK ==
  \A b \in Box : \A v \in Desc :
    InQueue(k, v, b) => receiving[v].box = b /\ (b \in MsgQ => Open(b))

RequestsOK ==
  \A v \in Desc : receiving[v] # NoRecv =>
    v \in k.all_threads /\ receiving[v].box \in MsgQ \cup {v}

\* The ids in use that are no thread's are the queues'.
QueueIds ==
  /\ OtherIds(k) = {qid[g] : g \in {h \in MsgQ : Open(h)}}
  /\ \A g, h \in MsgQ : Open(g) /\ qid[g] = qid[h] => g = h

MsgInv ==
  /\ GInv /\ MsgFields
  /\ WaitersOK /\ RequestsOK /\ QueueIds
  /\ NoStrandedReceiver

LEMMA Boxes ==
  /\ Box \subseteq WaitQueue /\ Desc \subseteq Box /\ MsgQ \subseteq Box
  /\ \A g \in MsgQ : g \notin Desc
  /\ NULL \notin Box
BY MessagesAssumption, KThreadAssumption DEF Box

LEMMA MsgFacts ==
  ASSUME MsgInv
  PROVE  /\ GInv /\ Good(k) /\ Runs(k) /\ Consistent(k) /\ k \in KState
         /\ Self \in Desc /\ Self \in k.all_threads /\ k.state[Self] = ACTIVE /\ Awake(k, Self)
         /\ \A w \in WaitQueue : ~InQueue(k, Self, w)
         /\ ~Queued(k, Self) /\ k.all_threads \subseteq Desc
<1>1. GInv /\ Good(k) /\ Runs(k) /\ Consistent(k) /\ k \in KState
  BY DEF MsgInv, GInv, Good, Consistent
<1>2. /\ Self \in Desc /\ Self \in k.all_threads /\ k.state[Self] = ACTIVE
      /\ k.all_threads \subseteq Desc
  BY <1>1, RunsFacts DEF Self
<1>3. \A w \in WaitQueue : ~InQueue(k, Self, w)
  BY <1>1, <1>2, OneQueue DEF ACTIVE, WAIT
<1>4. ~Queued(k, Self)
  BY <1>1, <1>2 DEF Queued, Consistent, QueuesOK, Belongs, ACTIVE, READY, WAIT
<1> QED BY <1>1, <1>2, <1>3, <1>4 DEF Awake

-----------------------------------------------------------------------------
(***************************************************************************)
(* Counting the released receivers.                                        *)
(***************************************************************************)
LEMMA CountMonotone ==
  ASSUME NEW A, NEW B \in SUBSET Desc, A \subseteq B
  PROVE  /\ Cardinality(A) \in Nat /\ Cardinality(B) \in Nat
         /\ Cardinality(A) <= Cardinality(B)
<1>1. IsFiniteSet(B)
  BY KThreadAssumption, FS_Subset
<1> QED BY <1>1, FS_Subset, FS_CardinalityType

LEMMA CountOneMore ==
  ASSUME NEW A \in SUBSET Desc, NEW v \in Desc \ A
  PROVE  Cardinality(A) \in Nat /\ Cardinality(A \cup {v}) = Cardinality(A) + 1
<1>1. IsFiniteSet(A)
  BY KThreadAssumption, FS_Subset
<1> QED BY <1>1, FS_AddElement, FS_CardinalityType

\* A box that has no new message, and no fewer receivers released.
LEMMA NoNewMessage ==
  ASSUME MsgInv, NEW b \in Box \ skipped, k.q[wait_q(b)] # <<>>,
         msgs'[b] \in {msgs[b], <<>>}, Released(b) \subseteq Released(b)'
  PROVE  Len(msgs'[b]) <= Cardinality(Released(b)')
<1>1. Released(b)' \in SUBSET Desc
  BY DEF Released
<1>2. /\ Cardinality(Released(b)) \in Nat /\ Cardinality(Released(b)') \in Nat
      /\ Cardinality(Released(b)) <= Cardinality(Released(b)')
  BY <1>1, CountMonotone
<1>3. msgs[b] \in Seq(Message)
  BY DEF MsgInv, MsgFields
<1>4. Len(msgs[b]) \in Nat /\ Len(msgs[b]) <= Cardinality(Released(b))
  BY <1>3 DEF MsgInv, NoStrandedReceiver
<1>5. Len(<<>>) = 0
  OBVIOUS
<1>6. CASE msgs'[b] = <<>>
  BY <1>2, <1>5, <1>6
<1>7. CASE msgs'[b] = msgs[b]
  BY <1>2, <1>4, <1>7
<1> QED BY <1>6, <1>7

-----------------------------------------------------------------------------
(***************************************************************************)
(* A call of thread.c, or the creation of a signal handler's thread: the   *)
(* only receivers that stop receiving are those it ends.                   *)
(***************************************************************************)
LEMMA FrameMsg ==
  ASSUME MsgInv, GInv', NEW t, Frame(k, k', t), MsgFields', UNCHANGED <<qid, kmsg_qs>>,
         \A b \in Box : msgs'[b] \in {msgs[b], <<>>},
         \A v \in Desc : \/ receiving'[v] = receiving[v]
                         \/ receiving'[v] = NoRecv /\ (v \in NewThreads \/ Dropped(v)),
         \A v \in k.all_threads : Dropped(v) => receiving'[v] = NoRecv,
         skipped \subseteq skipped',
         \A b \in Box \ skipped' : Released(b) \subseteq Released(b)'
  PROVE  MsgInv'
<1>1. /\ \A w \in WaitQueue : \A v \in Desc : InQueue(k', v, w) <=> InQueue(k, v, w) /\ v # t
      /\ \A w \in WaitQueue : k.q[wait_q(w)] = <<>> => k'.q[wait_q(w)] = <<>>
  BY FrameIn, MsgFacts
<1>2. WaitersOK'
  <2> SUFFICES ASSUME NEW b \in Box, NEW v \in Desc, InQueue(k', v, b)
               PROVE  receiving'[v].box = b /\ (b \in MsgQ => Open(b))
    BY DEF WaitersOK, Open
  <2>1. b \in WaitQueue /\ InQueue(k, v, b) /\ Good(k')
    BY <1>1, Boxes DEF GInv
  <2>2. v \in k.all_threads /\ Waiting(k', v)
    BY <2>1, OneQueue, MsgFacts DEF Good
  <2>3. ~Dropped(v) /\ v \notin NewThreads
    BY <2>2 DEF Dropped, NewThreads, Frame, RefDropped
  <2> QED BY <2>1, <2>3 DEF MsgInv, WaitersOK
<1>3. RequestsOK'
  <2> SUFFICES ASSUME NEW v \in Desc, receiving'[v] # NoRecv
               PROVE  v \in k'.all_threads /\ receiving'[v].box \in MsgQ \cup {v}
    BY DEF RequestsOK
  <2>1. receiving'[v] = receiving[v]
    OBVIOUS
  <2>2. v \in k.all_threads /\ receiving[v].box \in MsgQ \cup {v}
    BY <2>1 DEF MsgInv, RequestsOK
  <2>3. ~Dropped(v)
    BY <2>2
  <2>4. v \in k'.all_threads
    BY <2>2, <2>3 DEF Dropped, Frame, RefDropped
  <2> QED BY <2>1, <2>2, <2>4
<1>4. QueueIds'
  BY DEF Frame, MsgInv, QueueIds, Open
<1>5. NoStrandedReceiver'
  <2> SUFFICES ASSUME NEW b \in Box \ skipped', k'.q[wait_q(b)] # <<>>
               PROVE  Len(msgs'[b]) <= Cardinality(Released(b)')
    BY DEF NoStrandedReceiver
  <2>1. b \in Box \ skipped /\ k.q[wait_q(b)] # <<>>
    BY <1>1, Boxes
  <2> QED BY <2>1, NoNewMessage
<1> QED BY <1>2, <1>3, <1>4, <1>5 DEF MsgInv

LEMMA ThreadFields ==
  ASSUME MsgInv, k_thr_msg_init
  PROVE  /\ msgs' \in [Box -> Seq(Message)] /\ \A b \in Box : msgs'[b] \in {msgs[b], <<>>}
         /\ min_prio' \in [Box -> MinPrio \cup {0}] /\ sig_prio' \in [Desc -> MinPrio \cup {0}]
<1>1. msgs' \in [Box -> Seq(Message)] /\ \A b \in Box : msgs'[b] \in {msgs[b], <<>>}
  BY DEF MsgInv, MsgFields, k_thr_msg_init
<1>2. min_prio' \in [Box -> MinPrio \cup {0}] /\ sig_prio' \in [Desc -> MinPrio \cup {0}]
  BY DEF MsgInv, MsgFields, k_thr_msg_init
<1> QED BY <1>1, <1>2

LEMMA ThreadStepInv ==
  ASSUME MsgInv, ThreadStep
  PROVE  MsgInv'
<1>1. /\ receiving[Self] = NoRecv /\ [Next]_vars /\ k_thr_msg_init /\ UNCHANGED <<qid, kmsg_qs>>
      /\ receiving' = [t \in Desc |-> IF t \in NewThreads \/ Dropped(t) THEN NoRecv
                                      ELSE receiving[t]]
      /\ skipped' = skipped \cup {b \in Box : \E t \in Desc : /\ Dropped(t) /\ receiving[t].box = b
                                                           /\ k.state[t] = READY}
  BY DEF ThreadStep
<1>2. GInv' /\ SoundCall(k, k')
  BY <1>1, NextGInv, MsgFacts
<1>3. PICK t \in Desc \cup {NULL} : Frame(k, k', t)
  BY <1>2 DEF SoundCall
<1>4. MsgFields' /\ \A b \in Box : msgs'[b] \in {msgs[b], <<>>}
  <2>1. receiving' \in [Desc -> Request \cup {NoRecv}] /\ skipped' \subseteq Box
    BY <1>1 DEF MsgInv, MsgFields
  <2> QED BY <1>1, <2>1, ThreadFields DEF MsgInv, MsgFields
<1>5. ASSUME NEW b \in Box \ skipped', NEW v \in Released(b)
      PROVE  v \in Released(b)'
  <2>1. v \in Desc /\ receiving[v].box = b /\ Awake(k, v)
    BY DEF Released, Awake
  <2>2. receiving[v] # NoRecv /\ v \in k.all_threads
    <3>1. receiving[v] # NoRecv
      BY <2>1, Boxes DEF NoRecv
    <3> QED BY <2>1, <3>1 DEF MsgInv, RequestsOK
  <2>3. v # k.active_thread
    BY <1>1, <2>2 DEF Self
  <2>4. k.state[v] = READY
    BY <2>1, <2>3, MsgFacts DEF Awake, Consistent, ActiveOK
  <2>5. ~Dropped(v)
    BY <1>1, <2>1, <2>4
  <2>6. Awake(k', v)
    BY <1>3, <2>1, <2>3, <2>5 DEF Frame, RefDropped, Dropped
  <2>7. receiving'[v] = receiving[v]
    BY <1>1, <2>1, <2>2, <2>5 DEF NewThreads
  <2> QED BY <2>1, <2>6, <2>7 DEF Released, Awake
<1> QED BY <1>1, <1>2, <1>3, <1>4, <1>5, MsgFacts, FrameMsg DEF MsgInv

\* A thread that programs have a handle of.
LEMMA ReachableThread ==
  ASSUME MsgInv, NEW r \in Reachable
  PROVE  r \in Desc \ {Idle} /\ r \in k.all_threads
<1>1. PICK h \in handles : r = h[1] /\ Valid(h)
  BY DEF Reachable
<1>2. h \in ProgHandle
  BY <1>1, MsgFacts DEF GInv
<1> QED BY <1>1, <1>2, ValidHandle, MsgFacts

LEMMA SignalInv ==
  ASSUME MsgInv, NEW r \in Reachable, msg_post_signal(r)
  PROVE  MsgInv'
<1>1. PICK t \in FreeDesc(k) :
        /\ k' = kthreads_schedule(kthread_create(k, t, k.prio[r] + 1, k.proc[r]))
        /\ joining' = [joining EXCEPT ![t] = NoHandle]
        /\ receiving' = [receiving EXCEPT ![t] = NoRecv]
  BY DEF msg_post_signal
<1>2. /\ MoreThreads /\ k_thr_msg_init /\ UNCHANGED <<handles, qid, kmsg_qs, skipped>>
      /\ t \in Desc \ k.all_threads
  BY <1>1 DEF msg_post_signal, FreeDesc
<1>3. k.ids.last_id + 1 < MASK_BITS /\ k.ids.last_id + 1 <= MaxIds
  BY <1>2, RunsFacts, MsgFacts, ThreadsAssumption, MaskBitsFact DEF MoreThreads
<1>4. k.prio[r] + 1 \in Int /\ k.proc[r] \in Proc
  <2>1. k.prio[r] \in Prio /\ k.proc[r] \in Proc
    BY ReachableThread, MsgFacts DEF KState
  <2> QED BY <2>1, KThreadAssumption DEF Prio
<1>5. Started(k, t, k')
  BY <1>1, <1>2, <1>3, <1>4, CreateThreadOK, MsgFacts
<1>6. GInv'
  <2>1. Good(k') /\ Runs(k') /\ k'.ids.last_id <= MaxIds
    BY <1>3, <1>5, TopRuns DEF Started, Settled
  <2>2. handles' \subseteq ProgHandle /\ joining' \in [Desc -> ProgHandle \cup {NoHandle}]
    BY <1>1, <1>2, MsgFacts DEF GInv
  <2> QED BY <2>1, <2>2 DEF GInv
<1>7. receiving[t] = NoRecv /\ receiving' = receiving
  <2>1. receiving[t] = NoRecv
    BY <1>2 DEF MsgInv, RequestsOK
  <2> QED BY <1>1, <1>2, <2>1 DEF MsgInv, MsgFields
<1>8. MsgFields' /\ \A b \in Box : msgs'[b] \in {msgs[b], <<>>}
  BY <1>2, <1>7, ThreadFields DEF MsgInv, MsgFields
<1>9. \A b \in Box : Released(b) \subseteq Released(b)'
  BY <1>5, <1>7 DEF Started, Released, Awake
<1>10. \A v \in k.all_threads : ~Dropped(v)
  BY <1>5, MsgFacts DEF Started, RefDropped, Dropped
<1> QED BY <1>2, <1>5, <1>6, <1>7, <1>8, <1>9, <1>10, FrameMsg DEF Started

-----------------------------------------------------------------------------
(***************************************************************************)
(* Queues come and go with their ids.                                      *)
(***************************************************************************)
LEMMA IdsReplaced ==
  ASSUME NEW s, Good(s), NEW u \in UniqueIdState, u.halted = "no",
         u.idmask \subseteq 1 .. u.last_id, \A t \in s.all_threads : s.id[t] \in u.idmask
  PROVE  LET r == [s EXCEPT !.ids = u]
         IN  /\ Good(r) /\ SameLists(s, r) /\ r.all_threads = s.all_threads /\ r.ids = u
             /\ OtherIds(r) = u.idmask \ {s.id[t] : t \in s.all_threads}
<1> DEFINE r == [s EXCEPT !.ids = u]
<1>1. Consistent(s) /\ s \in KState
  BY DEF Good, Consistent
<1>2. /\ r \in KState /\ SameLists(s, r) /\ r.all_threads = s.all_threads /\ r.ids = u
      /\ r.id = s.id /\ r.ref_cnt = s.ref_cnt
  BY <1>1 DEF KState, SameLists
<1> HIDE DEF r
<1>3. Consistent(r)
  BY <1>1, <1>2, SameListsConsistent
<1>4. RefsOK(r) /\ IdsOK(r)
  BY <1>2 DEF Good, RefsOK, IdsOK, SameLists
<1> QED BY <1>2, <1>3, <1>4 DEF Good, OtherIds, r

LEMMA CreateQueueInv ==
  ASSUME MsgInv, NEW g \in MsgQ, sys__create_msg_queue(g)
  PROVE  MsgInv'
<1> DEFINE u == k_new_unique_id(k.ids)
           n == k.ids.last_id + 1
<1>1. /\ ~Open(g) /\ MoreThreads
      /\ k' = [k EXCEPT !.ids = k_new_unique_id(@), !.q[wait_q(g)] = <<>>]
      /\ qid' = [qid EXCEPT ![g] = k'.ids.last_id]
      /\ msgs' = [msgs EXCEPT ![g] = <<>>]
      /\ \E min \in MinPrio : min_prio' = [min_prio EXCEPT ![g] = min]
      /\ kmsg_qs' = Append(kmsg_qs, g)
      /\ skipped' = skipped \ {g}
      /\ UNCHANGED <<handles, joining, sig_prio, receiving>>
  BY DEF sys__create_msg_queue
<1>2. k \in KState /\ k.ids \in UniqueIdState /\ IdsOK(k) /\ g \in Box /\ g \in WaitQueue
  BY MsgFacts, Boxes DEF Good, KState
<1>3. n < MASK_BITS /\ n <= MaxIds /\ n \in Nat \ {0} /\ n \in Id
  BY <1>1, RunsFacts, MsgFacts, ThreadsAssumption, MaskBitsFact DEF MoreThreads, Id
<1>4. /\ u \in UniqueIdState /\ u.last_id = n /\ u.idmask = k.ids.idmask \cup {n}
      /\ u.halted = "no" /\ u.idmask \subseteq 1 .. n /\ n \notin k.ids.idmask
  <2>1. k.ids.idmask \subseteq 1 .. k.ids.last_id /\ k.ids.halted = "no"
    BY <1>2 DEF IdsOK
  <2>2. k.ids.last_id \in Nat
    BY RunsFacts, MsgFacts
  <2> QED BY <1>2, <1>3, <2>1, <2>2, NextId
<1>5. k' = [k EXCEPT !.ids = u]
  <2>1. k.q[wait_q(g)] = <<>>
    BY <1>1, <1>2, WaitQueueType DEF MsgInv, WaitersOK
  <2>2. [k.q EXCEPT ![wait_q(g)] = <<>>] = k.q
    BY <1>2, <2>1 DEF KState
  <2> QED BY <1>1, <1>2, <2>2 DEF KState
<1>6. /\ Good(k') /\ SameLists(k, k') /\ k'.all_threads = k.all_threads /\ k'.ids = u
      /\ OtherIds(k') = u.idmask \ {k.id[t] : t \in k.all_threads}
  <2>1. \A t \in k.all_threads : k.id[t] \in u.idmask
    BY <1>2, <1>4 DEF IdsOK
  <2> QED BY <1>4, <1>5, <2>1, IdsReplaced, MsgFacts
<1> HIDE DEF u, n
<1>7. GInv'
  BY <1>1, <1>3, <1>4, <1>6, MsgFacts DEF GInv, Runs, SameLists
<1>8. /\ qid' \in [MsgQ -> Id] /\ \A h \in MsgQ : qid'[h] = IF h = g THEN n ELSE qid[h]
  BY <1>1, <1>3, <1>4, <1>6 DEF MsgInv, MsgFields
<1>9. /\ msgs' \in [Box -> Seq(Message)]
      /\ \A b \in Box : msgs'[b] = IF b = g THEN <<>> ELSE msgs[b]
  BY <1>1, <1>2 DEF MsgInv, MsgFields
<1>10. MsgFields'
  <2>1. min_prio' \in [Box -> MinPrio \cup {0}]
    BY <1>1 DEF MsgInv, MsgFields
  <2>2. kmsg_qs' \in Seq(MsgQ) /\ skipped' \subseteq Box
    BY <1>1 DEF MsgInv, MsgFields
  <2> QED BY <1>1, <1>8, <1>9, <2>1, <2>2 DEF MsgInv, MsgFields
<1>11. WaitersOK' /\ RequestsOK'
  <2>1. \A h \in MsgQ : Open(h) => qid'[h] # 0
    BY <1>1, <1>3, <1>8 DEF Open
  <2> QED BY <1>1, <1>6, <2>1 DEF MsgInv, WaitersOK, RequestsOK, SameLists, InQueue, Open
<1>12. QueueIds'
  <2>1. OtherIds(k') = OtherIds(k) \cup {n}
    BY <1>2, <1>4, <1>6 DEF OtherIds, IdsOK
  <2>2. \A h \in MsgQ : h # g /\ qid[h] # 0 => qid[h] \in OtherIds(k) /\ qid[h] # n
    BY <1>4 DEF MsgInv, QueueIds, OtherIds, Open
  <2>3. {h \in MsgQ : qid'[h] # 0} = {h \in MsgQ : qid[h] # 0} \cup {g}
    BY <1>3, <1>8
  <2>4. OtherIds(k') = {qid'[h] : h \in {h \in MsgQ : qid'[h] # 0}}
    BY <1>1, <1>8, <2>1, <2>3 DEF MsgInv, QueueIds, Open
  <2>5. \A h, i \in MsgQ : qid'[h] # 0 /\ qid'[h] = qid'[i] => h = i
    BY <1>3, <1>8, <2>2 DEF MsgInv, QueueIds, Open
  <2> QED BY <2>4, <2>5 DEF QueueIds, Open
<1>13. NoStrandedReceiver'
  <2> SUFFICES ASSUME NEW b \in Box \ skipped', k'.q[wait_q(b)] # <<>>
               PROVE  Len(msgs'[b]) <= Cardinality(Released(b)')
    BY DEF NoStrandedReceiver
  <2>1. Released(b)' = Released(b) /\ k.q[wait_q(b)] # <<>>
    BY <1>1, <1>6 DEF Released, SameLists
  <2>2. CASE b = g
    BY <1>9, <2>2, CountMonotone DEF Released
  <2>3. CASE b # g
    BY <1>1, <1>9, <2>1, <2>3, NoNewMessage
  <2> QED BY <2>2, <2>3
<1> QED BY <1>7, <1>10, <1>11, <1>12, <1>13 DEF MsgInv

LEMMA DeleteQueueInv ==
  ASSUME MsgInv, NEW g \in MsgQ, sys__delete_msg_queue(g)
  PROVE  MsgInv'
<1> DEFINE s == kthreadq_release_all(k, wait_q(g))
           u == k_free_unique_id(k.ids, qid[g])
<1>1. /\ Open(g)
      /\ k' = [s EXCEPT !.ids = k_free_unique_id(@, qid[g])]
      /\ msgs' = [msgs EXCEPT ![g] = <<>>]
      /\ qid' = [qid EXCEPT ![g] = 0]
      /\ UNCHANGED <<handles, joining, min_prio, sig_prio, kmsg_qs, receiving, skipped>>
  BY DEF sys__delete_msg_queue
<1>2. k \in KState /\ k.ids \in UniqueIdState /\ IdsOK(k) /\ g \in Box /\ g \in WaitQueue
  BY MsgFacts, Boxes DEF Good, KState
<1>3. /\ Moved(k, s)
      /\ \A v \in Desc : s.state[v] = IF InQueue(k, v, g) THEN READY ELSE k.state[v]
      /\ \A w \in WaitQueue : \A v \in Desc : InQueue(s, v, w) <=> InQueue(k, v, w) /\ w # g
  BY <1>2, ReleaseAllMoves, MsgFacts
<1> HIDE DEF s
<1>4. s.ids = k.ids /\ s.id = k.id /\ s.all_threads = k.all_threads /\ Good(s) /\ s \in KState
  BY <1>3 DEF Moved, SameResources, Good, Consistent
<1>5. /\ u \in UniqueIdState /\ u.last_id = k.ids.last_id /\ u.idmask = k.ids.idmask \ {qid[g]}
      /\ u.halted = "no" /\ u.idmask \subseteq 1 .. u.last_id
      /\ qid[g] \in OtherIds(k)
  <2>1. qid[g] \in OtherIds(k)
    BY <1>1 DEF MsgInv, QueueIds
  <2>2. qid[g] \in k.ids.idmask /\ k.ids.idmask \subseteq 1 .. k.ids.last_id /\ k.ids.halted = "no"
    BY <1>2, <2>1 DEF OtherIds, IdsOK
  <2>3. qid[g] > 0 /\ qid[g] < MASK_BITS /\ qid[g] < MAX_RESOURCES
    BY <1>2, <2>2, MaskBitsFact, MaxResourcesAssumption DEF UniqueIdState
  <2>4. u = [k.ids EXCEPT !.idmask = @ \ {qid[g]}]
    BY <2>2, <2>3 DEF k_free_unique_id, IdBit, ClearIdBit
  <2> QED BY <1>2, <2>1, <2>2, <2>4 DEF UniqueIdState
<1>6. k' = [s EXCEPT !.ids = u]
  BY <1>1, <1>4
<1> HIDE DEF u
<1>7. /\ Good(k') /\ SameLists(s, k') /\ k'.all_threads = k.all_threads /\ k'.ids = u
      /\ OtherIds(k') = u.idmask \ {k.id[t] : t \in k.all_threads}
  <2>1. \A t \in k.all_threads : k.id[t] \in u.idmask
    BY <1>2, <1>5 DEF IdsOK, OtherIds
  <2> QED BY <1>4, <1>5, <1>6, <2>1, IdsReplaced
<1>8. /\ k'.active_thread = k.active_thread
      /\ \A v \in Desc : k'.state[v] = IF InQueue(k, v, g) THEN READY ELSE k.state[v]
      /\ \A w \in WaitQueue : \A v \in Desc : InQueue(k', v, w) <=> InQueue(k, v, w) /\ w # g
  BY <1>3, <1>7 DEF Moved, SameLists, InQueue
<1>9. GInv'
  <2>1. Runs(k')
    BY <1>2, <1>7, <1>8, MsgFacts DEF Runs, Self
  <2> QED BY <1>1, <1>5, <1>7, <2>1, MsgFacts DEF GInv
<1>10. qid' \in [MsgQ -> Id] /\ \A h \in MsgQ : qid'[h] = IF h = g THEN 0 ELSE qid[h]
  BY <1>1 DEF MsgInv, MsgFields, Id
<1>11. /\ msgs' \in [Box -> Seq(Message)]
       /\ \A b \in Box : msgs'[b] \in {msgs[b], <<>>}
  BY <1>1, <1>2 DEF MsgInv, MsgFields
<1>12. MsgFields'
  BY <1>1, <1>10, <1>11 DEF MsgInv, MsgFields
<1>13. WaitersOK' /\ RequestsOK'
  <2>1. WaitersOK'
    BY <1>1, <1>8, <1>10, Boxes DEF MsgInv, WaitersOK, Open
  <2> QED BY <1>1, <1>7, <2>1 DEF MsgInv, RequestsOK
<1>14. QueueIds'
  <2>1. OtherIds(k') = OtherIds(k) \ {qid[g]}
    BY <1>5, <1>7 DEF OtherIds
  <2>2. \A h, i \in MsgQ : qid[h] # 0 /\ qid[h] = qid[i] => h = i
    BY DEF MsgInv, QueueIds, Open
  <2>3. {h \in MsgQ : qid'[h] # 0} = {h \in MsgQ : qid[h] # 0} \ {g}
    BY <1>10
  <2>4. OtherIds(k) = {qid[h] : h \in {h \in MsgQ : qid[h] # 0}}
    BY DEF MsgInv, QueueIds, Open
  <2>5. OtherIds(k') = {qid'[h] : h \in {h \in MsgQ : qid'[h] # 0}}
    BY <1>10, <2>1, <2>2, <2>3, <2>4
  <2> QED BY <1>10, <2>2, <2>5 DEF QueueIds, Open
<1>15. NoStrandedReceiver'
  <2> SUFFICES ASSUME NEW b \in Box \ skipped', k'.q[wait_q(b)] # <<>>
               PROVE  Len(msgs'[b]) <= Cardinality(Released(b)')
    BY DEF NoStrandedReceiver
  <2>1. Released(b) \subseteq Released(b)'
    BY <1>1, <1>8 DEF Released
  <2>2. b \in WaitQueue /\ k' \in KState
    BY <1>7, Boxes DEF Good, Consistent
  <2>3. k.q[wait_q(b)] # <<>>
    BY <1>2, <1>8, <2>2, WaitQueueType
  <2> QED BY <1>1, <1>11, <2>1, <2>3, NoNewMessage
<1> QED BY <1>9, <1>12, <1>13, <1>14, <1>15 DEF MsgInv

-----------------------------------------------------------------------------
(***************************************************************************)
(* A new message: when somebody is blocked on the box, one more receiver   *)
(* is released to fetch it.                                                *)
(***************************************************************************)
LEMMA PostInv ==
  ASSUME MsgInv, NEW b \in Box, sys__msg_post(b)
  PROVE  MsgInv'
<1> DEFINE s == kthreadq_release(k, wait_q(b))
           t == Head(k.q[wait_q(b)])
<1>1. PICK msg \in Message :
        /\ msgs' = [msgs EXCEPT ![b] = Append(@, msg)]
        /\ k' = IF k.q[wait_q(b)] = <<>> THEN k ELSE kthreads_schedule(s)
  BY DEF sys__msg_post
<1>2. UNCHANGED <<handles, joining, min_prio, sig_prio, qid, kmsg_qs, receiving, skipped>>
  BY DEF sys__msg_post
<1>3. /\ msgs' \in [Box -> Seq(Message)]
      /\ \A d \in Box \ {b} : msgs'[d] = msgs[d]
      /\ Len(msgs[b]) \in Nat /\ Len(msgs'[b]) = Len(msgs[b]) + 1
  <2>1. msgs[b] \in Seq(Message)
    BY DEF MsgInv, MsgFields
  <2>2. /\ Append(msgs[b], msg) \in Seq(Message) /\ Len(msgs[b]) \in Nat
        /\ Len(Append(msgs[b], msg)) = Len(msgs[b]) + 1
    BY <2>1
  <2> HIDE DEF Message
  <2> QED BY <1>1, <2>2 DEF MsgInv, MsgFields
<1>4. MsgFields'
  BY <1>2, <1>3 DEF MsgInv, MsgFields
<1>5. CASE k.q[wait_q(b)] = <<>>
  <2>1. k' = k
    BY <1>1, <1>5
  <2>2. GInv' /\ WaitersOK' /\ RequestsOK' /\ QueueIds'
    BY <1>2, <2>1 DEF MsgInv, GInv, WaitersOK, RequestsOK, QueueIds, Open
  <2>3. NoStrandedReceiver'
    BY <1>2, <1>3, <1>5, <2>1 DEF MsgInv, NoStrandedReceiver, Released
  <2> QED BY <1>4, <2>2, <2>3 DEF MsgInv
<1>6. CASE k.q[wait_q(b)] # <<>>
  <2>1. b \in WaitQueue /\ k' = kthreads_schedule(s)
    BY <1>1, <1>6, Boxes
  <2>2. /\ Moved(k, s) /\ InQueue(k, t, b) /\ t \in Desc
        /\ \A v \in Desc : s.state[v] = IF v = t THEN READY ELSE k.state[v]
        /\ \A w \in WaitQueue : \A v \in Desc : InQueue(s, v, w) <=> InQueue(k, v, w) /\ v # t
    BY <1>6, <2>1, ReleaseMoves, MsgFacts
  <2> HIDE DEF s, t
  <2>3. GInv' /\ Rescheduled(s, k')
    BY <1>2, <2>1, <2>2, RescheduleG, MsgFacts DEF Moved
  <2>4. k'.all_threads = k.all_threads /\ OtherIds(k') = OtherIds(k)
    BY <2>2, <2>3 DEF Moved, Rescheduled, SameResources, OtherIds
  <2>5. /\ \A w \in WaitQueue : \A v \in Desc : InQueue(k', v, w) <=> InQueue(k, v, w) /\ v # t
        /\ \A v \in Desc : Awake(k', v) <=> Awake(k, v) \/ v = t
    BY <2>2, <2>3, RescheduledIn DEF Moved, Good, Consistent, Rescheduled, Awake
  <2>6. WaitersOK' /\ RequestsOK' /\ QueueIds'
    BY <1>2, <2>4, <2>5, Boxes DEF MsgInv, WaitersOK, RequestsOK, QueueIds, Open
  <2>7. \A d \in Box : Released(d) \subseteq Released(d)'
    BY <1>2, <2>5 DEF Released, Awake
  <2>8. t \notin Released(b) /\ Released(b) \cup {t} \subseteq Released(b)'
    <3>1. k.state[t] = WAIT /\ receiving[t].box = b
      BY <2>1, <2>2, OneQueue, MsgFacts DEF MsgInv, WaitersOK
    <3> QED BY <1>2, <2>2, <2>5, <2>7, <3>1 DEF Released, Awake, WAIT, READY, ACTIVE
  <2>9. NoStrandedReceiver'
    <3> SUFFICES ASSUME NEW d \in Box \ skipped', k'.q[wait_q(d)] # <<>>
                 PROVE  Len(msgs'[d]) <= Cardinality(Released(d)')
      BY DEF NoStrandedReceiver
    <3>1. CASE d = b
      <4>1. /\ Cardinality(Released(b)) \in Nat
            /\ Cardinality(Released(b) \cup {t}) = Cardinality(Released(b)) + 1
        BY <2>2, <2>8, CountOneMore DEF Released
      <4>2. /\ Cardinality(Released(b) \cup {t}) <= Cardinality(Released(b)')
            /\ Cardinality(Released(b)') \in Nat
        <5>1. Released(b)' \subseteq Desc
          BY DEF Released
        <5> QED BY <2>8, <5>1, CountMonotone
      <4>3. Len(msgs[b]) <= Cardinality(Released(b))
        BY <1>2, <1>6, <3>1 DEF MsgInv, NoStrandedReceiver
      <4> QED BY <1>3, <3>1, <4>1, <4>2, <4>3
    <3>2. CASE d # b
      <4>1. k.q[wait_q(d)] # <<>>
        <5>1. d \in WaitQueue /\ k' \in KState /\ k \in KState
          BY <2>3, Boxes, MsgFacts DEF GInv, Good, Consistent
        <5> QED BY <2>5, <5>1, WaitQueueType
      <4> QED BY <1>2, <1>3, <2>7, <3>2, <4>1, NoNewMessage
    <3> QED BY <3>1, <3>2
  <2> QED BY <1>4, <2>3, <2>6, <2>9 DEF MsgInv
<1> QED BY <1>5, <1>6

-----------------------------------------------------------------------------
(***************************************************************************)
(* sys__msg_recv.                                                          *)
(***************************************************************************)
LEMMA RequestFacts ==
  ASSUME MsgInv, NEW r \in Requests
  PROVE  /\ r \in Request /\ r.box \in Box /\ r.box \in MsgQ \cup {Self}
         /\ receiving[Self] \in {r, NoRecv}
         /\ receiving[Self] = NoRecv => receiving[Self].box = NULL
         /\ \A b \in Box \ {r.box} : Self \notin Released(b)
         /\ Self \in Released(r.box) <=> receiving[Self] = r
<1>1. receiving[Self] \in Request \cup {NoRecv}
  BY MsgFacts DEF MsgInv, MsgFields
<1>2. r \in Request /\ r.box \in MsgQ \cup {Self} /\ receiving[Self] \in {r, NoRecv}
  BY <1>1, MsgFacts DEF Requests, MsgInv, RequestsOK
<1>3. r.box \in Box /\ r.box # NULL
  BY <1>2, Boxes DEF Request
<1>4. NoRecv.box = NULL
  BY DEF NoRecv
<1> QED BY <1>2, <1>3, <1>4, Boxes, MsgFacts DEF Released

\* A receiver that takes a message, or leaves the loop.
LEMMA ReceiverReturns ==
  ASSUME MsgInv, NEW r \in Requests, Good(k'), SameLists(k, k'), k'.ids = k.ids, k'.id = k.id,
         k'.all_threads = k.all_threads, Return, UNCHANGED <<handles, joining, qid>>,
         MsgFields', skipped \subseteq skipped',
         \A b \in Box \ {r.box} : msgs'[b] = msgs[b],
         r.box \notin skipped' /\ k.q[wait_q(r.box)] # <<>> /\ receiving[Self] = NoRecv =>
           msgs'[r.box] = <<>> \/ Len(msgs'[r.box]) <= Len(msgs[r.box]),
         r.box \notin skipped' /\ k.q[wait_q(r.box)] # <<>> /\ receiving[Self] = r =>
           msgs'[r.box] = <<>> \/ Len(msgs'[r.box]) = Len(msgs[r.box]) - 1
  PROVE  MsgInv'
<1>1. receiving' = [receiving EXCEPT ![Self] = NoRecv]
  BY DEF Return
<1>2. GInv'
  BY MsgFacts DEF GInv, Runs, SameLists
<1>3. \A v \in Desc : receiving'[v] = IF v = Self THEN NoRecv ELSE receiving[v]
  BY <1>1 DEF MsgInv, MsgFields
<1>4. WaitersOK'
  BY <1>3, Boxes, MsgFacts DEF MsgInv, WaitersOK, SameLists, InQueue, Open
<1>5. RequestsOK'
  BY <1>3 DEF MsgInv, RequestsOK
<1>6. QueueIds'
  <2>1. OtherIds(k') = OtherIds(k)
    BY DEF OtherIds
  <2> QED BY <2>1 DEF MsgInv, QueueIds, Open
<1>7. \A b \in Box : Released(b)' = Released(b) \ {Self}
  BY <1>3, Boxes, MsgFacts DEF Released, SameLists, NoRecv
<1>8. NoStrandedReceiver'
  <2> SUFFICES ASSUME NEW b \in Box \ skipped', k'.q[wait_q(b)] # <<>>
               PROVE  Len(msgs'[b]) <= Cardinality(Released(b)')
    BY DEF NoStrandedReceiver
  <2>1. b \notin skipped /\ k.q[wait_q(b)] # <<>>
    BY DEF SameLists
  <2>2. CASE b # r.box
    BY <1>7, <2>1, <2>2, NoNewMessage, RequestFacts
  <2>3. CASE b = r.box
    <3>1. Len(msgs[b]) \in Nat /\ Len(msgs[b]) <= Cardinality(Released(b))
      BY <2>1 DEF MsgInv, MsgFields, NoStrandedReceiver
    <3>2. Released(b)' \in SUBSET Desc /\ Cardinality(Released(b)') \in Nat
      BY CountMonotone DEF Released
    <3>3. CASE msgs'[b] = <<>>
      BY <3>2, <3>3
    <3>4. CASE msgs'[b] # <<>> /\ receiving[Self] = NoRecv
      <4>1. Self \notin Released(b)
        BY <2>3, <3>4, RequestFacts, Boxes
      <4>2. Released(b)' = Released(b)
        BY <1>7, <4>1
      <4>3. Len(msgs'[b]) \in Nat
        BY DEF MsgFields
      <4> QED BY <2>1, <2>3, <3>1, <3>2, <3>4, <4>2, <4>3
    <3>5. CASE msgs'[b] # <<>> /\ receiving[Self] = r
      <4>1. Released(b) = Released(b)' \cup {Self} /\ Self \in Desc \ Released(b)'
        BY <1>7, <2>3, <3>5, RequestFacts, MsgFacts
      <4>2. Cardinality(Released(b)' \cup {Self}) = Cardinality(Released(b)') + 1
        BY <3>2, <4>1, CountOneMore
      <4> QED BY <2>1, <2>3, <3>1, <3>2, <3>5, <4>1, <4>2
    <3> QED BY <3>3, <3>4, <3>5, RequestFacts
  <2> QED BY <2>2, <2>3
<1> QED BY <1>2, <1>4, <1>5, <1>6, <1>8 DEF MsgInv

LEMMA RecvMessageInv ==
  ASSUME MsgInv, RecvMessage
  PROVE  MsgInv'
<1>1. PICK r \in Requests :
        /\ Matches(r) # {}
        /\ msgs' = [msgs EXCEPT ![r.box] = Tail(@)]
        /\ k' = IF Found(r) = 1 THEN k ELSE [k EXCEPT !.assert = "wrong_message"]
  BY DEF RecvMessage
<1>2. Return /\ UNCHANGED <<handles, joining, min_prio, sig_prio, qid, kmsg_qs, skipped>>
  BY DEF RecvMessage
<1>3. r.box \in Box
  BY RequestFacts
<1>4. msgs[r.box] \in Seq(Message) /\ msgs[r.box] # <<>>
  <2>1. msgs[r.box] \in Seq(Message)
    BY <1>3 DEF MsgInv, MsgFields
  <2>2. Len(msgs[r.box]) # 0
    BY <1>1 DEF Matches
  <2> QED BY <2>1, <2>2
<1>5. /\ msgs' \in [Box -> Seq(Message)]
      /\ \A b \in Box \ {r.box} : msgs'[b] = msgs[b]
      /\ Len(msgs'[r.box]) = Len(msgs[r.box]) - 1 /\ Len(msgs[r.box]) \in Nat
  <2> HIDE DEF Message
  <2>1. Tail(msgs[r.box]) \in Seq(Message) /\ Len(Tail(msgs[r.box])) = Len(msgs[r.box]) - 1
    BY <1>4
  <2> QED BY <1>1, <1>3, <1>4, <2>1 DEF MsgInv, MsgFields
<1>6. MsgFields'
  BY <1>2, <1>5 DEF MsgInv, MsgFields, Return
<1>7. /\ Good(k') /\ SameLists(k, k') /\ k'.ids = k.ids /\ k'.id = k.id
      /\ k'.all_threads = k.all_threads
  <2>1. /\ k' \in KState /\ SameLists(k, k') /\ k'.ids = k.ids /\ k'.id = k.id
        /\ k'.all_threads = k.all_threads /\ k'.ref_cnt = k.ref_cnt
    BY <1>1, MsgFacts DEF KState, SameLists, AssertOutcome
  <2>2. Consistent(k')
    BY <2>1, MsgFacts, SameListsConsistent
  <2> QED BY <2>1, <2>2, MsgFacts DEF Good, RefsOK, IdsOK, SameLists
<1> QED BY <1>2, <1>5, <1>6, <1>7, ReceiverReturns

LEMMA RecvFailsInv ==
  ASSUME MsgInv, RecvFails
  PROVE  MsgInv'
<1>1. PICK r \in Requests : Skips(r)
  BY DEF RecvFails
<1>2. Return /\ UNCHANGED <<vars, msgs, min_prio, sig_prio, qid, kmsg_qs>>
  BY DEF RecvFails
<1>3. r.box \in Box
  BY RequestFacts
<1>4. MsgFields' /\ skipped \subseteq skipped'
  BY <1>1, <1>2, <1>3 DEF MsgInv, MsgFields, Return, Skips
<1>5. receiving[Self] = r /\ r.box \notin skipped' => msgs'[r.box] = <<>>
  BY <1>1, <1>2 DEF Skips
<1>6. Len(msgs[r.box]) \in Nat
  BY <1>3 DEF MsgInv, MsgFields
<1>7. SameLists(k, k') /\ Good(k') /\ k' = k /\ UNCHANGED <<handles, joining>>
  BY <1>2, MsgFacts DEF SameLists, vars
<1> QED BY <1>2, <1>4, <1>5, <1>6, <1>7, ReceiverReturns

LEMMA RecvBlockInv ==
  ASSUME MsgInv, RecvBlock
  PROVE  MsgInv'
<1>1. PICK r \in Requests :
        /\ r.box \in MsgQ => Open(r.box)
        /\ k' = kthreads_schedule(kthread_enqueue(k, Self, wait_q(r.box)))
        /\ receiving' = [receiving EXCEPT ![Self] = r]
        /\ skipped' = IF msgs[r.box] # <<>> THEN skipped \cup {r.box} ELSE skipped
  BY DEF RecvBlock
<1>2. UNCHANGED <<handles, joining, msgs, min_prio, sig_prio, qid, kmsg_qs>> /\ Self # Idle
  BY DEF RecvBlock, Receiver, UserCall
<1> DEFINE s == kthread_enqueue(k, Self, wait_q(r.box))
<1>3. r.box \in Box /\ r.box \in WaitQueue /\ r \in Request /\ r.box \in MsgQ \cup {Self}
  BY RequestFacts, Boxes
<1>4. /\ Moved(k, s)
      /\ \A v \in Desc : s.state[v] = IF v = Self THEN WAIT ELSE k.state[v]
      /\ \A w \in WaitQueue : \A v \in Desc :
           InQueue(s, v, w) <=> InQueue(k, v, w) \/ (v = Self /\ w = r.box)
  BY <1>2, <1>3, EnqueueMoves, MsgFacts DEF ACTIVE, PASSIVE
<1> HIDE DEF s
<1>5. GInv' /\ Rescheduled(s, k')
  BY <1>1, <1>2, <1>4, RescheduleG, MsgFacts DEF Moved, s
<1>6. k'.all_threads = k.all_threads /\ OtherIds(k') = OtherIds(k)
  BY <1>4, <1>5 DEF Moved, Rescheduled, SameResources, OtherIds
<1>7. /\ \A w \in WaitQueue : \A v \in Desc :
           InQueue(k', v, w) <=> InQueue(k, v, w) \/ (v = Self /\ w = r.box)
      /\ \A v \in Desc : Awake(k', v) <=> Awake(k, v) /\ v # Self
  BY <1>4, <1>5, RescheduledIn DEF Moved, Good, Consistent, Rescheduled, Awake, WAIT, READY, ACTIVE
<1>8. \A v \in Desc : receiving'[v] = IF v = Self THEN r ELSE receiving[v]
  BY <1>1 DEF MsgInv, MsgFields
<1>9. MsgFields' /\ skipped \subseteq skipped'
  BY <1>1, <1>2, <1>3 DEF MsgInv, MsgFields
<1>10. WaitersOK'
  BY <1>1, <1>2, <1>7, <1>8, Boxes, MsgFacts DEF MsgInv, WaitersOK, Open
<1>11. RequestsOK'
  BY <1>3, <1>6, <1>8, MsgFacts DEF MsgInv, RequestsOK
<1>12. QueueIds'
  BY <1>2, <1>6 DEF MsgInv, QueueIds, Open
<1>13. NoStrandedReceiver'
  <2> SUFFICES ASSUME NEW b \in Box \ skipped', k'.q[wait_q(b)] # <<>>
               PROVE  Len(msgs'[b]) <= Cardinality(Released(b)')
    BY DEF NoStrandedReceiver
  <2>1. CASE b = r.box
    <3>1. msgs'[b] = <<>>
      BY <1>1, <1>2, <2>1
    <3>2. Cardinality(Released(b)') \in Nat
      BY CountMonotone DEF Released
    <3> QED BY <3>1, <3>2
  <2>2. CASE b # r.box
    <3>1. k.q[wait_q(b)] # <<>>
      <4>1. b \in WaitQueue /\ k' \in KState /\ k \in KState
        BY <1>5, Boxes, MsgFacts DEF GInv, Good, Consistent
      <4> QED BY <1>7, <2>2, <4>1, WaitQueueType
    <3>2. Released(b) \subseteq Released(b)'
      <4>1. Self \notin Released(b)
        BY <2>2, RequestFacts
      <4> QED BY <1>7, <1>8, <4>1 DEF Released, Awake
    <3> QED BY <1>2, <1>9, <3>1, <3>2, NoNewMessage
  <2> QED BY <2>1, <2>2
<1> QED BY <1>5, <1>9, <1>10, <1>11, <1>12, <1>13 DEF MsgInv

\* Nothing but what queues and threads accept changes.
LEMMA ThreadSetInv ==
  ASSUME MsgInv, sys__thread_msg_set
  PROVE  MsgInv'
<1>1. UNCHANGED <<vars, msgs, qid, kmsg_qs, receiving, skipped>> /\ UNCHANGED <<k, handles, joining>>
  BY DEF sys__thread_msg_set, vars
<1>2. min_prio' \in [Box -> MinPrio \cup {0}] /\ sig_prio' \in [Desc -> MinPrio \cup {0}]
  BY DEF sys__thread_msg_set, MsgInv, MsgFields
<1> QED BY <1>1, <1>2
        DEF MsgInv, MsgFields, GInv, WaitersOK, RequestsOK, QueueIds, Open,
            NoStrandedReceiver, Released

-----------------------------------------------------------------------------
LEMMA MsgInitInv == MsgInit => MsgInv
<1> SUFFICES ASSUME MsgInit PROVE MsgInv
  OBVIOUS
<1>1. GInv /\ OtherIds(k) = {} /\ \A w \in WaitQueue : k.q[wait_q(w)] = <<>>
  BY InitInv DEF MsgInit, IInv
<1>2. MsgFields
  <2>1. 0 \in Id
    BY DEF Id
  <2> QED BY <2>1 DEF MsgInit, MsgFields
<1>3. WaitersOK
  BY <1>1, Boxes, NoDupEmpty DEF WaitersOK, InQueue
<1>4. RequestsOK /\ QueueIds
  BY <1>1 DEF MsgInit, RequestsOK, QueueIds, Open
<1>5. NoStrandedReceiver
  BY <1>1, Boxes DEF NoStrandedReceiver
<1> QED BY <1>1, <1>2, <1>3, <1>4, <1>5 DEF MsgInv

LEMMA MsgNextInv ==
  ASSUME MsgInv, [MsgNext]_allVars
  PROVE  MsgInv'
<1>1. CASE UNCHANGED allVars
  BY <1>1
     DEF MsgInv, MsgFields, GInv, WaitersOK, RequestsOK, QueueIds, Open, NoStrandedReceiver,
         Released, allVars, msgVars, vars
<1>2. ASSUME NEW b \in {g \in MsgQ : Open(g)} \cup Reachable, sys__msg_post(b)
      PROVE  MsgInv'
  BY <1>2, PostInv, ReachableThread, Boxes
<1> QED
  BY <1>1, <1>2, ThreadStepInv, ThreadSetInv, CreateQueueInv, DeleteQueueInv, SignalInv,
     RecvMessageInv, RecvBlockInv, RecvFailsInv
     DEF MsgNext, PostRefused

LEMMA MsgInvInvariant == MsgSpec => []MsgInv
BY MsgInitInv, MsgNextInv, PTL DEF MsgSpec

LEMMA MsgInvImplies ==
  ASSUME MsgInv
  PROVE  MsgTypeOK /\ NobodyAtDeletedQueue /\ IdsInUse
<1>1. MsgTypeOK
  <2>1. ToSet(kmsg_qs) \subseteq MsgQ
    BY ToSetType DEF MsgInv, MsgFields
  <2> QED BY <2>1, GInvType DEF MsgTypeOK, MsgInv, MsgFields
<1>2. NobodyAtDeletedQueue
  <2>1. ASSUME NEW g \in MsgQ, k.q[wait_q(g)] # <<>>
        PROVE  Open(g)
    <3>1. \E v \in Desc : InQueue(k, v, g)
      BY <2>1, Boxes, MsgFacts, WaitQueueType
    <3> QED BY <3>1, Boxes DEF MsgInv, WaitersOK
  <2>2. ASSUME NEW t \in Desc, NEW v \in ToSet(k.q[wait_q(t)])
        PROVE  v = t
    <3>1. v \in Desc /\ InQueue(k, v, t)
      BY Boxes, MsgFacts, WaitQueueType DEF InQueue
    <3>2. receiving[v].box = t
      BY <3>1, Boxes DEF MsgInv, WaitersOK
    <3>3. receiving[v] # NoRecv
      BY <3>2, Boxes DEF NoRecv
    <3> QED BY <3>1, <3>2, <3>3, Boxes DEF MsgInv, RequestsOK
  <2> QED BY <2>1, <2>2 DEF NobodyAtDeletedQueue
<1>3. IdsInUse
  <2> DEFINE owners == k.all_threads \cup {g \in MsgQ : Open(g)}
             IdOf(o) == IF o \in Desc THEN k.id[o] ELSE qid[o]
             ThreadIds == {k.id[t] : t \in k.all_threads}
  <2>1. /\ IdsOK(k) /\ k.all_threads \subseteq Desc
        /\ \A t \in k.all_threads : IdOf(t) = k.id[t]
        /\ \A g \in MsgQ : IdOf(g) = qid[g]
    BY MsgFacts, Boxes DEF Good
  <2> HIDE DEF IdOf
  <2>2. k.ids.idmask = ThreadIds \cup OtherIds(k) /\ ThreadIds \cap OtherIds(k) = {}
    BY <2>1 DEF IdsOK, OtherIds
  <2>3. OtherIds(k) = {IdOf(g) : g \in {h \in MsgQ : Open(h)}}
    BY <2>1 DEF MsgInv, QueueIds
  <2>4. ThreadIds = {IdOf(t) : t \in k.all_threads}
    BY <2>1
  <2>5. k.ids.idmask = {IdOf(o) : o \in owners}
    BY <2>2, <2>3, <2>4
  <2>6. ASSUME NEW a \in owners, NEW b \in owners, IdOf(a) = IdOf(b)
        PROVE  a = b
    <3>1. CASE a \in k.all_threads /\ b \in k.all_threads
      BY <2>1, <2>6, <3>1 DEF IdsOK
    <3>2. CASE a \notin k.all_threads /\ b \notin k.all_threads
      BY <2>1, <2>6, <3>2 DEF MsgInv, QueueIds
    <3>3. CASE (a \in k.all_threads) # (b \in k.all_threads)
      BY <2>2, <2>3, <2>4, <2>6, <3>3
    <3> QED BY <3>1, <3>2, <3>3
  <2> QED BY <2>5, <2>6 DEF IdsInUse, IdOf
<1> QED BY <1>1, <1>2, <1>3

(***************************************************************************)
(* Type correctness: in particular what a receiver repeats in its loop is  *)
(* a request, whoever is created, ended or signalled meanwhile.            *)
(***************************************************************************)
THEOREM MsgTypeCorrect == MsgSpec => []MsgTypeOK
BY MsgInvInvariant, MsgInvImplies, PTL

(***************************************************************************)
(* sys__msg_post wakes receivers often enough: while threads are blocked   *)
(* on a box, every message in it has a released receiver on its way, unless*)
(* a receiver has passed over messages of the box.                         *)
(***************************************************************************)
THEOREM NoReceiverEverStranded == MsgSpec => []NoStrandedReceiver
<1>1. MsgInv => NoStrandedReceiver
  BY DEF MsgInv
<1> QED BY <1>1, MsgInvInvariant, PTL

(***************************************************************************)
(* sys__delete_msg_queue and kthread_cancel leave nobody in the queue of   *)
(* blocked threads of something that is freed.                             *)
(***************************************************************************)
THEOREM NobodyEverAtDeletedQueue == MsgSpec => []NobodyAtDeletedQueue
BY MsgInvInvariant, MsgInvImplies, PTL

(***************************************************************************)
(* The ids in use are those of the descriptors and queues that exist, and  *)
(* each is the id of one of them.                                          *)
(***************************************************************************)
THEOREM IdsAlwaysInUse == MsgSpec => []IdsInUse
BY MsgInvInvariant, MsgInvImplies, PTL

===============================================================================
