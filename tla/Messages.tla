------------------------------ MODULE Messages ------------------------------
(***************************************************************************)
(* Message queues and signals (kernel/messages.c) on top of the thread     *)
(* subsystem, with the retry loop of receive_message (programs/api).       *)
(*                                                                         *)
(* A box is what holds messages and blocked receivers: a global queue, or  *)
(* the queue inside a thread descriptor, from which only that thread       *)
(* receives.  The messages of all boxes are in one function.               *)
(***************************************************************************)
EXTENDS Threads

CONSTANTS
  MsgQ,           \* msg_q variables of programs; each names one global queue
  MsgType,        \* types of messages and signals that are sent
  RecvType,       \* types asked for by receive_message (0: any)
  Size, BufSize,  \* sizes of messages and of receivers' buffers
  MinPrio,        \* least types that queues and threads are set to accept
  SignalUsed,     \* programs send signals
  MaxMessages     \* bound: messages in all boxes together

ASSUME MessagesAssumption ==
  /\ MsgQ \cap Desc = {} /\ MsgQ \cup Desc \subseteq WaitQueue /\ NULL \notin MsgQ
  /\ MsgType \cup RecvType \cup Size \cup BufSize \cup MinPrio \subseteq Nat
  /\ SignalUsed \in BOOLEAN /\ MaxMessages \in Nat \ {0}

VARIABLES
  msgs,       \* msgs[b] : messages in box b
  min_prio,   \* min_prio[b] : messages of lesser type are ignored
  sig_prio,   \* sig_prio[t] : signals of lesser type are ignored
  qid,        \* qid[g] : id of global queue g; 0: msg_q->handle is NULL
  kmsg_qs,    \* the list of all global queues
  receiving,  \* receiving[t] : the call t repeats in receive_message, or NoRecv
  skipped     \* boxes whose messages a receiver has passed over
              \* (history variable)

msgVars == <<msgs, min_prio, sig_prio, qid, kmsg_qs, receiving, skipped>>
allVars == <<vars, msgVars>>

Box     == MsgQ \cup Desc
Message == [type : MsgType, size : Size]
Request == [box : Box, type : RecvType, size : BufSize]
NoRecv  == [box |-> NULL, type |-> 0, size |-> 0]

MsgInit ==
  /\ Init
  /\ msgs = [b \in Box |-> <<>>]
  /\ min_prio = [b \in Box |-> 0]
  /\ sig_prio = [t \in Desc |-> 0]
  /\ qid = [g \in MsgQ |-> 0]
  /\ kmsg_qs = <<>>
  /\ receiving = [t \in Desc |-> NoRecv]
  /\ skipped = {}

Open(g) == qid[g] # 0

\* The thread makes a call of its own, it is not inside receive_message.
FreeToSend == FreeToCall /\ receiving[Self] = NoRecv

-----------------------------------------------------------------------------
(***************************************************************************)
(* The calls of Threads.  kthread_create prepares the messages of a new    *)
(* thread (k_thr_msg_init); kthread_cancel, the one that drops the thread's*)
(* own reference, deletes its messages (k_msgq_clean).                     *)
(***************************************************************************)
NewThreads == k'.all_threads \ k.all_threads
Dropped(t) == k'.ref_cnt[t] < k.ref_cnt[t]

k_thr_msg_init ==
  /\ msgs' = [b \in Box |-> IF b \in Desc /\ (b \in NewThreads \/ Dropped(b)) THEN <<>>
                            ELSE msgs[b]]
  /\ min_prio' = [b \in Box |-> IF b \in NewThreads THEN 0 ELSE min_prio[b]]
  /\ sig_prio' = [t \in Desc |-> IF t \in NewThreads THEN 0 ELSE sig_prio[t]]

ThreadStep ==
  /\ receiving[Self] = NoRecv
  /\ Next
  /\ k_thr_msg_init
  /\ receiving' = [t \in Desc |-> IF t \in NewThreads \/ Dropped(t) THEN NoRecv
                                  ELSE receiving[t]]
  /\ skipped' = skipped \cup
                 {b \in Box : \E t \in Desc : Dropped(t) /\ receiving[t].box = b /\ k.state[t] = READY}
  /\ UNCHANGED <<qid, kmsg_qs>>

-----------------------------------------------------------------------------
sys__thread_msg_set ==
  /\ FreeToSend
  /\ \E min_msg, min_sig \in MinPrio :
       /\ min_prio' = [min_prio EXCEPT ![Self] = min_msg]
       /\ sig_prio' = [sig_prio EXCEPT ![Self] = min_sig]
  /\ UNCHANGED <<vars, msgs, qid, kmsg_qs, receiving, skipped>>

\* A msg_q that names a queue is not initialised again.  MoreThreads is the bound on
\* ids, which queues share with threads.
sys__create_msg_queue(g) ==
  /\ FreeToSend /\ ~Open(g) /\ MoreThreads
  /\ k' = [k EXCEPT !.ids = k_new_unique_id(@), !.q[wait_q(g)] = <<>>]
  /\ qid' = [qid EXCEPT ![g] = k'.ids.last_id]
  /\ msgs' = [msgs EXCEPT ![g] = <<>>]
  /\ \E min \in MinPrio : min_prio' = [min_prio EXCEPT ![g] = min]
  /\ kmsg_qs' = Append(kmsg_qs, g)
  /\ skipped' = skipped \ {g}
  /\ UNCHANGED <<handles, joining, sig_prio, receiving>>

\* Mutations: the blocked receivers stay; the id is not given back.
sys__delete_msg_queue_silent(g) ==
  /\ FreeToSend /\ Open(g)
  /\ k' = [k EXCEPT !.ids = k_free_unique_id(@, qid[g])]
  /\ msgs' = [msgs EXCEPT ![g] = <<>>]
  /\ qid' = [qid EXCEPT ![g] = 0]
  /\ UNCHANGED <<handles, joining, min_prio, sig_prio, kmsg_qs, receiving, skipped>>
sys__delete_msg_queue_idKept(g) ==
  /\ FreeToSend /\ Open(g)
  /\ k' = kthreadq_release_all(k, wait_q(g))
  /\ msgs' = [msgs EXCEPT ![g] = <<>>]
  /\ qid' = [qid EXCEPT ![g] = 0]
  /\ UNCHANGED <<handles, joining, min_prio, sig_prio, kmsg_qs, receiving, skipped>>

\* The receivers are made ready and the caller goes on: kthreads_schedule is not
\* called, and the queue stays in kmsg_qs.
sys__delete_msg_queue(g) ==
  /\ FreeToSend /\ Open(g)
  /\ k' = [kthreadq_release_all(k, wait_q(g)) EXCEPT !.ids = k_free_unique_id(@, qid[g])]
  /\ msgs' = [msgs EXCEPT ![g] = <<>>]
  /\ qid' = [qid EXCEPT ![g] = 0]
  /\ UNCHANGED <<handles, joining, min_prio, sig_prio, kmsg_qs, receiving, skipped>>

-----------------------------------------------------------------------------
\* kthread_get_descriptor: the threads a program can send to.
Reachable == {h[1] : h \in {h \in handles : Valid(h) /\ k.state[h[1]] # PASSIVE}}

\* Bound: MaxMessages messages in the system.
MoreMessages ==
  Cardinality(UNION {{b} \X DOMAIN msgs[b] : b \in Box}) < MaxMessages

\* Mutation: a receiver is released only when its message is the first one.
sys__msg_post_first(b) ==
  /\ FreeToSend /\ MoreMessages
  /\ \E msg \in Message :
       /\ min_prio[b] <= msg.type
       /\ msgs' = [msgs EXCEPT ![b] = Append(@, msg)]
       /\ k' = IF msgs[b] # <<>> \/ k.q[wait_q(b)] = <<>> THEN k
               ELSE kthreads_schedule(kthreadq_release(k, wait_q(b)))
  /\ UNCHANGED <<handles, joining, min_prio, sig_prio, qid, kmsg_qs, receiving, skipped>>

\* MSG_QUEUE and MSG_THREAD: append the message, release one receiver.
sys__msg_post(b) ==
  /\ FreeToSend /\ MoreMessages
  /\ \E msg \in Message :
       /\ min_prio[b] <= msg.type
       /\ msgs' = [msgs EXCEPT ![b] = Append(@, msg)]
       /\ k' = IF k.q[wait_q(b)] = <<>> THEN k
               ELSE kthreads_schedule(kthreadq_release(k, wait_q(b)))
  /\ UNCHANGED <<handles, joining, min_prio, sig_prio, qid, kmsg_qs, receiving, skipped>>

\* MSG_SIGNAL: a new thread of the receiver's process runs the signal handler, one
\* priority above the receiver.
msg_post_signal(r) ==
  /\ SignalUsed
  /\ FreeToSend /\ MoreThreads
  /\ \E type \in MsgType : sig_prio[r] <= type
  /\ \E t \in FreeDesc(k) :
       /\ k' = kthreads_schedule(kthread_create(k, t, k.prio[r] + 1, k.proc[r]))
       /\ joining' = [joining EXCEPT ![t] = NoHandle]
       /\ receiving' = [receiving EXCEPT ![t] = NoRecv]
  /\ k_thr_msg_init
  /\ UNCHANGED <<handles, qid, kmsg_qs, skipped>>

\* EXIT ( E_IGNORED ), E_DONT_EXIST or E_INVALID_HANDLE: nothing changes.
PostRefused == FreeToSend /\ UNCHANGED allVars

-----------------------------------------------------------------------------
(***************************************************************************)
(* sys__msg_recv, one action per outcome.  The search for a message of a   *)
(* type may stop at any place of the queue, but the message removed is the *)
(* FIRST one; the ASSERT compares the two.                                 *)
(***************************************************************************)
Requests ==
  IF receiving[Self] # NoRecv THEN {receiving[Self]}
  ELSE {r \in Request : (r.box \in MsgQ /\ Open(r.box)) \/ r.box = Self}

Matches(r) == {i \in 1 .. Len(msgs[r.box]) : r.type = 0 \/ msgs[r.box][i].type = r.type}
Found(r)   == CHOOSE i \in Matches(r) : \A j \in Matches(r) : i <= j

Receiver == UserCall /\ joining[Self] = NoHandle
\* The receiver that gives up was on its way to fetch a message.
Skips(r) == skipped' = IF receiving[Self] = r /\ msgs[r.box] # <<>>
                       THEN skipped \cup {r.box} ELSE skipped
Return   == receiving' = [receiving EXCEPT ![Self] = NoRecv]

RecvMessage ==
  /\ Receiver
  /\ \E r \in Requests :
       /\ Matches(r) # {}
       /\ msgs[r.box][Found(r)].size <= r.size
       /\ msgs' = [msgs EXCEPT ![r.box] = Tail(@)]
       /\ k' = IF Found(r) = 1 THEN k ELSE [k EXCEPT !.assert = "wrong_message"]
  /\ Return
  /\ UNCHANGED <<handles, joining, min_prio, sig_prio, qid, kmsg_qs, skipped>>

\* No message to take: block, and be told to retry.
RecvBlock ==
  /\ Receiver
  /\ \E r \in Requests :
       /\ r.box \in MsgQ => Open(r.box)
       /\ Matches(r) = {}
       /\ k' = kthreads_schedule(kthread_enqueue(k, Self, wait_q(r.box)))
       /\ receiving' = [receiving EXCEPT ![Self] = r]
       /\ skipped' = IF msgs[r.box] # <<>> THEN skipped \cup {r.box} ELSE skipped
  /\ UNCHANGED <<handles, joining, msgs, min_prio, sig_prio, qid, kmsg_qs>>

\* The message does not fit (E_TOO_BIG), or the queue was deleted: leave the loop.  (A
\* first call that does not wait changes nothing either.)
RecvFails ==
  /\ Receiver
  /\ \E r \in Requests :
       /\ \/ Matches(r) # {} /\ msgs[r.box][Found(r)].size > r.size
          \/ r.box \in MsgQ /\ ~Open(r.box)
       /\ Skips(r)
  /\ Return
  /\ UNCHANGED <<vars, msgs, min_prio, sig_prio, qid, kmsg_qs>>

MsgNext ==
  \/ ThreadStep
  \/ sys__thread_msg_set
  \/ \E g \in MsgQ : sys__create_msg_queue(g) \/ sys__delete_msg_queue(g)
  \/ \E b \in {g \in MsgQ : Open(g)} \cup Reachable : sys__msg_post(b)
  \/ \E r \in Reachable : msg_post_signal(r)
  \/ PostRefused
  \/ RecvMessage
  \/ RecvBlock
  \/ RecvFails

MsgSpec == MsgInit /\ [][MsgNext]_allVars

-----------------------------------------------------------------------------
MsgTypeOK ==
  /\ TypeOK
  /\ msgs \in [Box -> Seq(Message)]
  /\ min_prio \in [Box -> MinPrio \cup {0}] /\ sig_prio \in [Desc -> MinPrio \cup {0}]
  /\ qid \in [MsgQ -> Id]
  /\ ToSet(kmsg_qs) \subseteq MsgQ
  /\ receiving \in [Desc -> Request \cup {NoRecv}]
  /\ skipped \subseteq Box

(***************************************************************************)
(* No receiver is stranded: while threads are blocked on a box, there is   *)
(* for each message in it a receiver already released, on its way to fetch *)
(* it, also when another thread takes the message first (sys__msg_post     *)
(* releases one thread per message, sys__msg_recv is called again).  The   *)
(* only ways to lose a wake-up are the ones skipped records: the receiver  *)
(* asks for another type, finds the message too big, or is cancelled.      *)
(***************************************************************************)
Released(b) ==
  {t \in Desc : receiving[t].box = b /\ k.state[t] \in {READY, ACTIVE}}

NoStrandedReceiver ==
  \A b \in Box \ skipped :
    k.q[wait_q(b)] # <<>> => Len(msgs[b]) <= Cardinality(Released(b))

(***************************************************************************)
(* Nobody is blocked on a deleted queue, whose kgmsg_q is freed, nor on    *)
(* another thread's box (sys__delete_msg_queue, kthread_cancel).           *)
(***************************************************************************)
NobodyAtDeletedQueue ==
  /\ \A g \in MsgQ : k.q[wait_q(g)] # <<>> => Open(g)
  /\ \A t \in Desc : ToSet(k.q[wait_q(t)]) \subseteq {t}

(***************************************************************************)
(* Threads and message queues draw their ids from one allocator: the ids   *)
(* in use are exactly those of the existing descriptors and queues, and no *)
(* two of them are equal (kthread_create, sys__create_msg_queue and their  *)
(* counterparts).                                                          *)
(***************************************************************************)
IdsInUse ==
  LET owners == k.all_threads \cup {g \in MsgQ : Open(g)}
      IdOf(o) == IF o \in Desc THEN k.id[o] ELSE qid[o]
  IN  /\ k.ids.idmask = {IdOf(o) : o \in owners}
      /\ \A a, b \in owners : IdOf(a) = IdOf(b) => a = b

(***************************************************************************)
(* "type != 0 => search for first message 'type'" and the ASSERT that the  *)
(* message found is the one removed (sys__msg_recv).                       *)
(***************************************************************************)
FoundMessageRemoved == k.assert # "wrong_message"

(***************************************************************************)
(* "list of all global message queues": kmsg_qs holds the queues that      *)
(* exist, each once.                                                       *)
(***************************************************************************)
AllGlobalQueues ==
  /\ ToSet(kmsg_qs) = {g \in MsgQ : Open(g)}
  /\ Len(kmsg_qs) = Cardinality(ToSet(kmsg_qs))
=============================================================================
